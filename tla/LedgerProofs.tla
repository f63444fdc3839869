------------------------------ MODULE LedgerProofs ------------------------------
(****************************************************************************)
(* The credit account: what holds of it for every number of lots, bookings, *)
(* payments and jobs that overlap.                                          *)
(*                                                                          *)
(* First what the proofs need of sums over finite sets, which the model     *)
(* takes of the community modules; then what consumption and refund do to   *)
(* the lots; then the steps of the account, of the rows and of the jobs.    *)
(****************************************************************************)
EXTENDS CreditLedger, FiniteSetTheorems, WellFoundedInduction, TLAPS

\* A set of numbers has a least one.
LEMMA LeastNumber ==
    ASSUME NEW T, T \subseteq Nat, T # {}
    PROVE  \E x \in T : \A y \in T : x <= y
  <1> DEFINE R == OpToRel(<, Nat)
  <1>1. IsWellFoundedOn(R, Nat)
    BY NatLessThanWellFounded
  <1>2. \A x, y \in Nat : y < x => <<y, x>> \in R
    BY DEF OpToRel
  <1> HIDE DEF R
  <1>3. PICK x \in T : \A y \in T : ~(<<y, x>> \in R)
    BY <1>1, WFMin
  <1>4. \A y \in T : x <= y
    <2> TAKE y \in T
    <2>1. x \in Nat /\ y \in Nat /\ ~(y < x)
      BY <1>2, <1>3
    <2> QED BY <2>1
  <1> QED BY <1>4

\* Of the finite sets of a family one is the smallest.
LEMMA SmallestSet ==
    ASSUME NEW F, F # {}, \A T \in F : IsFiniteSet(T)
    PROVE  \E T \in F : \A U \in F : Cardinality(T) <= Cardinality(U)
  <1> DEFINE N == {Cardinality(T) : T \in F}
  <1>1. N \subseteq Nat /\ N # {}
    BY FS_CardinalityType
  <1>2. PICK n \in N : \A m \in N : n <= m
    BY <1>1, LeastNumber
  <1>3. PICK T \in F : n = Cardinality(T)
    BY <1>2
  <1> QED BY <1>2, <1>3

----------------------------------------------------------------------------
\* g tells the sum of f over every part of S.
Sums(g, f, S) ==
    /\ g \in [SUBSET S -> Int]
    /\ g[{}] = 0
    /\ \A T \in SUBSET S : \A x \in S \ T : g[T \cup {x}] = g[T] + f[x]

\* f gives a number to each member of S.
Numbers(f, S) == IsFiniteSet(S) /\ \A x \in S : f[x] \in Int

\* Such a g for all but one of S gives one for S.
LEMMA SumsExtend ==
    ASSUME NEW S, NEW f, Numbers(f, S), NEW a \in S, NEW g, Sums(g, f, S \ {a})
    PROVE  \E h : Sums(h, f, S)
  <1> DEFINE h == [T \in SUBSET S |-> IF a \in T THEN g[T \ {a}] + f[a] ELSE g[T]]
  <1>1. \A T \in SUBSET S : T \ {a} \in SUBSET (S \ {a}) /\ (a \notin T => T \in SUBSET (S \ {a}))
    OBVIOUS
  <1>2. h \in [SUBSET S -> Int]
    BY <1>1 DEF Sums, Numbers
  <1>3. h[{}] = 0
    BY DEF Sums
  <1>4. ASSUME NEW T \in SUBSET S, NEW x \in S \ T
        PROVE  h[T \cup {x}] = h[T] + f[x]
    <2>0. h[T \cup {x}] = IF a \in T \cup {x} THEN g[(T \cup {x}) \ {a}] + f[a] ELSE g[T \cup {x}]
      OBVIOUS
    <2>1. CASE x = a
      <3>1. (T \cup {x}) \ {a} = T /\ a \notin T
        BY <2>1
      <3> QED BY <2>0, <2>1, <3>1
    <2>2. CASE x # a /\ a \in T
      <3>1. (T \cup {x}) \ {a} = (T \ {a}) \cup {x} /\ x \in (S \ {a}) \ (T \ {a})
        BY <2>2
      <3>2. g[(T \ {a}) \cup {x}] = g[T \ {a}] + f[x]
        BY <1>1, <3>1 DEF Sums
      <3>3. h[T] = g[T \ {a}] + f[a] /\ h[T \cup {x}] = g[(T \ {a}) \cup {x}] + f[a]
        BY <2>0, <2>2, <3>1
      <3>4. g[T \ {a}] \in Int /\ g[(T \ {a}) \cup {x}] \in Int /\ f[a] \in Int
        BY <1>1, <2>2, <3>1 DEF Sums, Numbers
      <3>5. f[x] \in Int
        BY DEF Numbers
      <3> QED BY <3>2, <3>3, <3>4, <3>5
    <2>3. CASE x # a /\ a \notin T
      <3>1. x \in (S \ {a}) \ T /\ T \in SUBSET (S \ {a}) /\ a \notin T \cup {x}
        BY <2>3
      <3>2. g[T \cup {x}] = g[T] + f[x]
        BY <3>1 DEF Sums
      <3> QED BY <2>0, <2>3, <3>1, <3>2
    <2> QED BY <2>1, <2>2, <2>3
  <1>5. Sums(h, f, S)
    BY <1>2, <1>3, <1>4 DEF Sums
  <1> QED BY <1>5

\* So there is one for every finite S.
LEMMA SumsExist ==
    ASSUME NEW S, NEW f, Numbers(f, S)
    PROVE  \E g : Sums(g, f, S)
  <1> DEFINE Bad == {T \in SUBSET S : ~\E g : Sums(g, f, T)}
  <1>1. \A T \in SUBSET S : IsFiniteSet(T) /\ Numbers(f, T)
    BY FS_Subset DEF Numbers
  <1>2. SUFFICES ASSUME Bad # {} PROVE FALSE
    OBVIOUS
  <1>3. PICK T \in Bad : \A U \in Bad : Cardinality(T) <= Cardinality(U)
    <2>1. \A U \in Bad : IsFiniteSet(U)
      BY <1>1
    <2> HIDE DEF Bad
    <2> QED BY <1>2, <2>1, SmallestSet
  <1>4. CASE T = {}
    <2>1. Sums([U \in SUBSET {} |-> 0], f, {})
      BY DEF Sums
    <2> QED BY <1>4, <2>1
  <1>5. CASE T # {}
    <2>1. PICK a : a \in T
      BY <1>5
    <2>2. IsFiniteSet(T) /\ Cardinality(T) \in Nat /\ Cardinality(T \ {a}) = Cardinality(T) - 1
      BY <1>1, <2>1, FS_CardinalityType, FS_RemoveElement
    <2>3. T \ {a} \notin Bad
      BY <1>3, <2>2
    <2>4. PICK g : Sums(g, f, T \ {a})
      BY <2>3
    <2>5. \E h : Sums(h, f, T)
      BY <1>1, <2>1, <2>4, SumsExtend
    <2> QED BY <2>5
  <1> QED BY <1>4, <1>5

\* The fold of the community modules is that sum, in whatever order it takes the members.
LEMMA SumIs ==
    ASSUME NEW S, NEW f, Numbers(f, S), NEW g, Sums(g, f, S)
    PROVE  SumFunctionOnSet(f, S) = g[S]
  <1> DEFINE Chosen(s) == CHOOSE x \in s : TRUE
             Step(h) == [s \in SUBSET S |-> IF s = {} THEN 0 ELSE f[Chosen(s)] + h[s \ {Chosen(s)}]]
             fold == CHOOSE h : h = Step(h)
  <1>1. SumFunctionOnSet(f, S) = fold[S]
    BY DEF SumFunctionOnSet, FoldFunctionOnSet, MapThenFoldSet
  <1>2. \A s \in SUBSET S : s # {} =>
          /\ Chosen(s) \in s /\ s \ {Chosen(s)} \in SUBSET S
          /\ g[s] = f[Chosen(s)] + g[s \ {Chosen(s)}]
    <2> TAKE s \in SUBSET S
    <2> HAVE s # {}
    <2>1. Chosen(s) \in s
      OBVIOUS
    <2> HIDE DEF Chosen
    <2>2. s = (s \ {Chosen(s)}) \cup {Chosen(s)} /\ Chosen(s) \in S \ (s \ {Chosen(s)})
      BY <2>1
    <2>3. g[s] = g[s \ {Chosen(s)}] + f[Chosen(s)]
      BY <2>2 DEF Sums
    <2>4. g[s \ {Chosen(s)}] \in Int /\ f[Chosen(s)] \in Int
      BY <2>2 DEF Sums, Numbers
    <2> QED BY <2>1, <2>3, <2>4
  <1>3. g = Step(g)
    <2> HIDE DEF Chosen
    <2> QED BY <1>2 DEF Sums
  <1>4. fold = Step(fold)
    BY <1>3
  <1> HIDE DEF fold
  <1> DEFINE Bad == {s \in SUBSET S : fold[s] # g[s]}
  <1>5. SUFFICES ASSUME Bad # {} PROVE FALSE
    BY <1>1
  <1>6. \A s \in SUBSET S : IsFiniteSet(s)
    BY FS_Subset DEF Numbers
  <1>7. PICK s \in Bad : \A u \in Bad : Cardinality(s) <= Cardinality(u)
    <2>1. \A u \in Bad : IsFiniteSet(u)
      BY <1>6
    <2> HIDE DEF Bad
    <2> QED BY <1>5, <2>1, SmallestSet
  <1>8. s # {}
    BY <1>4 DEF Sums
  <1>9. Cardinality(s) \in Nat /\ Cardinality(s \ {Chosen(s)}) = Cardinality(s) - 1
    <2> HIDE DEF Chosen
    <2> QED BY <1>2, <1>6, <1>8, FS_CardinalityType, FS_RemoveElement
  <1>10. fold[s \ {Chosen(s)}] = g[s \ {Chosen(s)}]
    <2>1. s \ {Chosen(s)} \notin Bad
      <3> HIDE DEF Chosen, Bad
      <3> QED BY <1>7, <1>9
    <2> HIDE DEF Chosen
    <2> QED BY <1>2, <1>8, <2>1
  <1>11. fold[s] = f[Chosen(s)] + fold[s \ {Chosen(s)}]
    <2> HIDE DEF Chosen
    <2> QED BY <1>4, <1>8
  <1> QED BY <1>2, <1>8, <1>10, <1>11

\* So the fold over a part of S is told by the same function.
LEMMA SumOver ==
    ASSUME NEW S, NEW f, Numbers(f, S), NEW g, Sums(g, f, S), NEW T \in SUBSET S
    PROVE  SumFunctionOnSet(f, T) = g[T]
  <1> DEFINE h == [U \in SUBSET T |-> g[U]]
  <1>1. Numbers(f, T)
    BY FS_Subset DEF Numbers
  <1>2. Sums(h, f, T)
    BY DEF Sums
  <1> QED BY <1>1, <1>2, SumIs

----------------------------------------------------------------------------
(* What the proofs use of sums.                                             *)

\* A sum of numbers is a number, and none is the sum of nothing.
LEMMA SumNumber ==
    ASSUME NEW S, NEW f, Numbers(f, S)
    PROVE  SumFunctionOnSet(f, S) \in Int /\ SumFunctionOnSet(f, {}) = 0
  <1>1. PICK g : Sums(g, f, S)
    BY SumsExist
  <1>2. SumFunctionOnSet(f, S) = g[S] /\ SumFunctionOnSet(f, {}) = g[{}]
    BY <1>1, SumOver
  <1> QED BY <1>1, <1>2 DEF Sums

\* One member taken out.
LEMMA SumWithout ==
    ASSUME NEW S, NEW f, Numbers(f, S), NEW x \in S
    PROVE  SumFunctionOnSet(f, S) = SumFunctionOnSet(f, S \ {x}) + f[x]
  <1>1. PICK g : Sums(g, f, S)
    BY SumsExist
  <1>2. SumFunctionOnSet(f, S) = g[S] /\ SumFunctionOnSet(f, S \ {x}) = g[S \ {x}]
    BY <1>1, SumOver
  <1>3. (S \ {x}) \cup {x} = S /\ x \in S \ (S \ {x})
    OBVIOUS
  <1>4. g[(S \ {x}) \cup {x}] = g[S \ {x}] + f[x]
    BY <1>1, <1>3 DEF Sums
  <1> QED BY <1>2, <1>3, <1>4

\* Only the values on the set count.
LEMMA SumSame ==
    ASSUME NEW S, NEW f, NEW h, Numbers(f, S), \A x \in S : h[x] = f[x]
    PROVE  SumFunctionOnSet(h, S) = SumFunctionOnSet(f, S)
  <1>1. PICK g : Sums(g, f, S)
    BY SumsExist
  <1>2. Numbers(h, S) /\ Sums(g, h, S)
    BY <1>1 DEF Numbers, Sums
  <1> QED BY <1>1, <1>2, SumIs

\* The sum of the sums.
LEMMA SumPlus ==
    ASSUME NEW S, NEW f, NEW h, NEW k, Numbers(f, S), Numbers(h, S), \A x \in S : k[x] = f[x] + h[x]
    PROVE  SumFunctionOnSet(k, S) = SumFunctionOnSet(f, S) + SumFunctionOnSet(h, S)
  <1>1. PICK g : Sums(g, f, S)
    BY SumsExist
  <1>2. PICK d : Sums(d, h, S)
    BY SumsExist
  <1> DEFINE e == [T \in SUBSET S |-> g[T] + d[T]]
  <1>3. \A T \in SUBSET S : g[T] \in Int /\ d[T] \in Int
    BY <1>1, <1>2 DEF Sums
  <1>4. ASSUME NEW T \in SUBSET S, NEW x \in S \ T
        PROVE  e[T \cup {x}] = e[T] + k[x]
    <2>1. g[T \cup {x}] = g[T] + f[x] /\ d[T \cup {x}] = d[T] + h[x] /\ T \cup {x} \in SUBSET S
      BY <1>1, <1>2 DEF Sums
    <2>2. f[x] \in Int /\ h[x] \in Int /\ k[x] = f[x] + h[x]
      BY DEF Numbers
    <2> QED BY <1>3, <2>1, <2>2
  <1>5. Numbers(k, S)
    BY DEF Numbers
  <1>6. Sums(e, k, S)
    <2>1. e[{}] = 0 /\ e \in [SUBSET S -> Int]
      BY <1>1, <1>2, <1>3 DEF Sums
    <2> HIDE DEF e
    <2> QED BY <1>4, <2>1 DEF Sums
  <1>7. SumFunctionOnSet(k, S) = e[S]
    BY <1>5, <1>6, SumIs
  <1> QED BY <1>1, <1>2, <1>7, SumIs

\* What is zero elsewhere is summed where it is not.
LEMMA SumWithin ==
    ASSUME NEW S, NEW T \in SUBSET S, NEW f, NEW h, Numbers(f, T),  IsFiniteSet(S),
           \A x \in S : h[x] = IF x \in T THEN f[x] ELSE 0
    PROVE  SumFunctionOnSet(h, S) = SumFunctionOnSet(f, T)
  <1>1. PICK g : Sums(g, f, T)
    BY SumsExist
  <1> DEFINE e == [U \in SUBSET S |-> g[U \cap T]]
  <1>2. \A U \in SUBSET S : g[U \cap T] \in Int
    BY <1>1 DEF Sums
  <1>3. ASSUME NEW U \in SUBSET S, NEW x \in S \ U
        PROVE  e[U \cup {x}] = e[U] + h[x]
    <2>1. CASE x \in T
      <3>1. (U \cup {x}) \cap T = (U \cap T) \cup {x} /\ x \in T \ (U \cap T)
        BY <2>1
      <3>2. g[(U \cap T) \cup {x}] = g[U \cap T] + f[x]
        BY <1>1, <3>1 DEF Sums
      <3> QED BY <2>1, <3>1, <3>2
    <2>2. CASE x \notin T
      <3>1. (U \cup {x}) \cap T = U \cap T
        BY <2>2
      <3>2. e[U \cup {x}] = g[U \cap T] /\ e[U] = g[U \cap T] /\ h[x] = 0
        BY <2>2, <3>1
      <3>3. g[U \cap T] \in Int
        BY <1>2
      <3> QED BY <3>2, <3>3
    <2> QED BY <2>1, <2>2
  <1>4. Numbers(h, S)
    BY DEF Numbers
  <1>5. Sums(e, h, S)
    <2>1. e[{}] = 0 /\ e \in [SUBSET S -> Int]
      BY <1>1, <1>2 DEF Sums
    <2> HIDE DEF e
    <2> QED BY <1>3, <2>1 DEF Sums
  <1>6. SumFunctionOnSet(h, S) = e[S] /\ S \cap T = T
    BY <1>4, <1>5, SumIs
  <1> QED BY <1>1, <1>6, SumIs

\* The sum over a set is the sum over two parts of it.
LEMMA SumParts ==
    ASSUME NEW S, NEW f, Numbers(f, S), NEW T \in SUBSET S
    PROVE  /\ SumFunctionOnSet(f, S) = SumFunctionOnSet(f, T) + SumFunctionOnSet(f, S \ T)
           /\ SumFunctionOnSet(f, T) \in Int /\ SumFunctionOnSet(f, S \ T) \in Int
  <1>1. \A U \in SUBSET S : Numbers(f, U) /\ IsFiniteSet(U) /\ SumFunctionOnSet(f, U) \in Int
    <2> TAKE U \in SUBSET S
    <2>1. Numbers(f, U)
      BY FS_Subset DEF Numbers
    <2> QED BY <2>1, SumNumber DEF Numbers
  <1> DEFINE h == [x \in S |-> IF x \in T THEN f[x] ELSE 0]
             k == [x \in S |-> IF x \in S \ T THEN f[x] ELSE 0]
  <1>4. SumFunctionOnSet(h, S) = SumFunctionOnSet(f, T)
    BY <1>1, SumWithin DEF Numbers
  <1>5. SumFunctionOnSet(k, S) = SumFunctionOnSet(f, S \ T)
    BY <1>1, SumWithin DEF Numbers
  <1>6. SumFunctionOnSet(f, S) = SumFunctionOnSet(h, S) + SumFunctionOnSet(k, S)
    <2>1. Numbers(h, S) /\ Numbers(k, S) /\ \A x \in S : f[x] = h[x] + k[x]
      BY DEF Numbers
    <2> HIDE DEF h, k
    <2> QED BY <2>1, SumPlus
  <1> QED BY <1>1, <1>4, <1>5, <1>6

\* Noughts add up to nought.
LEMMA SumZero ==
    ASSUME NEW S, IsFiniteSet(S), NEW f, \A x \in S : f[x] = 0
    PROVE  SumFunctionOnSet(f, S) = 0
  <1>1. Numbers(f, {}) /\ Numbers(f, S)
    BY FS_EmptySet DEF Numbers
  <1>2. SumFunctionOnSet(f, S) = SumFunctionOnSet(f, {})
    BY <1>1, SumWithin
  <1> QED BY <1>1, <1>2, SumNumber

\* Sums of natural numbers grow with the set.
LEMMA SumGrows ==
    ASSUME NEW S, NEW f, Numbers(f, S), \A x \in S : f[x] >= 0, NEW T \in SUBSET S
    PROVE  0 <= SumFunctionOnSet(f, T) /\ SumFunctionOnSet(f, T) <= SumFunctionOnSet(f, S)
  <1>1. \A U \in SUBSET S : Numbers(f, U) /\ IsFiniteSet(U) /\ SumFunctionOnSet(f, U) \in Int
    <2> TAKE U \in SUBSET S
    <2>1. Numbers(f, U)
      BY FS_Subset DEF Numbers
    <2> QED BY <2>1, SumNumber DEF Numbers
  <1> DEFINE Bad == {U \in SUBSET S : SumFunctionOnSet(f, U) < 0}
  <1>2. Bad = {}
    <2>1. SUFFICES ASSUME Bad # {} PROVE FALSE
      OBVIOUS
    <2>2. PICK U \in Bad : \A V \in Bad : Cardinality(U) <= Cardinality(V)
      <3>1. \A V \in Bad : IsFiniteSet(V)
        BY <1>1
      <3> HIDE DEF Bad
      <3> QED BY <2>1, <3>1, SmallestSet
    <2>3. U # {}
      <3>1. SumFunctionOnSet(f, {}) = 0
        BY SumNumber
      <3> QED BY <3>1
    <2>4. PICK x : x \in U
      BY <2>3
    <2>5. Cardinality(U) \in Nat /\ Cardinality(U \ {x}) = Cardinality(U) - 1
      BY <1>1, <2>4, FS_CardinalityType, FS_RemoveElement
    <2>6. U \ {x} \notin Bad
      BY <2>2, <2>5
    <2>7. SumFunctionOnSet(f, U) = SumFunctionOnSet(f, U \ {x}) + f[x]
      BY <1>1, <2>4, SumWithout
    <2>8. f[x] \in Int /\ f[x] >= 0 /\ SumFunctionOnSet(f, U \ {x}) \in Int /\ SumFunctionOnSet(f, U) \in Int
      BY <1>1, <2>4 DEF Numbers
    <2> QED BY <2>6, <2>7, <2>8
  <1>3. \A U \in SUBSET S : 0 <= SumFunctionOnSet(f, U)
    BY <1>1, <1>2
  <1>4. SumFunctionOnSet(f, S) = SumFunctionOnSet(f, T) + SumFunctionOnSet(f, S \ T)
    BY SumParts
  <1> QED BY <1>1, <1>3, <1>4
----------------------------------------------------------------------------
(* What consumeCredits takes from each lot.                                 *)

Lot == [exp : Nat, amount : Nat, remaining : Nat]
Lots(ls) == IsFiniteSet(DOMAIN ls) /\ DOMAIN ls \subseteq Nat /\ ls \in [DOMAIN ls -> Lot]

\* The lots stand in one order.
LEMMA SoonerOrders ==
    ASSUME NEW ls, Lots(ls), NEW l \in DOMAIN ls, NEW m \in DOMAIN ls
    PROVE  /\ ~Sooner(ls, l, l)
           /\ l # m => Sooner(ls, l, m) \/ Sooner(ls, m, l)
           /\ ~(Sooner(ls, l, m) /\ Sooner(ls, m, l))
           /\ \A n \in DOMAIN ls : Sooner(ls, l, m) /\ Sooner(ls, m, n) => Sooner(ls, l, n)
  BY DEF Lots, Lot, Sooner

\* Some lot is the last.
LEMMA LastLot ==
    ASSUME NEW ls, Lots(ls), NEW T \in SUBSET (DOMAIN ls), T # {}
    PROVE  \E y \in T : \A m \in T : ~Sooner(ls, y, m)
  <1> DEFINE After(y) == {m \in T : Sooner(ls, y, m)}
             F == {After(y) : y \in T}
  <1>0. IsFiniteSet(T)
    BY FS_Subset DEF Lots
  <1>1. \A y \in T : IsFiniteSet(After(y))
    BY <1>0, FS_Subset
  <1>2. PICK U \in F : \A V \in F : Cardinality(U) <= Cardinality(V)
    <2>1. F # {} /\ \A U \in F : IsFiniteSet(U)
      BY <1>1
    <2> HIDE DEF F
    <2> QED BY <2>1, SmallestSet
  <1>3. PICK y \in T : U = After(y)
    BY <1>2
  <1>4. ASSUME NEW m \in T, Sooner(ls, y, m) PROVE FALSE
    <2>1. After(m) \subseteq After(y) /\ m \in After(y) /\ m \notin After(m)
      BY <1>4, SoonerOrders
    <2>2. Cardinality(After(m)) <= Cardinality(After(y)) /\ Cardinality(After(m)) # Cardinality(After(y))
      <3> HIDE DEF After
      <3> QED BY <1>1, <2>1, FS_Subset
    <2>3. Cardinality(After(y)) <= Cardinality(After(m))
      BY <1>2, <1>3
    <2>4. Cardinality(After(y)) \in Nat /\ Cardinality(After(m)) \in Nat
      BY <1>1, FS_CardinalityType
    <2> HIDE DEF After
    <2> QED BY <2>2, <2>3, <2>4
  <1> QED BY <1>4

Taken(ls, amount) ==
    [l \in DOMAIN ls |-> IF NeedAt(ls, amount, l) > 0
                         THEN Lesser(ls[l].remaining, NeedAt(ls, amount, l)) ELSE 0]

\* What is left of the lots and what is taken from them are numbers.
LEMMA TakenNumbers ==
    ASSUME NEW ls, Lots(ls), NEW amount \in Nat
    PROVE  /\ Numbers(Remaining(ls), DOMAIN ls) /\ Numbers(Taken(ls, amount), DOMAIN ls)
           /\ \A l \in DOMAIN ls : NeedAt(ls, amount, l) \in Int
           /\ \A l \in DOMAIN ls : Taken(ls, amount)[l] \in Nat /\ Taken(ls, amount)[l] <= ls[l].remaining
  <1>1. Numbers(Remaining(ls), DOMAIN ls)
    BY DEF Lots, Lot, Numbers, Remaining
  <1>2. ASSUME NEW l \in DOMAIN ls PROVE NeedAt(ls, amount, l) \in Int
    <2> DEFINE B == {m \in DOMAIN ls : Sooner(ls, m, l)}
    <2>1. Numbers(Remaining(ls), B)
      BY <1>1, FS_Subset DEF Numbers
    <2>2. SumFunctionOnSet(Remaining(ls), B) \in Int
      BY <2>1, SumNumber
    <2> QED BY <2>2 DEF NeedAt
  <1>3. \A l \in DOMAIN ls : Taken(ls, amount)[l] \in Nat /\ Taken(ls, amount)[l] <= ls[l].remaining
    BY <1>2 DEF Taken, Lesser, Lots, Lot
  <1> QED BY <1>1, <1>2, <1>3 DEF Numbers, Lots

\* Down to any lot, the lots give all they have or all that is asked.
LEMMA TakenSoFar ==
    ASSUME NEW ls, Lots(ls), NEW amount \in Nat, NEW S \in SUBSET (DOMAIN ls),
           \A m \in S, l \in DOMAIN ls : Sooner(ls, l, m) => l \in S
    PROVE  SumFunctionOnSet(Taken(ls, amount), S) = Lesser(amount, SumFunctionOnSet(Remaining(ls), S))
  <1> DEFINE D == DOMAIN ls
             R == Remaining(ls)
             U == Taken(ls, amount)
             Initial(T) == \A m \in T, l \in D : Sooner(ls, l, m) => l \in T
             Bad == {T \in SUBSET D : Initial(T) /\ SumFunctionOnSet(U, T) # Lesser(amount, SumFunctionOnSet(R, T))}
  <1>1. \A T \in SUBSET D : /\ IsFiniteSet(T) /\ Numbers(R, T) /\ Numbers(U, T)
                            /\ SumFunctionOnSet(U, T) \in Int /\ SumFunctionOnSet(R, T) \in Int
    <2> TAKE T \in SUBSET D
    <2>1. IsFiniteSet(T)
      BY FS_Subset DEF Lots
    <2>2. Numbers(R, T) /\ Numbers(U, T)
      BY <2>1, TakenNumbers DEF Numbers
    <2> QED BY <2>1, <2>2, SumNumber
  <1>2. SUFFICES ASSUME Bad # {} PROVE FALSE
    OBVIOUS
  <1>3. PICK T \in Bad : \A V \in Bad : Cardinality(T) <= Cardinality(V)
    <2>1. \A V \in Bad : IsFiniteSet(V)
      BY <1>1
    <2> HIDE DEF Bad
    <2> QED BY <1>2, <2>1, SmallestSet
  <1>4. T # {}
    <2>1. SumFunctionOnSet(U, {}) = 0 /\ SumFunctionOnSet(R, {}) = 0
      BY <1>1, SumNumber
    <2> QED BY <2>1 DEF Lesser
  <1>5. PICK y \in T : \A m \in T : ~Sooner(ls, y, m)
    BY <1>4, LastLot
  <1>6. {m \in D : Sooner(ls, m, y)} = T \ {y}
    BY <1>5, SoonerOrders
  <1>7. Initial(T \ {y})
    BY <1>5, SoonerOrders
  <1>8. Cardinality(T) \in Nat /\ Cardinality(T \ {y}) = Cardinality(T) - 1
    BY <1>1, FS_CardinalityType, FS_RemoveElement
  <1>9. T \ {y} \notin Bad
    BY <1>3, <1>8
  <1>10. SumFunctionOnSet(U, T \ {y}) = Lesser(amount, SumFunctionOnSet(R, T \ {y}))
    BY <1>7, <1>9
  <1>11. /\ SumFunctionOnSet(U, T) = SumFunctionOnSet(U, T \ {y}) + U[y]
         /\ SumFunctionOnSet(R, T) = SumFunctionOnSet(R, T \ {y}) + R[y]
    BY <1>1, SumWithout
  <1>12. R[y] \in Nat /\ R[y] = ls[y].remaining
    BY DEF Remaining, Lots, Lot
  <1>13. U[y] = IF amount - SumFunctionOnSet(R, T \ {y}) > 0
                THEN Lesser(R[y], amount - SumFunctionOnSet(R, T \ {y})) ELSE 0
    BY <1>6, <1>12 DEF Taken, NeedAt
  <1>14. SumFunctionOnSet(R, T \ {y}) \in Int
    BY <1>1
  <1>15. SumFunctionOnSet(U, T) = Lesser(amount, SumFunctionOnSet(R, T))
    <2> HIDE DEF R, U, D, Bad, Initial
    <2> QED BY <1>10, <1>11, <1>12, <1>13, <1>14 DEF Lesser
  <1> QED BY <1>15

\* The plan of a consumption: what is taken adds up to the price, purchased credits come
\* last, and a lot is touched only when those that expire sooner are empty.
PlanSound(plan, ls, bought, amount) ==
    /\ plan.used \in [DOMAIN ls -> Nat]
    /\ \A l \in DOMAIN ls : plan.used[l] <= ls[l].remaining
    /\ plan.purchased \in 0 .. bought
    /\ SumFunction(plan.used) \in Nat
    /\ plan.shortfall \in Nat
    /\ SumFunction(plan.used) + plan.purchased + plan.shortfall = amount
    /\ plan.purchased > 0 => \A l \in DOMAIN ls : plan.used[l] = ls[l].remaining
    /\ \A l, m \in DOMAIN ls :
         Sooner(ls, l, m) /\ plan.used[m] > 0 => plan.used[l] = ls[l].remaining

\* The plan consumeCredits makes is one.
LEMMA PlanAddsUp ==
    ASSUME NEW ls, Lots(ls), NEW bought, bought \in Nat, NEW amount, amount \in Nat
    PROVE  PlanSound(ConsumeCredits(ls, bought, amount), ls, bought, amount)
  <1> DEFINE D == DOMAIN ls
             R == Remaining(ls)
             U == Taken(ls, amount)
             plan == ConsumeCredits(ls, bought, amount)
  <1>0. plan = [used |-> U, purchased |-> Lesser(bought, amount - SumFunction(U)),
                shortfall |-> amount - SumFunction(U) - Lesser(bought, amount - SumFunction(U))]
    BY DEF ConsumeCredits, Taken
  <1>1. /\ Numbers(R, D) /\ Numbers(U, D) /\ DOMAIN U = D
        /\ \A l \in D : /\ U[l] \in Nat /\ U[l] <= ls[l].remaining
                        /\ R[l] = ls[l].remaining /\ R[l] \in Nat
    BY TakenNumbers DEF Taken, Remaining, Lots, Lot
  <1>2. SumFunction(U) = Lesser(amount, SumFunctionOnSet(R, D)) /\ SumFunctionOnSet(R, D) \in Nat
    <2>1. SumFunctionOnSet(U, D) = Lesser(amount, SumFunctionOnSet(R, D))
      BY TakenSoFar
    <2>2. SumFunctionOnSet(R, D) \in Int /\ 0 <= SumFunctionOnSet(R, D)
      <3>1. \A x \in D : R[x] >= 0
        BY <1>1
      <3> HIDE DEF R, D
      <3> QED BY <1>1, <3>1, SumNumber, SumGrows
    <2> QED BY <1>1, <2>1, <2>2 DEF SumFunction
  <1>3. SumFunction(U) \in Nat /\ SumFunction(U) <= amount
    BY <1>2 DEF Lesser
  <1>4. ASSUME NEW l \in D, U[l] # ls[l].remaining
        PROVE  /\ SumFunction(U) = amount
               /\ \A m \in D : Sooner(ls, l, m) => U[m] = 0
    <2> DEFINE B(m) == {n \in D : Sooner(ls, n, m)}
    <2>1. NeedAt(ls, amount, l) = amount - SumFunctionOnSet(R, B(l)) /\ NeedAt(ls, amount, l) < R[l]
          /\ SumFunctionOnSet(R, B(l)) \in Int
      <3>1. NeedAt(ls, amount, l) \in Int
        BY TakenNumbers
      <3>2. NeedAt(ls, amount, l) < R[l]
        <4>1. U[l] = IF NeedAt(ls, amount, l) > 0 THEN Lesser(R[l], NeedAt(ls, amount, l)) ELSE 0
          BY <1>1 DEF Taken
        <4>2. U[l] # R[l] /\ R[l] \in Nat
          BY <1>1, <1>4
        <4> HIDE DEF U, R
        <4> QED BY <3>1, <4>1, <4>2 DEF Lesser
      <3>3. Numbers(R, B(l))
        BY <1>1, FS_Subset DEF Numbers
      <3>4. SumFunctionOnSet(R, B(l)) \in Int
        BY <3>3, SumNumber
      <3> QED BY <3>2, <3>4 DEF NeedAt
    <2>2. ASSUME NEW T \in SUBSET D, B(l) \cup {l} \subseteq T
          PROVE  SumFunctionOnSet(R, T) \in Int /\ SumFunctionOnSet(R, T) > amount
      <3>1. Numbers(R, T)
        BY <1>1, FS_Subset DEF Numbers
      <3>2. SumFunctionOnSet(R, T) = SumFunctionOnSet(R, T \ {l}) + R[l]
        BY <2>2, <3>1, SumWithout
      <3>3. Numbers(R, T \ {l})
        BY <1>1, FS_Subset DEF Numbers
      <3>4. B(l) \subseteq T \ {l}
        BY <2>2, SoonerOrders
      <3>5. SumFunctionOnSet(R, B(l)) <= SumFunctionOnSet(R, T \ {l})
        <4>1. \A x \in T \ {l} : R[x] >= 0
          BY <1>1
        <4> HIDE DEF R, B, D
        <4> QED BY <3>3, <3>4, <4>1, SumGrows
      <3>6. SumFunctionOnSet(R, T \ {l}) \in Int
        BY <3>3, SumNumber
      <3>7. R[l] \in Nat
        BY <1>1
      <3> HIDE DEF R, B, D
      <3> QED BY <2>1, <3>2, <3>5, <3>6, <3>7
    <2>3. SumFunction(U) = amount
      <3>1. SumFunctionOnSet(R, D) > amount
        BY <2>2
      <3> HIDE DEF R, U, D
      <3> QED BY <1>2, <3>1 DEF Lesser
    <2>4. ASSUME NEW m \in D, Sooner(ls, l, m) PROVE U[m] = 0
      <3>1. B(l) \cup {l} \subseteq B(m) /\ B(m) \in SUBSET D
        BY <2>4, SoonerOrders
      <3>2. SumFunctionOnSet(R, B(m)) \in Int /\ SumFunctionOnSet(R, B(m)) > amount
        BY <2>2, <3>1
      <3>3. NeedAt(ls, amount, m) = amount - SumFunctionOnSet(R, B(m))
        BY DEF NeedAt
      <3>4. ~(NeedAt(ls, amount, m) > 0)
        <4> HIDE DEF R, B
        <4> QED BY <3>2, <3>3
      <3> QED BY <3>4 DEF Taken
    <2> QED BY <2>3, <2>4
  <1> DEFINE total == SumFunction(U)
  <1>5. /\ Lesser(bought, amount - total) \in 0 .. bought
        /\ total \in Nat
        /\ amount - total - Lesser(bought, amount - total) \in Nat
        /\ total + Lesser(bought, amount - total) + (amount - total - Lesser(bought, amount - total)) = amount
        /\ Lesser(bought, amount - total) > 0 => total # amount
    <2> HIDE DEF total
    <2> QED BY <1>3 DEF Lesser, total
  <1>6. U \in [D -> Nat]
    BY TakenNumbers DEF Taken
  <1> HIDE DEF total, U, R, plan
  <1>7. /\ plan.used = U /\ plan.purchased = Lesser(bought, amount - total)
        /\ plan.shortfall = amount - total - Lesser(bought, amount - total)
        /\ SumFunction(plan.used) = total
    BY <1>0 DEF total
  <1>8. plan.purchased > 0 => \A l \in D : U[l] = ls[l].remaining
    BY <1>4, <1>5, <1>7 DEF total
  <1>9. \A l, m \in D : Sooner(ls, l, m) /\ U[m] > 0 => U[l] = ls[l].remaining
    <2> SUFFICES ASSUME NEW l \in D, NEW m \in D, Sooner(ls, l, m), U[m] > 0, U[l] # ls[l].remaining
                 PROVE  FALSE
      OBVIOUS
    <2>1. U[m] = 0
      BY <1>4
    <2> QED BY <2>1
  <1>10. PlanSound(plan, ls, bought, amount)
    BY <1>1, <1>5, <1>6, <1>7, <1>8, <1>9 DEF PlanSound
  <1> QED BY <1>10 DEF plan

----------------------------------------------------------------------------
(* How the credits in the lots move.                                        *)

\* A change of each lot is a change of the whole.
LEMMA LotsMove ==
    ASSUME NEW ls, Lots(ls), NEW new, Lots(new), DOMAIN new = DOMAIN ls, NEW d,
           \A l \in DOMAIN ls : d[l] \in Int /\ new[l].remaining = ls[l].remaining + d[l]
    PROVE  /\ InLots(ls) \in Int /\ InLots(new) \in Int
           /\ InLots(new) = InLots(ls) + SumFunctionOnSet(d, DOMAIN ls)
  <1> DEFINE D == DOMAIN ls
  <1>1. Numbers(Remaining(ls), D) /\ Numbers(d, D) /\ Numbers(Remaining(new), D)
    BY DEF Numbers, Remaining, Lots, Lot
  <1>2. \A x \in D : Remaining(new)[x] = Remaining(ls)[x] + d[x]
    BY DEF Remaining
  <1>3. InLots(ls) = SumFunctionOnSet(Remaining(ls), D) /\ InLots(new) = SumFunctionOnSet(Remaining(new), D)
    BY DEF InLots, SumFunction, Remaining
  <1>4. SumFunctionOnSet(Remaining(new), D) = SumFunctionOnSet(Remaining(ls), D) + SumFunctionOnSet(d, D)
    <2> HIDE DEF D
    <2> QED BY <1>1, <1>2, SumPlus
  <1>5. SumFunctionOnSet(Remaining(ls), D) \in Int /\ SumFunctionOnSet(Remaining(new), D) \in Int
    BY <1>1, SumNumber
  <1> QED BY <1>3, <1>4, <1>5

\* The lots hold no less than any one of them.
LEMMA LotsHold ==
    ASSUME NEW ls, Lots(ls)
    PROVE  InLots(ls) \in Nat /\ \A l \in DOMAIN ls : ls[l].remaining <= InLots(ls)
  <1> DEFINE D == DOMAIN ls
             R == Remaining(ls)
  <1>1. Numbers(R, D) /\ (\A x \in D : R[x] >= 0 /\ R[x] \in Int /\ R[x] = ls[x].remaining) /\ DOMAIN R = D
    BY DEF Numbers, Remaining, Lots, Lot
  <1>2. InLots(ls) = SumFunctionOnSet(R, D)
    BY <1>1 DEF InLots, SumFunction
  <1> HIDE DEF R, D
  <1>3. SumFunctionOnSet(R, D) \in Int /\ 0 <= SumFunctionOnSet(R, D)
    BY <1>1, SumNumber, SumGrows
  <1>4. ASSUME NEW l \in D PROVE R[l] <= SumFunctionOnSet(R, D)
    <2>1. SumFunctionOnSet(R, D) = SumFunctionOnSet(R, D \ {l}) + R[l]
      BY <1>1, SumWithout
    <2>2. 0 <= SumFunctionOnSet(R, D \ {l}) /\ SumFunctionOnSet(R, D \ {l}) \in Int
      <3>1. Numbers(R, D \ {l})
        BY <1>1, FS_Subset DEF Numbers
      <3>2. 0 <= SumFunctionOnSet(R, D \ {l})
        BY <1>1, SumGrows
      <3> QED BY <3>1, <3>2, SumNumber
    <2>3. R[l] \in Int
      BY <1>1
    <2> QED BY <2>1, <2>2, <2>3
  <1> QED BY <1>1, <1>2, <1>3, <1>4 DEF D

\* The ids in use are the first ones.
LotsInTurn(ls) == Lots(ls) /\ DOMAIN ls = 1 .. Cardinality(DOMAIN ls)

\* A new lot is a lot more, untouched, with a new id.
LEMMA LotAdded ==
    ASSUME LotsInTurn(lots), NEW e \in Nat, NEW new, new = AddLot(lots, e)
    PROVE  /\ NextLot \in Nat /\ NextLot \notin DOMAIN lots
           /\ DOMAIN new = DOMAIN lots \cup {NextLot}
           /\ LotsInTurn(new)
           /\ \A l \in DOMAIN lots : new[l] = lots[l]
           /\ new[NextLot] = [exp |-> e, amount |-> Weekly, remaining |-> Weekly]
           /\ InLots(new) = InLots(lots) + Weekly
  <1>1. Cardinality(DOMAIN lots) \in Nat
    BY FS_CardinalityType DEF LotsInTurn, Lots
  <1>2. NextLot \in Nat /\ NextLot \notin DOMAIN lots /\ NextLot = Cardinality(DOMAIN lots) + 1
    BY <1>1 DEF LotsInTurn, NextLot
  <1>3. /\ DOMAIN new = DOMAIN lots \cup {NextLot}
        /\ \A l \in DOMAIN lots : new[l] = lots[l]
        /\ new[NextLot] = [exp |-> e, amount |-> Weekly, remaining |-> Weekly]
        /\ new = [l \in DOMAIN new |-> new[l]]
    BY <1>2 DEF AddLot
  <1>4. Lots(new)
    <2>1. IsFiniteSet(DOMAIN new) /\ DOMAIN new \subseteq Nat
      BY <1>2, <1>3, FS_AddElement DEF LotsInTurn, Lots
    <2>2. \A l \in DOMAIN new : new[l] \in Lot
      BY <1>3, LedgerAssumption DEF LotsInTurn, Lots, Lot
    <2> QED BY <1>3, <2>1, <2>2 DEF Lots
  <1>5. LotsInTurn(new)
    <2>0. IsFiniteSet(DOMAIN lots)
      BY DEF LotsInTurn, Lots
    <2>1. Cardinality(DOMAIN new) = Cardinality(DOMAIN lots) + 1
      BY <1>2, <1>3, <2>0, FS_AddElement
    <2>2. DOMAIN new = 1 .. Cardinality(DOMAIN lots) + 1
      BY <1>1, <1>2, <1>3 DEF LotsInTurn
    <2> QED BY <1>4, <2>1, <2>2 DEF LotsInTurn
  <1>6. InLots(new) = InLots(lots) + Weekly
    <2> DEFINE D == DOMAIN new
               R == Remaining(new)
    <2>0. NextLot \in D /\ D \ {NextLot} = DOMAIN lots
      BY <1>2, <1>3
    <2>1. Numbers(R, D) /\ DOMAIN R = D /\ R[NextLot] = Weekly
      BY <1>3, <1>4, <2>0 DEF Numbers, Remaining, Lots, Lot
    <2>2. InLots(new) = SumFunctionOnSet(R, D)
      BY <2>1 DEF InLots, SumFunction
    <2>3. SumFunctionOnSet(R, D) = SumFunctionOnSet(R, D \ {NextLot}) + R[NextLot]
      <3> HIDE DEF R, D
      <3> QED BY <2>0, <2>1, SumWithout
    <2>4. SumFunctionOnSet(R, DOMAIN lots) = SumFunctionOnSet(Remaining(lots), DOMAIN lots)
      <3>1. Numbers(Remaining(lots), DOMAIN lots)
        BY DEF LotsInTurn, Lots, Lot, Numbers, Remaining
      <3>2. \A l \in DOMAIN lots : R[l] = Remaining(lots)[l]
        BY <1>3 DEF Remaining
      <3> HIDE DEF R
      <3> QED BY <3>1, <3>2, SumSame
    <2>5. InLots(lots) = SumFunctionOnSet(Remaining(lots), DOMAIN lots)
      BY DEF InLots, SumFunction, Remaining
    <2> QED BY <2>0, <2>1, <2>2, <2>3, <2>4, <2>5
  <1> QED BY <1>2, <1>3, <1>5, <1>6

\* Drawing takes from the lots what the plan says.
LEMMA LotsDrawn ==
    ASSUME NEW ls, LotsInTurn(ls), NEW used \in [DOMAIN ls -> Nat],
           \A l \in DOMAIN ls : used[l] <= ls[l].remaining, NEW new, new = DrawLots(ls, used)
    PROVE  /\ LotsInTurn(new) /\ DOMAIN new = DOMAIN ls
           /\ \A l \in DOMAIN ls : new[l].exp = ls[l].exp /\ new[l].amount = ls[l].amount
                                   /\ new[l].remaining = ls[l].remaining - used[l]
           /\ InLots(new) = InLots(ls) - SumFunction(used)
           /\ SumFunction(used) \in Int
  <1>1. /\ DOMAIN new = DOMAIN ls
        /\ \A l \in DOMAIN ls : new[l] = [ls[l] EXCEPT !.remaining = ls[l].remaining - used[l]]
        /\ new = [l \in DOMAIN new |-> new[l]]
    BY DEF DrawLots
  <1>2. \A l \in DOMAIN ls : /\ new[l].exp = ls[l].exp /\ new[l].amount = ls[l].amount
                             /\ new[l].remaining = ls[l].remaining - used[l]
                             /\ new[l] \in Lot
    BY <1>1 DEF LotsInTurn, Lots, Lot
  <1>3. Lots(new) /\ LotsInTurn(new)
    BY <1>1, <1>2 DEF LotsInTurn, Lots
  <1> DEFINE d == [l \in DOMAIN ls |-> 0 - used[l]]
             zero == [l \in DOMAIN ls |-> 0]
  <1>4. Numbers(used, DOMAIN ls) /\ Numbers(d, DOMAIN ls)
    BY DEF Numbers, LotsInTurn, Lots
  <1>5. InLots(new) = InLots(ls) + SumFunctionOnSet(d, DOMAIN ls) /\ InLots(ls) \in Int
    <2>1. ASSUME NEW l \in DOMAIN ls
          PROVE  d[l] \in Int /\ new[l].remaining = ls[l].remaining + d[l]
      <3>1. ls[l].remaining \in Nat /\ used[l] \in Nat
        BY DEF LotsInTurn, Lots, Lot
      <3>2. new[l].remaining = ls[l].remaining - used[l]
        BY <1>2, <3>1
      <3>3. d[l] = 0 - used[l]
        OBVIOUS
      <3> HIDE DEF d
      <3> QED BY <3>1, <3>2, <3>3
    <2> HIDE DEF d
    <2>2. Lots(ls) /\ Lots(new)
      BY <1>3 DEF LotsInTurn
    <2>3. DOMAIN new = DOMAIN ls
      BY <1>1
    <2>4. \A l \in DOMAIN ls : d[l] \in Int /\ new[l].remaining = ls[l].remaining + d[l]
      BY <2>1
    <2> QED BY <2>2, <2>3, <2>4, LotsMove, ZenonT(60)
  <1>6. SumFunctionOnSet(zero, DOMAIN ls) = SumFunctionOnSet(used, DOMAIN ls) + SumFunctionOnSet(d, DOMAIN ls)
    <2>1. \A x \in DOMAIN ls : zero[x] = used[x] + d[x]
      OBVIOUS
    <2> HIDE DEF zero, d
    <2> QED BY <1>4, <2>1, SumPlus
  <1>7. SumFunctionOnSet(zero, DOMAIN ls) = 0
    BY SumZero DEF LotsInTurn, Lots
  <1>8. SumFunctionOnSet(used, DOMAIN ls) \in Int /\ SumFunctionOnSet(d, DOMAIN ls) \in Int
    BY <1>4, SumNumber
  <1>9. SumFunction(used) = SumFunctionOnSet(used, DOMAIN ls)
    BY DEF SumFunction
  <1> HIDE DEF d, zero
  <1>10. InLots(new) = InLots(ls) - SumFunction(used)
    BY <1>5, <1>6, <1>7, <1>8, <1>9
  <1> QED BY <1>1, <1>2, <1>3, <1>8, <1>9, <1>10

\* The lots with what a refund puts into them.
Restored(ls, restore) ==
    [l \in DOMAIN ls |-> IF l \in DOMAIN restore
                         THEN [ls[l] EXCEPT !.remaining = @ + restore[l]] ELSE ls[l]]

\* Giving back fills the lots that are alive, and makes the rest purchased credits.
LEMMA LotsRestored ==
    ASSUME LotsInTurn(lots), now \in Nat, NEW s, s.purchased \in Nat,
           DOMAIN s.granted \subseteq DOMAIN lots, s.granted \in [DOMAIN s.granted -> Nat],
           NEW plan, plan = PlanRefund(s, lots), NEW new, new = Restored(lots, plan.restore)
    PROVE  /\ LotsInTurn(new) /\ DOMAIN new = DOMAIN lots
           /\ \A l \in DOMAIN lots :
                /\ new[l].exp = lots[l].exp /\ new[l].amount = lots[l].amount
                /\ new[l].remaining = IF l \in DOMAIN s.granted /\ Alive(lots, l)
                                      THEN lots[l].remaining + s.granted[l] ELSE lots[l].remaining
           /\ SumFunction(plan.restore) \in Int
           /\ InLots(new) = InLots(lots) + SumFunction(plan.restore)
           /\ plan.toPurchased \in Nat
           /\ SumFunction(plan.restore) + plan.toPurchased = SumFunction(s.granted) + s.purchased
  <1> DEFINE G == DOMAIN s.granted
             A == {l \in G : Alive(lots, l)}
  <1>1. /\ plan = [restore |-> [l \in A |-> s.granted[l]],
                   toPurchased |-> s.purchased + SumFunctionOnSet(s.granted, G \ A)]
    BY DEF PlanRefund
  <1>2. /\ plan.restore = [l \in A |-> s.granted[l]] /\ DOMAIN plan.restore = A
        /\ plan.toPurchased = s.purchased + SumFunctionOnSet(s.granted, G \ A)
    BY <1>1
  <1>3. /\ DOMAIN new = DOMAIN lots /\ new = [l \in DOMAIN new |-> new[l]]
        /\ \A l \in DOMAIN lots :
             new[l] = IF l \in A THEN [lots[l] EXCEPT !.remaining = lots[l].remaining + s.granted[l]]
                      ELSE lots[l]
    BY <1>2 DEF Restored
  <1>4. \A l \in A : s.granted[l] \in Nat
    OBVIOUS
  <1> HIDE DEF A
  <1>5. \A l \in DOMAIN lots :
          /\ new[l].exp = lots[l].exp /\ new[l].amount = lots[l].amount
          /\ new[l].remaining = IF l \in A THEN lots[l].remaining + s.granted[l] ELSE lots[l].remaining
          /\ new[l] \in Lot
    <2> TAKE l \in DOMAIN lots
    <2>1. lots[l] \in Lot
      BY DEF LotsInTurn, Lots
    <2>2. CASE l \in A
      <3>1. new[l] = [lots[l] EXCEPT !.remaining = lots[l].remaining + s.granted[l]]
        BY <1>3, <2>2
      <3>2. s.granted[l] \in Nat
        BY <1>4, <2>2
      <3> QED BY <2>1, <2>2, <3>1, <3>2 DEF Lot
    <2>3. CASE l \notin A
      <3>1. new[l] = lots[l]
        BY <1>3, <2>3
      <3> QED BY <2>1, <2>3, <3>1 DEF Lot
    <2> QED BY <2>2, <2>3
  <1>6. Lots(new) /\ LotsInTurn(new)
    BY <1>3, <1>5 DEF LotsInTurn, Lots
  <1>7. Numbers(s.granted, G) /\ A \subseteq G
    BY FS_Subset DEF Numbers, A, LotsInTurn, Lots
  <1>8. SumFunction(plan.restore) = SumFunctionOnSet(s.granted, A)
    <2>1. Numbers(s.granted, A)
      BY <1>7, FS_Subset DEF Numbers
    <2>2. \A l \in A : plan.restore[l] = s.granted[l]
      BY <1>2
    <2>3. SumFunctionOnSet(plan.restore, A) = SumFunctionOnSet(s.granted, A)
      BY <2>1, <2>2, SumSame
    <2> QED BY <1>2, <2>3 DEF SumFunction
  <1> DEFINE d == [l \in DOMAIN lots |-> IF l \in A THEN s.granted[l] ELSE 0]
  <1>9. SumFunctionOnSet(d, DOMAIN lots) = SumFunctionOnSet(s.granted, A)
    <2>1. Numbers(s.granted, A) /\ IsFiniteSet(DOMAIN lots) /\ A \in SUBSET (DOMAIN lots)
      BY <1>7, FS_Subset DEF Numbers, LotsInTurn, Lots
    <2>2. \A l \in DOMAIN lots : d[l] = IF l \in A THEN s.granted[l] ELSE 0
      OBVIOUS
    <2> HIDE DEF d
    <2> QED BY <2>1, <2>2, SumWithin
  <1>10. InLots(new) = InLots(lots) + SumFunctionOnSet(d, DOMAIN lots)
    <2>1. ASSUME NEW l \in DOMAIN lots
          PROVE  d[l] \in Int /\ new[l].remaining = lots[l].remaining + d[l]
      <3>1. lots[l].remaining \in Nat /\ (l \in A => s.granted[l] \in Nat)
        BY <1>4 DEF LotsInTurn, Lots, Lot
      <3>2. d[l] = IF l \in A THEN s.granted[l] ELSE 0
        OBVIOUS
      <3>3. new[l].remaining = IF l \in A THEN lots[l].remaining + s.granted[l] ELSE lots[l].remaining
        BY <1>5
      <3> HIDE DEF d
      <3> QED BY <3>1, <3>2, <3>3
    <2>2. Lots(lots) /\ Lots(new) /\ DOMAIN new = DOMAIN lots
      BY <1>3, <1>6 DEF LotsInTurn
    <2>3. \A l \in DOMAIN lots : d[l] \in Int /\ new[l].remaining = lots[l].remaining + d[l]
      BY <2>1
    <2> HIDE DEF d
    <2> QED BY <2>2, <2>3, LotsMove
  <1>11. /\ SumFunctionOnSet(s.granted, G) = SumFunctionOnSet(s.granted, A) + SumFunctionOnSet(s.granted, G \ A)
         /\ SumFunctionOnSet(s.granted, A) \in Int /\ SumFunctionOnSet(s.granted, G \ A) \in Int
    <2> HIDE DEF G
    <2> QED BY <1>7, SumParts
  <1>12. 0 <= SumFunctionOnSet(s.granted, G \ A)
    <2>1. \A x \in G : s.granted[x] >= 0
      OBVIOUS
    <2> HIDE DEF G
    <2> QED BY <1>7, <2>1, SumGrows
  <1>13. SumFunction(s.granted) = SumFunctionOnSet(s.granted, G)
    BY DEF SumFunction
  <1>14. \A l \in DOMAIN lots : l \in A <=> l \in G /\ Alive(lots, l)
    BY DEF A
  <1> HIDE DEF d, G
  <1>15. /\ plan.toPurchased \in Nat
         /\ SumFunction(plan.restore) + plan.toPurchased = SumFunction(s.granted) + s.purchased
    BY <1>2, <1>8, <1>11, <1>12, <1>13
  <1>16. InLots(new) = InLots(lots) + SumFunction(plan.restore)
    BY <1>8, <1>9, <1>10
  <1> QED BY <1>3, <1>5, <1>6, <1>8, <1>11, <1>14, <1>15, <1>16 DEF G

\* What is left of a lot that expires leaves the whole.
LEMMA LotEmptied ==
    ASSUME LotsInTurn(lots), NEW l \in DOMAIN lots, NEW new, new = [lots EXCEPT ![l].remaining = 0]
    PROVE  /\ LotsInTurn(new) /\ DOMAIN new = DOMAIN lots
           /\ \A m \in DOMAIN lots :
                /\ new[m].exp = lots[m].exp /\ new[m].amount = lots[m].amount
                /\ new[m].remaining = IF m = l THEN 0 ELSE lots[m].remaining
           /\ InLots(new) = InLots(lots) - lots[l].remaining
  <1>1. /\ DOMAIN new = DOMAIN lots /\ new = [m \in DOMAIN new |-> new[m]]
        /\ \A m \in DOMAIN lots :
             new[m] = IF m = l THEN [lots[m] EXCEPT !.remaining = 0] ELSE lots[m]
    OBVIOUS
  <1>2. \A m \in DOMAIN lots :
          /\ new[m].exp = lots[m].exp /\ new[m].amount = lots[m].amount
          /\ new[m].remaining = IF m = l THEN 0 ELSE lots[m].remaining
          /\ new[m] \in Lot
    BY <1>1 DEF LotsInTurn, Lots, Lot
  <1>3. Lots(new) /\ LotsInTurn(new)
    BY <1>1, <1>2 DEF LotsInTurn, Lots
  <1> DEFINE D == DOMAIN lots
             R == Remaining(lots)
             N == Remaining(new)
  <1>4. /\ Numbers(R, D) /\ Numbers(N, D) /\ InLots(lots) = SumFunctionOnSet(R, D)
        /\ InLots(new) = SumFunctionOnSet(N, D)
        /\ R[l] = lots[l].remaining /\ N[l] = 0 /\ \A m \in D \ {l} : N[m] = R[m]
    <2>1. Numbers(R, D)
      BY DEF LotsInTurn, Lots, Lot, Numbers, Remaining
    <2>2. Numbers(N, D)
      BY <1>1, <1>3 DEF LotsInTurn, Lots, Lot, Numbers, Remaining
    <2>3. InLots(lots) = SumFunctionOnSet(R, D) /\ InLots(new) = SumFunctionOnSet(N, D)
      BY <1>1 DEF InLots, SumFunction, Remaining
    <2>4. R[l] = lots[l].remaining /\ N[l] = 0 /\ \A m \in D \ {l} : N[m] = R[m]
      BY <1>1, <1>2 DEF Remaining
    <2> QED BY <2>1, <2>2, <2>3, <2>4
  <1> HIDE DEF R, N, D
  <1>5. /\ SumFunctionOnSet(R, D) = SumFunctionOnSet(R, D \ {l}) + R[l]
        /\ SumFunctionOnSet(N, D) = SumFunctionOnSet(N, D \ {l}) + N[l]
    BY <1>4, SumWithout DEF D
  <1>6. Numbers(R, D \ {l})
    BY <1>4, FS_Subset DEF Numbers
  <1>7. SumFunctionOnSet(N, D \ {l}) = SumFunctionOnSet(R, D \ {l}) /\ SumFunctionOnSet(R, D \ {l}) \in Int
    BY <1>4, <1>6, SumSame, SumNumber
  <1>8. R[l] \in Int
    BY <1>4 DEF Numbers, D
  <1>9. InLots(new) = InLots(lots) - lots[l].remaining
    BY <1>4, <1>5, <1>7, <1>8
  <1> QED BY <1>1, <1>2, <1>3, <1>9

----------------------------------------------------------------------------
(* The types, and what a booking leaves behind.                             *)

\* The split of a SPEND row: parts of lots there are, and purchased credits.
SplitOK(s, L) ==
    /\ s.purchased \in Nat
    /\ DOMAIN s.granted \subseteq L
    /\ s.granted \in [DOMAIN s.granted -> Nat]

\* Some of the lots, with what remained of them.
TodoOK(f, L) == DOMAIN f \subseteq L /\ \A l \in DOMAIN f : f[l] \in Nat

\* A process does nothing, or holds what it read.
JobOK(j, L) ==
    \/ j = Idle
    \/ \E k \in Keys : j = [op |-> "pgRefund", of |-> k]
    \/ \E e \in Nat : j = [op |-> "grant", of |-> e]
    \/ j.op = "expire" /\ TodoOK(j.todo, L)
    \/ j.op = "expireLot" /\ TodoOK(j.todo, L) /\ j.lot \in DOMAIN j.todo /\ j.granted \in Int

BalancesOK ==
    /\ exists \in BOOLEAN /\ purchased \in Nat /\ granted \in Int /\ now \in Nat
    /\ LotsInTurn(lots)

BookingsOK ==
    /\ open \subseteq Refs /\ IsFiniteSet(open)
    /\ spend = [r \in Refs |-> spend[r]]
    /\ \A r \in Refs : SplitOK(spend[r], DOMAIN lots)

JobsOK ==
    /\ job = [p \in Procs |-> job[p]]
    /\ \A p \in Procs : JobOK(job[p], DOMAIN lots)

\* Without the account there is nothing of it, and no grant on its way.
NothingYet ==
    ~exists => /\ DOMAIN lots = {} /\ granted = 0 /\ open = {}
               /\ \A p \in Procs : job[p].op # "grant"

\* A booking that was paid and not given back holds its price.
PaidInFull ==
    \A r \in open : SumFunction(spend[r].granted) + spend[r].purchased = Price[r]

AccountInv == BalancesOK /\ BookingsOK /\ JobsOK /\ NothingYet /\ PaidInFull

\* A period ends at some time.
LEMMA PeriodIsNat == ASSUME now \in Nat PROVE EndOfPeriod(now) \in Nat
  <1>1. (now \div 4) * 4 + 3 \in Nat /\ (now \div 2) * 2 + 1 \in Nat
    OBVIOUS
  <1> QED BY <1>1 DEF EndOfPeriod

\* The lots consumeWithin finds, and what it takes from them.
Had == IF exists THEN lots ELSE AddLot(lots, EndOfPeriod(now))
Plan(ref) == ConsumeCredits(Had, purchased, Price[ref])

\* consumeWithin starts from the lots there are, or from those and a first one.
LEMMA HadLots ==
    ASSUME BalancesOK
    PROVE  /\ LotsInTurn(Had) /\ DOMAIN lots \subseteq DOMAIN Had
           /\ \A l \in DOMAIN lots : Had[l] = lots[l]
           /\ \A l \in DOMAIN Had \ DOMAIN lots : Had[l].remaining = Had[l].amount
           /\ InLots(Had) = InLots(lots) + (IF exists THEN 0 ELSE Weekly)
           /\ InLots(lots) \in Nat
           /\ exists => Had = lots
  <1>1. InLots(lots) \in Nat /\ Weekly \in Nat
    BY LotsHold, LedgerAssumption DEF BalancesOK, LotsInTurn
  <1>2. CASE exists
    BY <1>1, <1>2 DEF Had, BalancesOK
  <1>3. CASE ~exists
    <2>1. EndOfPeriod(now) \in Nat /\ LotsInTurn(lots)
      BY PeriodIsNat DEF BalancesOK
    <2>2. Had = AddLot(lots, EndOfPeriod(now))
      BY <1>3 DEF Had
    <2>3. /\ DOMAIN Had = DOMAIN lots \cup {NextLot} /\ LotsInTurn(Had)
          /\ \A l \in DOMAIN lots : Had[l] = lots[l]
          /\ Had[NextLot] = [exp |-> EndOfPeriod(now), amount |-> Weekly, remaining |-> Weekly]
          /\ InLots(Had) = InLots(lots) + Weekly
      BY <2>1, <2>2, LotAdded
    <2>4. Had[NextLot].remaining = Had[NextLot].amount
      BY <2>3
    <2> QED BY <1>3, <2>3, <2>4, <1>1
  <1> QED BY <1>2, <1>3

\* What consumeWithin does to the account, in full.
LEMMA Consumed ==
    ASSUME AccountInv, NEW ref \in Refs, Consume(ref),
           NEW used, used = Plan(ref).used, NEW bought, bought = Plan(ref).purchased
    PROVE  /\ used \in [DOMAIN Had -> Nat]
           /\ \A l \in DOMAIN Had : used[l] <= Had[l].remaining
           /\ LotsInTurn(lots') /\ DOMAIN lots' = DOMAIN Had
           /\ \A l \in DOMAIN Had : /\ lots'[l].exp = Had[l].exp /\ lots'[l].amount = Had[l].amount
                                    /\ lots'[l].remaining = Had[l].remaining - used[l]
           /\ InLots(lots') = InLots(Had) - SumFunction(used)
           /\ SumFunction(used) \in Nat /\ bought \in 0 .. purchased
           /\ purchased' = purchased - bought /\ purchased' \in Nat
           /\ SumFunction(used) + bought = Price[ref]
           /\ granted' = (IF exists THEN granted ELSE Weekly) - SumFunction(used)
           /\ bought > 0 => \A l \in DOMAIN Had : used[l] = Had[l].remaining
           /\ \A l, m \in DOMAIN Had :
                Had[l].exp < Had[m].exp /\ used[m] > 0 => used[l] = Had[l].remaining
  <1>0. LotsInTurn(Had) /\ Lots(Had) /\ Price[ref] \in Nat /\ purchased \in Nat
    BY HadLots, LedgerAssumption DEF AccountInv, BalancesOK, LotsInTurn
  <1>1. /\ Plan(ref).shortfall = 0
        /\ lots' = DrawLots(Had, used)
        /\ granted' = (IF exists THEN granted ELSE Weekly) - SumFunction(used)
        /\ purchased' = purchased - bought
    BY DEF Consume, Plan, Had, Affordable
  <1>2. PICK plan : plan = ConsumeCredits(Had, purchased, Price[ref])
    OBVIOUS
  <1>3. plan.used = used /\ plan.purchased = bought /\ plan.shortfall = 0
    BY <1>1, <1>2 DEF Plan
  <1>4. PICK had, before, price : had = Had /\ before = purchased /\ price = Price[ref]
    OBVIOUS
  <1>5. Lots(had) /\ before \in Nat /\ price \in Nat /\ plan = ConsumeCredits(had, before, price)
    BY <1>0, <1>2, <1>4
  <1>6. /\ used \in [DOMAIN had -> Nat]
        /\ \A l \in DOMAIN had : used[l] <= had[l].remaining
        /\ bought \in 0 .. before
        /\ SumFunction(used) \in Nat
        /\ SumFunction(used) + bought + 0 = price
        /\ bought > 0 => \A l \in DOMAIN had : used[l] = had[l].remaining
        /\ \A l, m \in DOMAIN had : Sooner(had, l, m) /\ used[m] > 0 => used[l] = had[l].remaining
    <2>1. PlanSound(ConsumeCredits(had, before, price), had, before, price)
      BY <1>5, PlanAddsUp
    <2>2. PlanSound(plan, had, before, price)
      BY <1>5, <2>1
    <2> QED BY <2>2, <1>3 DEF PlanSound
  <1>7. /\ LotsInTurn(lots') /\ DOMAIN lots' = DOMAIN Had
        /\ \A l \in DOMAIN Had : /\ lots'[l].exp = Had[l].exp /\ lots'[l].amount = Had[l].amount
                                 /\ lots'[l].remaining = Had[l].remaining - used[l]
        /\ InLots(lots') = InLots(Had) - SumFunction(used)
    <2>1. used \in [DOMAIN Had -> Nat] /\ \A l \in DOMAIN Had : used[l] <= Had[l].remaining
      BY <1>4, <1>6
    <2> QED BY <1>0, <1>1, <2>1, LotsDrawn
  <1>8. /\ SumFunction(used) \in Nat /\ bought \in 0 .. purchased /\ purchased' \in Nat
        /\ SumFunction(used) + bought = Price[ref]
    <2> DEFINE sum == SumFunction(used)
    <2>1. sum \in Nat /\ bought \in 0 .. before /\ sum + bought = price
      BY <1>5, <1>6
    <2>2. before - bought \in Nat
      BY <1>5, <2>1
    <2> HIDE DEF sum
    <2> QED BY <1>1, <1>4, <2>1, <2>2 DEF sum
  <1>9. \A l, m \in DOMAIN had : had[l].exp < had[m].exp => Sooner(had, l, m)
    BY DEF Sooner
  <1> QED BY <1>1, <1>4, <1>6, <1>7, <1>8, <1>9

\* The split it leaves in the SPEND row adds up to the price.
LEMMA SplitAddsUp ==
    ASSUME AccountInv, NEW ref \in Refs, Consume(ref),
           NEW used, used = Plan(ref).used, NEW bought, bought = Plan(ref).purchased
    PROVE  /\ spend' = [spend EXCEPT ![ref] = spend'[ref]]
           /\ spend'[ref].granted = [l \in {m \in DOMAIN Had : used[m] > 0} |-> used[l]]
           /\ spend'[ref].purchased = bought
           /\ SplitOK(spend'[ref], DOMAIN Had)
           /\ SumFunction(spend'[ref].granted) + spend'[ref].purchased = Price[ref]
  <1> DEFINE T == {m \in DOMAIN Had : used[m] > 0}
             part == [l \in T |-> used[l]]
  <1>0. used \in [DOMAIN Had -> Nat] /\ bought \in Nat /\ SumFunction(used) + bought = Price[ref]
    <2>1. purchased \in Nat
      BY DEF AccountInv, BalancesOK
    <2> QED BY <2>1, Consumed
  <1>1. spend' = [spend EXCEPT ![ref] = [granted |-> part, purchased |-> bought]]
    BY DEF Consume, Plan, Had
  <1>3. spend'[ref] = [granted |-> part, purchased |-> bought]
    BY <1>1 DEF AccountInv, BookingsOK
  <1>4. SumFunction(part) = SumFunction(used)
    <2>1. IsFiniteSet(DOMAIN Had) /\ DOMAIN used = DOMAIN Had /\ T \in SUBSET (DOMAIN Had) /\ IsFiniteSet(T)
      BY <1>0, HadLots, FS_Subset DEF AccountInv, LotsInTurn, Lots
    <2>2. Numbers(part, T)
      BY <1>0, <2>1 DEF Numbers
    <2>3. \A l \in DOMAIN Had : used[l] = IF l \in T THEN part[l] ELSE 0
      BY <1>0
    <2>4. DOMAIN part = T
      OBVIOUS
    <2> HIDE DEF T, part
    <2>5. SumFunctionOnSet(used, DOMAIN Had) = SumFunctionOnSet(part, T)
      BY <2>1, <2>2, <2>3, SumWithin
    <2> QED BY <2>1, <2>4, <2>5 DEF SumFunction
  <1>5. DOMAIN part \subseteq DOMAIN Had /\ part \in [DOMAIN part -> Nat]
    BY <1>0
  <1>6. spend'[ref].granted = part /\ spend'[ref].purchased = bought
    BY <1>3
  <1> HIDE DEF part
  <1>7. spend' = [spend EXCEPT ![ref] = spend'[ref]]
    BY <1>1, <1>3
  <1>9. SumFunction(spend'[ref].granted) + spend'[ref].purchased = Price[ref]
    BY <1>0, <1>4, <1>6
  <1> QED BY <1>0, <1>5, <1>6, <1>7, <1>9 DEF SplitOK, part


\* More lots do no harm to what refers to them.
LEMMA Wider ==
    ASSUME NEW L, NEW M, L \subseteq M
    PROVE  /\ \A s : SplitOK(s, L) => SplitOK(s, M)
           /\ \A j : JobOK(j, L) => JobOK(j, M)
  <1>1. \A s : SplitOK(s, L) => SplitOK(s, M)
    BY DEF SplitOK
  <1>2. \A f : TodoOK(f, L) => TodoOK(f, M)
    BY DEF TodoOK
  <1>3. \A j : JobOK(j, L) => JobOK(j, M)
    BY <1>2 DEF JobOK
  <1> QED BY <1>1, <1>3

\* One process goes on.
LEMMA OneJob ==
    ASSUME JobsOK, DOMAIN lots \subseteq DOMAIN lots', NEW p \in Procs, NEW work,
           JobOK(work, DOMAIN lots'), job' = [job EXCEPT ![p] = work]
    PROVE  JobsOK' /\ job'[p] = work /\ \A q \in Procs \ {p} : job'[q] = job[q]
  <1>1. job' = [q \in Procs |-> job'[q]] /\ job'[p] = work /\ \A q \in Procs \ {p} : job'[q] = job[q]
    BY DEF JobsOK
  <1>2. ASSUME NEW q \in Procs PROVE JobOK(job'[q], DOMAIN lots')
    <2>1. JobOK(job[q], DOMAIN lots')
      BY Wider DEF JobsOK
    <2> QED BY <1>1, <2>1
  <1> QED BY <1>1, <1>2 DEF JobsOK

\* No process goes on.
LEMMA NoJob ==
    ASSUME JobsOK, DOMAIN lots \subseteq DOMAIN lots', job' = job
    PROVE  JobsOK'
  <1>1. \A p \in Procs : JobOK(job[p], DOMAIN lots')
    BY Wider DEF JobsOK
  <1> QED BY <1>1 DEF JobsOK

\* The bookings do not change.
LEMMA NoBooking ==
    ASSUME BookingsOK, PaidInFull, DOMAIN lots \subseteq DOMAIN lots', UNCHANGED bookings
    PROVE  BookingsOK' /\ PaidInFull'
  <1>1. \A r \in Refs : SplitOK(spend[r], DOMAIN lots')
    BY Wider DEF BookingsOK
  <1> QED BY <1>1 DEF BookingsOK, PaidInFull, bookings

\* A job looks: the account stays.
LEMMA Looks ==
    ASSUME AccountInv, NEW p \in Procs, NEW work, job' = [job EXCEPT ![p] = work],
           JobOK(work, DOMAIN lots), work.op = "grant" => exists,
           UNCHANGED <<exists, granted, lots, bookings, now>>, purchased' \in Nat
    PROVE  AccountInv'
  <1>1. BalancesOK'
    BY DEF AccountInv, BalancesOK
  <1>2. BookingsOK' /\ PaidInFull'
    BY NoBooking DEF AccountInv
  <1>3. JobsOK' /\ job'[p] = work /\ \A q \in Procs \ {p} : job'[q] = job[q]
    BY OneJob DEF AccountInv
  <1>4. NothingYet'
    BY <1>3 DEF AccountInv, NothingYet, bookings
  <1> QED BY <1>1, <1>2, <1>3, <1>4 DEF AccountInv

\* The lots change, the account is there: no booking and perhaps a job goes on.
LEMMA AccountMoves ==
    ASSUME AccountInv, exists' = TRUE, purchased' \in Nat, granted' \in Int, now' \in Nat,
        LotsInTurn(lots'),
           DOMAIN lots \subseteq DOMAIN lots', UNCHANGED bookings, JobsOK'
    PROVE  AccountInv'
  <1>1. BalancesOK'
    BY DEF BalancesOK
  <1>2. BookingsOK' /\ PaidInFull'
    BY NoBooking DEF AccountInv
  <1>4. NothingYet'
    BY DEF NothingYet
  <1> QED BY <1>1, <1>2, <1>4 DEF AccountInv

----------------------------------------------------------------------------
(* The account stays sound.                                                 *)

\* A first lot, by ensureAccountWithin.
LEMMA AccountEnsured == ASSUME AccountInv, EnsureAccount PROVE AccountInv'
  <1>1. LotsInTurn(lots) /\ EndOfPeriod(now) \in Nat /\ now \in Nat
    BY PeriodIsNat DEF AccountInv, BalancesOK
  <1>2. LotsInTurn(lots') /\ DOMAIN lots \subseteq DOMAIN lots'
    BY <1>1, LotAdded DEF EnsureAccount
  <1>3. JobsOK'
    BY <1>2, NoJob DEF AccountInv, EnsureAccount
  <1>4. /\ exists' = TRUE /\ purchased' \in Nat /\ granted' \in Int /\ now' \in Nat
        /\ UNCHANGED bookings
    BY <1>1, LedgerAssumption DEF EnsureAccount
  <1> QED BY <1>2, <1>3, <1>4, AccountMoves

\* A booking pays.
LEMMA AccountConsumed == ASSUME AccountInv, NEW ref \in Refs, Consume(ref) PROVE AccountInv'
  <1>1. PICK used, bought : used = Plan(ref).used /\ bought = Plan(ref).purchased
    OBVIOUS
  <1>2. /\ LotsInTurn(lots') /\ DOMAIN lots' = DOMAIN Had
        /\ SumFunction(used) \in Nat /\ purchased' \in Nat
        /\ granted' = (IF exists THEN granted ELSE Weekly) - SumFunction(used)
    BY <1>1, Consumed
  <1>3. DOMAIN lots \subseteq DOMAIN Had
    BY HadLots DEF AccountInv
  <1>4. /\ spend' = [spend EXCEPT ![ref] = spend'[ref]]
        /\ SplitOK(spend'[ref], DOMAIN Had)
        /\ SumFunction(spend'[ref].granted) + spend'[ref].purchased = Price[ref]
    BY <1>1, SplitAddsUp
  <1>5. /\ exists' = TRUE /\ open' = open \cup {ref} /\ job' = job /\ now' = now
    BY DEF Consume
  <1>6. BalancesOK'
    <2>1. granted' \in Int
      BY <1>2, LedgerAssumption DEF AccountInv, BalancesOK
    <2> QED BY <1>2, <1>5, <2>1 DEF AccountInv, BalancesOK
  <1>7. \A r \in Refs : spend'[r] = IF r = ref THEN spend'[ref] ELSE spend[r]
    BY <1>4 DEF AccountInv, BookingsOK
  <1>8. BookingsOK'
    <2>1. open' \subseteq Refs /\ IsFiniteSet(open')
      BY <1>5, FS_AddElement DEF AccountInv, BookingsOK
    <2>2. spend' = [r \in Refs |-> spend'[r]]
      BY <1>4 DEF AccountInv, BookingsOK
    <2>3. \A r \in Refs : SplitOK(spend'[r], DOMAIN lots')
      BY <1>2, <1>3, <1>4, <1>7, Wider DEF AccountInv, BookingsOK
    <2> QED BY <2>1, <2>2, <2>3 DEF BookingsOK
  <1>9. PaidInFull'
    <2> SUFFICES ASSUME NEW r \in open'
                 PROVE  SumFunction(spend'[r].granted) + spend'[r].purchased = Price[r]
      BY DEF PaidInFull
    <2>1. CASE r = ref
      BY <1>4, <2>1
    <2>2. CASE r # ref
      <3>1. r \in open /\ r \in Refs
        BY <1>5, <2>2 DEF AccountInv, BookingsOK
      <3> QED BY <1>7, <2>2, <3>1 DEF AccountInv, PaidInFull
    <2> QED BY <2>1, <2>2
  <1>10. JobsOK'
    BY <1>2, <1>3, <1>5, NoJob DEF AccountInv
  <1>11. NothingYet'
    BY <1>5 DEF NothingYet
  <1> QED BY <1>6, <1>8, <1>9, <1>10, <1>11 DEF AccountInv

\* What refundWithin does to the account, in full.
LEMMA Refunded ==
    ASSUME AccountInv, NEW ref \in Refs, Refund(ref),
           NEW back, back = SumFunction(PlanRefund(spend[ref], lots).restore),
           NEW fresh, fresh = PlanRefund(spend[ref], lots).toPurchased
    PROVE  /\ LotsInTurn(lots') /\ DOMAIN lots' = DOMAIN lots
           /\ \A l \in DOMAIN lots :
                /\ lots'[l].exp = lots[l].exp /\ lots'[l].amount = lots[l].amount
                /\ lots'[l].remaining = IF l \in DOMAIN spend[ref].granted /\ Alive(lots, l)
                                        THEN lots[l].remaining + spend[ref].granted[l]
                                        ELSE lots[l].remaining
           /\ back \in Int /\ fresh \in Nat /\ back + fresh = Price[ref]
           /\ InLots(lots') = InLots(lots) + back
           /\ granted' = granted + back /\ purchased' = purchased + fresh
  <1>1. /\ LotsInTurn(lots) /\ now \in Nat /\ ref \in open /\ SplitOK(spend[ref], DOMAIN lots)
        /\ SumFunction(spend[ref].granted) + spend[ref].purchased = Price[ref]
    BY DEF AccountInv, BalancesOK, BookingsOK, PaidInFull, Refund
  <1>2. PICK s, plan : s = spend[ref] /\ plan = PlanRefund(spend[ref], lots)
    OBVIOUS
  <1>3. /\ s.purchased \in Nat /\ DOMAIN s.granted \subseteq DOMAIN lots
        /\ s.granted \in [DOMAIN s.granted -> Nat] /\ plan = PlanRefund(s, lots)
    BY <1>1, <1>2 DEF SplitOK
  <1>4. lots' = Restored(lots, plan.restore)
    BY <1>2 DEF Refund, Restored
  <1>5. /\ LotsInTurn(lots') /\ DOMAIN lots' = DOMAIN lots
        /\ \A l \in DOMAIN lots :
             /\ lots'[l].exp = lots[l].exp /\ lots'[l].amount = lots[l].amount
             /\ lots'[l].remaining = IF l \in DOMAIN s.granted /\ Alive(lots, l)
                                     THEN lots[l].remaining + s.granted[l] ELSE lots[l].remaining
        /\ SumFunction(plan.restore) \in Int
        /\ InLots(lots') = InLots(lots) + SumFunction(plan.restore)
        /\ plan.toPurchased \in Nat
        /\ SumFunction(plan.restore) + plan.toPurchased = SumFunction(s.granted) + s.purchased
    BY <1>1, <1>3, <1>4, LotsRestored
  <1>6. granted' = granted + back /\ purchased' = purchased + fresh
    BY DEF Refund
  <1>7. back = SumFunction(plan.restore) /\ fresh = plan.toPurchased
    BY <1>2
  <1> QED BY <1>1, <1>2, <1>5, <1>6, <1>7

\* A booking gets its credits back.
LEMMA AccountRefunded == ASSUME AccountInv, NEW ref \in Refs, Refund(ref) PROVE AccountInv'
  <1>1. PICK back, fresh : /\ back = SumFunction(PlanRefund(spend[ref], lots).restore)
                           /\ fresh = PlanRefund(spend[ref], lots).toPurchased
    OBVIOUS
  <1>2. /\ LotsInTurn(lots') /\ DOMAIN lots' = DOMAIN lots
        /\ back \in Int /\ fresh \in Nat
        /\ granted' = granted + back /\ purchased' = purchased + fresh
    BY <1>1, Refunded
  <1>3. /\ exists' = exists /\ spend' = spend /\ open' = open \ {ref} /\ job' = job /\ now' = now
        /\ ref \in open
    BY DEF Refund
  <1>4. BalancesOK'
    BY <1>2, <1>3 DEF AccountInv, BalancesOK
  <1>5. BookingsOK'
    <2>1. open' \subseteq Refs /\ IsFiniteSet(open')
      BY <1>3, FS_Subset DEF AccountInv, BookingsOK
    <2> QED BY <1>2, <1>3, <2>1 DEF AccountInv, BookingsOK
  <1>6. PaidInFull'
    BY <1>3 DEF AccountInv, PaidInFull
  <1>7. JobsOK'
    BY <1>2, <1>3, NoJob DEF AccountInv
  <1>8. NothingYet'
    BY <1>3 DEF AccountInv, NothingYet
  <1> QED BY <1>4, <1>5, <1>6, <1>7, <1>8 DEF AccountInv

\* A grant job writes.
LEMMA AccountGranted == ASSUME AccountInv, NEW p \in Procs, GrantCommit(p) PROVE AccountInv'
  <1>1. job[p].op = "grant" /\ exists /\ job[p].of \in Nat /\ LotsInTurn(lots) /\ now \in Nat
    BY DEF AccountInv, BalancesOK, NothingYet, JobsOK, JobOK, Idle, GrantCommit
  <1>2. LotsInTurn(lots') /\ DOMAIN lots \subseteq DOMAIN lots'
    BY <1>1, LotAdded, ZenonT(60) DEF GrantCommit
  <1>3. JobsOK'
    <2>1. job' = [job EXCEPT ![p] = Idle] /\ JobOK(Idle, DOMAIN lots')
      BY DEF GrantCommit, JobOK
    <2> QED BY <1>2, <2>1, OneJob DEF AccountInv
  <1>4. /\ exists' = TRUE /\ purchased' \in Nat /\ granted' \in Int /\ now' \in Nat
        /\ UNCHANGED bookings
    BY <1>1, LedgerAssumption DEF GrantCommit, AccountInv, BalancesOK
  <1> QED BY <1>2, <1>3, <1>4, AccountMoves

\* What an expiry writes.
LEMMA Expired ==
    ASSUME AccountInv, NEW p \in Procs, ExpireCommit(p), NEW l, l = job[p].lot
    PROVE  /\ l \in DOMAIN lots /\ exists = TRUE /\ job[p].op = "expireLot"
           /\ job[p].todo[l] \in Nat /\ job[p].granted \in Int
           /\ LotsInTurn(lots') /\ DOMAIN lots' = DOMAIN lots
           /\ \A m \in DOMAIN lots :
                /\ lots'[m].exp = lots[m].exp /\ lots'[m].amount = lots[m].amount
                /\ lots'[m].remaining = IF m = l THEN 0 ELSE lots[m].remaining
           /\ InLots(lots') = InLots(lots) - lots[l].remaining
           /\ granted' = IF job[p].granted - job[p].todo[l] < 0 THEN 0
                         ELSE job[p].granted - job[p].todo[l]
  <1>1. job[p].op = "expireLot" /\ lots' = [lots EXCEPT ![l].remaining = 0]
    BY DEF ExpireCommit
  <1>2. TodoOK(job[p].todo, DOMAIN lots) /\ l \in DOMAIN job[p].todo /\ job[p].granted \in Int
    BY <1>1 DEF AccountInv, JobsOK, JobOK, Idle
  <1>3. l \in DOMAIN lots /\ job[p].todo[l] \in Nat /\ LotsInTurn(lots)
    BY <1>2 DEF TodoOK, AccountInv, BalancesOK
  <1>4. exists = TRUE
    BY <1>3 DEF AccountInv, BalancesOK, NothingYet
  <1>5. /\ LotsInTurn(lots') /\ DOMAIN lots' = DOMAIN lots
        /\ \A m \in DOMAIN lots :
             /\ lots'[m].exp = lots[m].exp /\ lots'[m].amount = lots[m].amount
             /\ lots'[m].remaining = IF m = l THEN 0 ELSE lots[m].remaining
        /\ InLots(lots') = InLots(lots) - lots[l].remaining
    BY <1>1, <1>3, LotEmptied, ZenonT(60)
  <1>6. granted' = IF job[p].granted - job[p].todo[l] < 0 THEN 0
                   ELSE job[p].granted - job[p].todo[l]
    BY DEF ExpireCommit
  <1> QED BY <1>1, <1>2, <1>3, <1>4, <1>5, <1>6

\* An expiry job writes.
LEMMA AccountExpired == ASSUME AccountInv, NEW p \in Procs, ExpireCommit(p) PROVE AccountInv'
  <1>1. PICK l : l = job[p].lot
    OBVIOUS
  <1>2. /\ job[p].op = "expireLot" /\ exists = TRUE
        /\ job[p].todo[l] \in Nat /\ job[p].granted \in Int
        /\ LotsInTurn(lots') /\ DOMAIN lots' = DOMAIN lots
        /\ granted' = IF job[p].granted - job[p].todo[l] < 0 THEN 0
                      ELSE job[p].granted - job[p].todo[l]
    BY <1>1, Expired
  <1>3. TodoOK(job[p].todo, DOMAIN lots)
    BY <1>2 DEF AccountInv, JobsOK, JobOK, Idle
  <1>4. PICK left : left = DOMAIN job[p].todo \ {l}
    OBVIOUS
  <1>5. PICK work : work = IF left = {} THEN Idle
                           ELSE [op |-> "expire", todo |-> [m \in left |-> job[p].todo[m]]]
    OBVIOUS
  <1>6. job' = [job EXCEPT ![p] = work]
    BY <1>1, <1>4, <1>5 DEF ExpireCommit
  <1>7. JobOK(work, DOMAIN lots')
    <2>1. CASE left = {}
      BY <1>5, <2>1 DEF JobOK
    <2>2. CASE left # {}
      <3>1. work.op = "expire" /\ work.todo = [m \in left |-> job[p].todo[m]]
        BY <1>5, <2>2
      <3>2. TodoOK(work.todo, DOMAIN lots)
        BY <1>3, <1>4, <3>1 DEF TodoOK
      <3> QED BY <1>2, <3>1, <3>2 DEF JobOK
    <2> QED BY <2>1, <2>2
  <1>8. JobsOK'
    BY <1>2, <1>6, <1>7, OneJob DEF AccountInv
  <1>9. /\ exists' = TRUE /\ purchased' \in Nat /\ now' \in Nat /\ UNCHANGED bookings
    BY <1>2 DEF ExpireCommit, AccountInv, BalancesOK
  <1>10. granted' \in Int
    BY <1>2
  <1> QED BY <1>2, <1>8, <1>9, <1>10, AccountMoves


\* Nothing a step does breaks the account.
LEMMA AccountStep == ASSUME AccountInv, [Next]_vars PROVE AccountInv'
  <1>0. /\ LotsInTurn(lots) /\ purchased \in Nat /\ granted \in Int /\ now \in Nat
        /\ exists \in BOOLEAN /\ JobsOK
    BY DEF AccountInv, BalancesOK
  <1>1. CASE EnsureAccount
    BY <1>1, AccountEnsured
  <1>2. ASSUME NEW ref \in Refs, Consume(ref) \/ Refund(ref) PROVE AccountInv'
    BY <1>2, AccountConsumed, AccountRefunded
  <1>3. CASE Charge
    <2>1. /\ exists' = TRUE /\ purchased' \in Nat /\ granted' \in Int /\ now' \in Nat
          /\ LotsInTurn(lots') /\ lots' = lots /\ UNCHANGED bookings /\ job' = job
      BY <1>0, <1>3, LedgerAssumption DEF Charge
    <2>2. JobsOK'
      BY <1>0, <2>1, NoJob
    <2> QED BY <2>1, <2>2, AccountMoves
  <1>4. ASSUME NEW key \in Keys, PgCharge(key) PROVE AccountInv'
    <2>1. /\ exists' = TRUE /\ purchased' \in Nat /\ granted' \in Int /\ now' \in Nat
          /\ LotsInTurn(lots') /\ lots' = lots /\ UNCHANGED bookings /\ job' = job
      BY <1>0, <1>4, LedgerAssumption DEF PgCharge
    <2>2. JobsOK'
      BY <1>0, <2>1, NoJob
    <2> QED BY <2>1, <2>2, AccountMoves
  <1>5. ASSUME NEW p \in Procs, NEW key \in Keys, PgRefundRead(p, key) PROVE AccountInv'
    <2>1. PICK work : work = [op |-> "pgRefund", of |-> key]
      OBVIOUS
    <2>2. JobOK(work, DOMAIN lots) /\ work.op # "grant"
      BY <2>1 DEF JobOK
    <2>3. job' = [job EXCEPT ![p] = work]
      BY <1>5, <2>1 DEF PgRefundRead, Begin
    <2>4. UNCHANGED <<exists, granted, lots, bookings, now>> /\ purchased' \in Nat
      BY <1>0, <1>5 DEF PgRefundRead, balances
    <2> QED BY <2>2, <2>3, <2>4, Looks
  <1>6. ASSUME NEW p \in Procs, PgRefundCommit(p) PROVE AccountInv'
    <2>1. JobOK(Idle, DOMAIN lots) /\ Idle.op # "grant"
      BY DEF JobOK, Idle
    <2>2. job' = [job EXCEPT ![p] = Idle] /\ UNCHANGED <<exists, granted, lots, bookings, now>>
      BY <1>6 DEF PgRefundCommit
    <2>3. purchased' \in Nat
      <3>1. purchased' = purchased - Lesser(PayAmount, purchased)
        BY <1>6 DEF PgRefundCommit
      <3> QED BY <1>0, <3>1, LedgerAssumption DEF Lesser
    <2> QED BY <2>1, <2>2, <2>3, Looks
  <1>7. ASSUME NEW p \in Procs, GrantRead(p) PROVE AccountInv'
    <2>1. PICK work : work = [op |-> "grant", of |-> EndOfPeriod(now)]
      OBVIOUS
    <2>2. JobOK(work, DOMAIN lots) /\ exists
      BY <1>0, <1>7, <2>1, PeriodIsNat DEF JobOK, GrantRead
    <2>3. job' = [job EXCEPT ![p] = work]
      BY <1>7, <2>1 DEF GrantRead, Begin
    <2>4. UNCHANGED <<exists, granted, lots, bookings, now>> /\ purchased' \in Nat
      BY <1>0, <1>7 DEF GrantRead, balances
    <2> QED BY <2>2, <2>3, <2>4, Looks
  <1>8. ASSUME NEW p \in Procs, GrantCommit(p) PROVE AccountInv'
    BY <1>8, AccountGranted
  <1>9. ASSUME NEW p \in Procs, ExpireList(p) PROVE AccountInv'
    <2>1. PICK work : work = [op |-> "expire", todo |-> [l \in Due(lots) |-> lots[l].remaining]]
      OBVIOUS
    <2>2. JobOK(work, DOMAIN lots) /\ work.op # "grant"
      <3>1. TodoOK(work.todo, DOMAIN lots)
        BY <1>0, <2>1 DEF TodoOK, Due, LotsInTurn, Lots, Lot
      <3> QED BY <2>1, <3>1 DEF JobOK
    <2>3. job' = [job EXCEPT ![p] = work]
      BY <1>9, <2>1 DEF ExpireList
    <2>4. UNCHANGED <<exists, granted, lots, bookings, now>> /\ purchased' \in Nat
      BY <1>0, <1>9 DEF ExpireList, balances
    <2> QED BY <2>2, <2>3, <2>4, Looks
  <1>10. ASSUME NEW p \in Procs, ExpireRead(p) PROVE AccountInv'
    <2>1. PICK l \in DOMAIN job[p].todo :
            job' = [job EXCEPT ![p] = [op |-> "expireLot", todo |-> job[p].todo, lot |-> l,
                                       granted |-> granted]]
      BY <1>10 DEF ExpireRead
    <2>2. PICK work : work = [op |-> "expireLot", todo |-> job[p].todo, lot |-> l, granted |-> granted]
      OBVIOUS
    <2>3. JobOK(work, DOMAIN lots) /\ work.op # "grant"
      <3>1. TodoOK(job[p].todo, DOMAIN lots)
        BY <1>0, <1>10 DEF ExpireRead, JobsOK, JobOK, Idle
      <3> QED BY <1>0, <2>1, <2>2, <3>1 DEF JobOK
    <2>4. job' = [job EXCEPT ![p] = work]
      BY <2>1, <2>2
    <2>5. UNCHANGED <<exists, granted, lots, bookings, now>> /\ purchased' \in Nat
      BY <1>0, <1>10 DEF ExpireRead, balances
    <2> QED BY <2>3, <2>4, <2>5, Looks
  <1>11. ASSUME NEW p \in Procs, ExpireCommit(p) PROVE AccountInv'
    BY <1>11, AccountExpired
  <1>12. ASSUME NEW p \in Procs, Abort(p) PROVE AccountInv'
    <2>1. JobOK(Idle, DOMAIN lots) /\ Idle.op # "grant"
      BY DEF JobOK, Idle
    <2>2. /\ job' = [job EXCEPT ![p] = Idle] /\ UNCHANGED <<exists, granted, lots, bookings, now>>
          /\ purchased' \in Nat
      BY <1>0, <1>12 DEF Abort, balances
    <2> QED BY <2>1, <2>2, Looks
  <1>13. CASE Tick
    <2>1. /\ now' \in Nat /\ UNCHANGED <<balances, bookings, job>>
      BY <1>0, <1>13 DEF Tick
    <2> QED BY <2>1 DEF AccountInv, BalancesOK, BookingsOK, JobsOK, NothingYet, PaidInFull,
        balances, bookings
  <1>14. CASE UNCHANGED vars
    BY <1>14 DEF vars, AccountInv, BalancesOK, BookingsOK, JobsOK, NothingYet, PaidInFull,
        balances, bookings
  <1> QED BY <1>1, <1>2, <1>3, <1>4, <1>5, <1>6, <1>7, <1>8, <1>9, <1>10, <1>11, <1>12, <1>13,
      <1>14 DEF Next

\* There is nothing at first.
LEMMA AccountInit == Init => AccountInv
  <1> SUFFICES ASSUME Init PROVE AccountInv
    OBVIOUS
  <1>1. LotsInTurn(lots) /\ DOMAIN lots = {}
    <2>1. DOMAIN lots = {} /\ lots = [l \in {} |-> lots[l]]
      BY DEF Init
    <2>2. IsFiniteSet({}) /\ Cardinality({}) = 0
      BY FS_EmptySet
    <2> QED BY <2>1, <2>2 DEF LotsInTurn, Lots
  <1>2. BalancesOK
    <2>1. exists \in BOOLEAN
      BY DEF Init
    <2>2. purchased \in Nat /\ granted \in Int /\ now \in Nat
      BY DEF Init
    <2> QED BY <1>1, <2>1, <2>2 DEF BalancesOK
  <1>3. BookingsOK
    <2>1. \A r \in Refs : SplitOK(spend[r], DOMAIN lots)
      <3>1. NoSplit.granted = <<>> /\ NoSplit.purchased = 0
        BY DEF NoSplit
      <3>2. DOMAIN NoSplit.granted = {} /\ NoSplit.granted \in [{} -> Nat]
        BY <3>1
      <3>3. SplitOK(NoSplit, DOMAIN lots)
        BY <1>1, <3>1, <3>2 DEF SplitOK
      <3> QED BY <3>3 DEF Init
    <2> QED BY <2>1, FS_EmptySet DEF Init, BookingsOK
  <1>4. JobsOK /\ NothingYet /\ PaidInFull
    BY <1>1 DEF Init, JobsOK, JobOK, NothingYet, PaidInFull, Idle
  <1> QED BY <1>2, <1>3, <1>4 DEF AccountInv

\* The account is sound: balances are numbers, what the SPEND rows and the jobs refer to
\* is there, and every booking not given back holds its price (consumeWithin, refundWithin).
THEOREM AccountIsSound == Spec => []AccountInv
  <1>1. Init => AccountInv
    BY AccountInit
  <1>2. AccountInv /\ [Next]_vars => AccountInv'
    BY AccountStep
  <1> QED BY <1>1, <1>2, PTL DEF Spec

----------------------------------------------------------------------------
(* What the rows say, and in which order the lots are spent.                *)

\* A step that writes no row writes none.
LEMMA NoRow == ASSUME txn' = txn, NEW types PROVE ~NewRow(types)
  BY DEF NewRow

\* The row a step writes.
LEMMA RowWritten == ASSUME NEW t, NEW a, Record(t, a)
                    PROVE  txn'.type = t /\ txn'.amount = a
  BY DEF Record

\* Sums of the balances.
LEMMA Moves ==
    ASSUME NEW a, NEW b, NEW d, a \in Int, b \in Int, d \in Int, b = a + d
    PROVE  b - a = d
  OBVIOUS

\* The row of a booking that pays or gets its credits back, of a charge and of a grant
\* tells the change of what the student can spend.
LEMMA RowOfStep ==
    ASSUME AccountInv, [Next]_vars, exists,
           \/ NewRow({"SPEND", "CHARGE", "WEEKLY_GRANT"})
           \/ NewRow({"REFUND"}) /\ open' # open
    PROVE  Spendable' - Spendable = txn'.amount
  <1>0. /\ LotsInTurn(lots) /\ purchased \in Nat /\ now \in Nat /\ InLots(lots) \in Nat
    BY LotsHold DEF AccountInv, BalancesOK, LotsInTurn
  <1> DEFINE Goal == Spendable' - Spendable = txn'.amount
  <1> SUFFICES Goal
    OBVIOUS
  <1>1. ASSUME NEW d \in Int, purchased' \in Int, InLots(lots') \in Int, txn'.amount = d,
               purchased' + InLots(lots') = purchased + InLots(lots) + d
        PROVE  Goal
    <2>1. Spendable' = purchased' + InLots(lots') /\ Spendable = purchased + InLots(lots)
      BY DEF Spendable
    <2>2. Spendable' \in Int /\ Spendable \in Int /\ Spendable' = Spendable + d
      BY <1>0, <1>1, <2>1
    <2>3. Spendable' - Spendable = d
      BY <2>2, Moves
    <2> QED BY <1>1, <2>3
  <1> HIDE DEF Goal
  <1>2. CASE EnsureAccount
    BY <1>2 DEF EnsureAccount
  <1>3. ASSUME NEW ref \in Refs, Consume(ref) PROVE Goal
    <2>1. PICK used, bought : used = Plan(ref).used /\ bought = Plan(ref).purchased
      OBVIOUS
    <2>2. /\ InLots(lots') = InLots(Had) - SumFunction(used)
          /\ SumFunction(used) \in Nat /\ bought \in 0 .. purchased
          /\ purchased' = purchased - bought /\ purchased' \in Nat
          /\ SumFunction(used) + bought = Price[ref]
      BY <1>3, <2>1, Consumed
    <2>3. Had = lots
      BY HadLots DEF AccountInv
    <2>4. txn'.amount = -Price[ref] /\ Price[ref] \in Nat
      BY <1>3, RowWritten, LedgerAssumption DEF Consume
    <2>5. PICK taken : taken = SumFunction(used)
      OBVIOUS
    <2>6. /\ InLots(lots') = InLots(lots) - taken /\ taken \in Nat /\ bought \in Nat
          /\ taken + bought = Price[ref]
      BY <1>0, <2>2, <2>3, <2>5
    <2>7. InLots(lots') \in Int /\ purchased' + InLots(lots') = purchased + InLots(lots) + (-Price[ref])
      BY <1>0, <2>2, <2>4, <2>6
    <2>8. -Price[ref] \in Int
      BY <2>4
    <2> QED BY <1>1, <2>2, <2>4, <2>7, <2>8
  <1>4. ASSUME NEW ref \in Refs, Refund(ref) PROVE Goal
    <2>1. PICK back, fresh : /\ back = SumFunction(PlanRefund(spend[ref], lots).restore)
                             /\ fresh = PlanRefund(spend[ref], lots).toPurchased
      OBVIOUS
    <2>2. /\ back \in Int /\ fresh \in Nat /\ back + fresh = Price[ref]
          /\ InLots(lots') = InLots(lots) + back /\ purchased' = purchased + fresh
      BY <1>4, <2>1, Refunded
    <2>3. txn'.amount = Price[ref] /\ Price[ref] \in Nat
      <3>1. ref \in Refs /\ Record("REFUND", Price[ref])
        BY <1>4 DEF Refund
      <3> QED BY <3>1, RowWritten, LedgerAssumption
    <2>4. /\ purchased' \in Int /\ InLots(lots') \in Int
          /\ purchased' + InLots(lots') = purchased + InLots(lots) + Price[ref]
      BY <1>0, <2>2, <2>3
    <2> QED BY <1>1, <2>3, <2>4
  <1>5. ASSUME Charge \/ \E key \in Keys : PgCharge(key) PROVE Goal
    <2>1. /\ purchased' = purchased + PayAmount /\ lots' = lots /\ Record("CHARGE", PayAmount)
      BY <1>5 DEF Charge, PgCharge
    <2>2. PayAmount \in Nat
      BY LedgerAssumption
    <2>3. /\ txn'.amount = PayAmount /\ InLots(lots') = InLots(lots)
      BY <2>1, RowWritten
    <2>4. /\ purchased' \in Int /\ InLots(lots') \in Int
          /\ purchased' + InLots(lots') = purchased + InLots(lots) + PayAmount
      BY <1>0, <2>1, <2>2, <2>3
    <2> QED BY <1>1, <2>2, <2>3, <2>4
  <1>6. ASSUME NEW p \in Procs, PgRefundCommit(p) PROVE Goal
    <2>1. open' = open /\ txn'.type = "REFUND"
      <3>1. txn'.type = "REFUND"
        BY <1>6 DEF PgRefundCommit, Record
      <3> QED BY <1>6, <3>1 DEF PgRefundCommit, bookings
    <2> QED BY <2>1 DEF NewRow
  <1>7. ASSUME NEW p \in Procs, GrantCommit(p) PROVE Goal
    <2>1. job[p].of \in Nat /\ lots' = AddLot(lots, job[p].of)
      BY <1>7 DEF AccountInv, JobsOK, JobOK, Idle, GrantCommit
    <2>2. InLots(lots') = InLots(lots) + Weekly
      BY <1>0, <2>1, LotAdded
    <2>3. purchased' = purchased /\ txn'.amount = Weekly /\ Weekly \in Nat
      BY <1>7, RowWritten, LedgerAssumption DEF GrantCommit
    <2>4. /\ purchased' \in Int /\ InLots(lots') \in Int
          /\ purchased' + InLots(lots') = purchased + InLots(lots) + Weekly
      BY <1>0, <2>2, <2>3
    <2> QED BY <1>1, <2>3, <2>4
  <1>8. ASSUME NEW p \in Procs, ExpireCommit(p) PROVE Goal
    <2>1. txn'.type = "WEEKLY_EXPIRE"
      BY <1>8 DEF ExpireCommit, Record
    <2> QED BY <2>1 DEF NewRow
  <1>9. ASSUME txn' = txn PROVE Goal
    BY <1>9, NoRow
  <1>10. CASE Tick
    BY <1>9, <1>10 DEF Tick
  <1>11. ASSUME NEW p \in Procs, NEW key \in Keys, PgRefundRead(p, key) PROVE Goal
    BY <1>9, <1>11 DEF PgRefundRead
  <1>12. ASSUME NEW p \in Procs, GrantRead(p) \/ ExpireList(p) \/ ExpireRead(p) \/ Abort(p)
         PROVE  Goal
    BY <1>9, <1>12 DEF GrantRead, ExpireList, ExpireRead, Abort
  <1>13. CASE UNCHANGED vars
    <2>1. txn' = txn
      BY <1>13 DEF vars
    <2> QED BY <1>9, <2>1
  <1>14. CASE Next
    BY <1>2, <1>3, <1>4, <1>5, <1>6, <1>7, <1>8, <1>10, <1>11, <1>12, <1>14 DEF Next
  <1> QED BY <1>13, <1>14

\* A row of a booking, a charge or a grant records exactly what changed of what the
\* student can spend (consumeWithin, refundWithin, chargeWithin, applyPgCharge, runGrant).
THEOREM RowsTellTheChange == Spec => RowsMoveCredits
  <1>1. AccountInv /\ [Next]_vars =>
          [/\ exists
           /\ \/ NewRow({"SPEND", "CHARGE", "WEEKLY_GRANT"})
              \/ NewRow({"REFUND"}) /\ open' # open
           => Spendable' - Spendable = txn'.amount]_vars
    BY RowOfStep
  <1> QED BY <1>1, AccountIsSound, PTL DEF Spec, RowsMoveCredits

\* Only a booking that pays writes a SPEND row.
LEMMA SpendIsConsume ==
    ASSUME [Next]_vars, NewRow({"SPEND"})
    PROVE  \E ref \in Refs : Consume(ref)
  <1>1. txn' # txn
    BY NoRow
  <1>2. ASSUME NEW t, NEW a, Record(t, a) PROVE t = "SPEND"
    BY <1>2, RowWritten DEF NewRow
  <1>3. ~EnsureAccount /\ ~Charge /\ \A key \in Keys : ~PgCharge(key)
    BY <1>2 DEF EnsureAccount, Charge, PgCharge
  <1>4. \A ref \in Refs : ~Refund(ref)
    BY <1>2 DEF Refund
  <1>5. \A p \in Procs : ~GrantCommit(p) /\ ~ExpireCommit(p)
    BY <1>2 DEF GrantCommit, ExpireCommit
  <1>6. \A p \in Procs : ~PgRefundCommit(p)
    BY <1>2 DEF PgRefundCommit
  <1>7. ~Tick /\ ~UNCHANGED vars
    BY <1>1 DEF Tick, vars
  <1>8. \A p \in Procs : /\ \A key \in Keys : ~PgRefundRead(p, key)
                         /\ ~GrantRead(p) /\ ~ExpireList(p) /\ ~ExpireRead(p) /\ ~Abort(p)
    BY <1>1 DEF PgRefundRead, GrantRead, ExpireList, ExpireRead, Abort
  <1> QED BY <1>3, <1>4, <1>5, <1>6, <1>7, <1>8 DEF Next

\* Lots before purchased credits, and of the lots the one that expires sooner first.
LEMMA SpendInOrder ==
    ASSUME AccountInv, [Next]_vars, NewRow({"SPEND"})
    PROVE  /\ purchased' < purchased => InLots(lots') = 0
           /\ \A l, m \in DOMAIN lots :
                lots[l].exp < lots[m].exp /\ lots'[m].remaining < lots[m].remaining
                => lots'[l].remaining = 0
  <1>1. PICK ref \in Refs : Consume(ref)
    BY SpendIsConsume
  <1>2. PICK used, bought : used = Plan(ref).used /\ bought = Plan(ref).purchased
    OBVIOUS
  <1>3. /\ used \in [DOMAIN Had -> Nat]
        /\ LotsInTurn(lots') /\ DOMAIN lots' = DOMAIN Had
        /\ \A l \in DOMAIN Had : lots'[l].remaining = Had[l].remaining - used[l]
        /\ bought \in 0 .. purchased /\ purchased' = purchased - bought
        /\ bought > 0 => \A l \in DOMAIN Had : used[l] = Had[l].remaining
        /\ \A l, m \in DOMAIN Had :
             Had[l].exp < Had[m].exp /\ used[m] > 0 => used[l] = Had[l].remaining
    BY <1>1, <1>2, Consumed
  <1>4. /\ purchased \in Nat /\ LotsInTurn(Had)
        /\ DOMAIN lots \subseteq DOMAIN Had /\ \A l \in DOMAIN lots : Had[l] = lots[l]
    BY HadLots DEF AccountInv, BalancesOK
  <1>5. \A l \in DOMAIN Had : Had[l].remaining \in Nat
    BY <1>4 DEF LotsInTurn, Lots, Lot
  <1>6. ASSUME purchased' < purchased PROVE InLots(lots') = 0
    <2>1. bought > 0
      BY <1>3, <1>4, <1>6
    <2>2. \A l \in DOMAIN lots' : lots'[l].remaining = 0
      BY <1>3, <1>5, <2>1
    <2>3. /\ DOMAIN Remaining(lots') = DOMAIN lots' /\ IsFiniteSet(DOMAIN lots')
          /\ \A l \in DOMAIN lots' : Remaining(lots')[l] = 0
      BY <1>3, <2>2 DEF Remaining, LotsInTurn, Lots
    <2>4. SumFunctionOnSet(Remaining(lots'), DOMAIN lots') = 0
      BY <2>3, SumZero
    <2> QED BY <2>3, <2>4 DEF InLots, SumFunction
  <1>7. ASSUME NEW l \in DOMAIN lots, NEW m \in DOMAIN lots,
               lots[l].exp < lots[m].exp, lots'[m].remaining < lots[m].remaining
        PROVE  lots'[l].remaining = 0
    <2>1. /\ l \in DOMAIN Had /\ m \in DOMAIN Had /\ Had[l].exp < Had[m].exp
          /\ lots'[m].remaining < Had[m].remaining
      BY <1>4, <1>7
    <2>2. used[m] > 0
      BY <1>3, <1>5, <2>1
    <2>3. used[l] = Had[l].remaining /\ lots'[l].remaining = Had[l].remaining - used[l]
      BY <1>3, <2>1, <2>2
    <2> QED BY <1>5, <2>1, <2>3
  <1> QED BY <1>6, <1>7

\* Granted credits go before purchased ones, and those that expire sooner before those
\* that expire later (credit-consume.ts).
THEOREM SoonestGoesFirst == Spec => SoonestSpentFirst
  <1>1. AccountInv /\ [Next]_vars =>
          [NewRow({"SPEND"}) =>
             /\ purchased' < purchased => InLots(lots') = 0
             /\ \A l, m \in DOMAIN lots :
                  lots[l].exp < lots[m].exp /\ lots'[m].remaining < lots[m].remaining
                  => lots'[l].remaining = 0]_vars
    BY SpendInOrder
  <1> QED BY <1>1, AccountIsSound, PTL DEF Spec, SoonestSpentFirst

\* An expired lot is never filled again.
LEMMA ExpiredStays ==
    ASSUME AccountInv, [Next]_vars, NEW l \in DOMAIN lots, lots[l].exp <= now
    PROVE  lots'[l].remaining <= lots[l].remaining
  <1>0. /\ LotsInTurn(lots) /\ lots[l].remaining \in Nat /\ lots[l].exp \in Nat /\ now \in Nat
        /\ EndOfPeriod(now) \in Nat
    BY PeriodIsNat DEF AccountInv, BalancesOK, LotsInTurn, Lots, Lot
  <1> DEFINE Goal == lots'[l].remaining <= lots[l].remaining
  <1> SUFFICES Goal
    OBVIOUS
  <1>1. ASSUME lots'[l] = lots[l] PROVE Goal
    BY <1>0, <1>1
  <1>2. ASSUME lots' = lots PROVE Goal
    BY <1>0, <1>2
  <1>3. CASE EnsureAccount
    BY <1>0, <1>1, <1>3, LotAdded DEF EnsureAccount
  <1>4. ASSUME NEW ref \in Refs, Consume(ref) PROVE Goal
    <2>1. PICK used, bought : used = Plan(ref).used /\ bought = Plan(ref).purchased
      OBVIOUS
    <2>2. /\ used \in [DOMAIN Had -> Nat]
          /\ \A m \in DOMAIN Had : lots'[m].remaining = Had[m].remaining - used[m]
      BY <1>4, <2>1, Consumed
    <2>3. l \in DOMAIN Had /\ Had[l] = lots[l]
      BY HadLots DEF AccountInv
    <2>4. used[l] \in Nat /\ lots'[l].remaining = lots[l].remaining - used[l]
      BY <2>2, <2>3
    <2> QED BY <1>0, <2>4
  <1>5. ASSUME NEW ref \in Refs, Refund(ref) PROVE Goal
    <2>1. PICK back, fresh : /\ back = SumFunction(PlanRefund(spend[ref], lots).restore)
                             /\ fresh = PlanRefund(spend[ref], lots).toPurchased
      OBVIOUS
    <2>2. lots'[l].remaining = IF l \in DOMAIN spend[ref].granted /\ Alive(lots, l)
                               THEN lots[l].remaining + spend[ref].granted[l]
                               ELSE lots[l].remaining
      BY <1>5, <2>1, Refunded
    <2>3. ~Alive(lots, l)
      BY <1>0 DEF Alive
    <2> QED BY <1>0, <2>2, <2>3
  <1>6. ASSUME NEW p \in Procs, GrantCommit(p) PROVE Goal
    <2>1. job[p].of \in Nat /\ lots' = AddLot(lots, job[p].of)
      BY <1>6 DEF AccountInv, JobsOK, JobOK, Idle, GrantCommit
    <2> QED BY <1>0, <1>1, <2>1, LotAdded
  <1>7. ASSUME NEW p \in Procs, ExpireCommit(p) PROVE Goal
    <2>1. lots'[l].remaining = IF l = job[p].lot THEN 0 ELSE lots[l].remaining
      BY <1>7, Expired
    <2> QED BY <1>0, <2>1
  <1>8. ASSUME \/ Charge \/ \E key \in Keys : PgCharge(key)
               \/ \E p \in Procs : PgRefundCommit(p)
        PROVE  Goal
    BY <1>2, <1>8 DEF Charge, PgCharge, PgRefundCommit
  <1>9. ASSUME NEW p \in Procs, NEW key \in Keys, PgRefundRead(p, key) PROVE Goal
    BY <1>2, <1>9 DEF PgRefundRead, balances
  <1>10. ASSUME NEW p \in Procs, GrantRead(p) \/ ExpireList(p) \/ ExpireRead(p) \/ Abort(p)
         PROVE  Goal
    BY <1>2, <1>10 DEF GrantRead, ExpireList, ExpireRead, Abort, balances
  <1>11. CASE Tick
    BY <1>2, <1>11 DEF Tick, balances
  <1>12. CASE UNCHANGED vars
    BY <1>2, <1>12 DEF vars
  <1> HIDE DEF Goal
  <1>13. CASE Next
    BY <1>3, <1>4, <1>5, <1>6, <1>7, <1>8, <1>9, <1>10, <1>11, <1>13 DEF Next
  <1> QED BY <1>12, <1>13

\* Once a lot has expired no refund and no job fills it again (planRefund).
THEOREM NothingIsCarriedOver == Spec => NoCarryOver
  <1>1. AccountInv /\ [Next]_vars =>
          [\A l \in DOMAIN lots :
             lots[l].exp <= now => lots'[l].remaining <= lots[l].remaining]_vars
    BY ExpiredStays
  <1> QED BY <1>1, AccountIsSound, PTL DEF Spec, NoCarryOver

----------------------------------------------------------------------------
(* The balance and the lots part only by an expiry that wrote what it had   *)
(* read before something else moved.                                        *)

\* What a booking holds of a lot, and what the bookings op hold of it together.
HeldBy(s, l) == IF l \in DOMAIN s.granted THEN s.granted[l] ELSE 0
Held(sp, op, l) == SumFunctionOnSet([r \in op |-> HeldBy(sp[r], l)], op)

\* A booking more.
LEMMA HeldAdds ==
    ASSUME NEW op, IsFiniteSet(op), NEW sp, NEW tp, NEW l, NEW r, r \notin op,
           \A q \in op : HeldBy(sp[q], l) \in Nat /\ tp[q] = sp[q],
           HeldBy(tp[r], l) \in Nat
    PROVE  /\ Held(tp, op \cup {r}, l) = Held(sp, op, l) + HeldBy(tp[r], l)
           /\ Held(sp, op, l) \in Nat
  <1> DEFINE S == op \cup {r}
             f == [q \in op |-> HeldBy(sp[q], l)]
             h == [q \in S |-> HeldBy(tp[q], l)]
  <1>1. \A q \in S : h[q] = HeldBy(tp[q], l) /\ h[q] \in Nat
    OBVIOUS
  <1>2. Numbers(h, S) /\ Numbers(f, op) /\ S \ {r} = op
    BY <1>1, FS_AddElement DEF Numbers
  <1>3. \A q \in op : h[q] = f[q] /\ f[q] >= 0
    OBVIOUS
  <1>4. Held(tp, S, l) = SumFunctionOnSet(h, S) /\ Held(sp, op, l) = SumFunctionOnSet(f, op)
    BY DEF Held
  <1>5. h[r] = HeldBy(tp[r], l) /\ r \in S
    OBVIOUS
  <1> HIDE DEF f, h, S
  <1>6. SumFunctionOnSet(h, S) = SumFunctionOnSet(h, S \ {r}) + h[r]
    BY <1>2, <1>5, SumWithout
  <1>7. SumFunctionOnSet(h, op) = SumFunctionOnSet(f, op)
    BY <1>2, <1>3, SumSame
  <1>8. SumFunctionOnSet(f, op) \in Nat
    <2>1. SumFunctionOnSet(f, op) \in Int
      BY <1>2, SumNumber
    <2>2. 0 <= SumFunctionOnSet(f, op)
      BY <1>2, <1>3, SumGrows
    <2> QED BY <2>1, <2>2
  <1>9. Held(tp, S, l) = Held(sp, op, l) + HeldBy(tp[r], l)
    BY <1>2, <1>4, <1>5, <1>6, <1>7
  <1> QED BY <1>4, <1>8, <1>9 DEF S

\* Of a lot that was not there no booking holds anything.
LEMMA HeldFresh ==
    ASSUME BookingsOK, NEW l
    PROVE  /\ \A r \in Refs : HeldBy(spend[r], l) \in Nat
           /\ l \notin DOMAIN lots => Held(spend, open, l) = 0
           /\ Held(spend, open, l) \in Nat
  <1>1. \A r \in Refs : HeldBy(spend[r], l) \in Nat /\ (l \notin DOMAIN lots => HeldBy(spend[r], l) = 0)
    BY DEF BookingsOK, SplitOK, HeldBy
  <1> DEFINE f == [r \in open |-> HeldBy(spend[r], l)]
  <1>2. IsFiniteSet(open) /\ \A r \in open : f[r] \in Nat /\ (l \notin DOMAIN lots => f[r] = 0)
    BY <1>1 DEF BookingsOK
  <1>3. Held(spend, open, l) = SumFunctionOnSet(f, open)
    BY DEF Held
  <1>4. Numbers(f, open) /\ \A r \in open : f[r] >= 0
    BY <1>2 DEF Numbers
  <1> HIDE DEF f
  <1>5. SumFunctionOnSet(f, open) \in Int /\ 0 <= SumFunctionOnSet(f, open)
    BY <1>4, SumNumber, SumGrows
  <1>6. l \notin DOMAIN lots => SumFunctionOnSet(f, open) = 0
    BY <1>2, SumZero
  <1> QED BY <1>1, <1>3, <1>5, <1>6

\* What is left of a lot and what the bookings hold of it was granted into it.
HeldWithin ==
    \A l \in DOMAIN lots : lots[l].remaining + Held(spend, open, l) <= lots[l].amount

\* A booking is paid once: it does not pay while it holds a split.
LEMMA PaysOnce == ASSUME AccountInv, NEW ref \in Refs, Consume(ref) PROVE ref \notin open
  <1> SUFFICES ASSUME ref \in open PROVE FALSE
    OBVIOUS
  <1>1. spend[ref] = NoSplit
    BY DEF Consume
  <1>2. spend[ref].granted = <<>> /\ spend[ref].purchased = 0
    BY <1>1 DEF NoSplit
  <1>3. SumFunction(spend[ref].granted) = 0
    <2>1. DOMAIN spend[ref].granted = {}
      BY <1>2
    <2>2. Numbers(spend[ref].granted, {})
      BY FS_EmptySet DEF Numbers
    <2>3. SumFunctionOnSet(spend[ref].granted, {}) = 0
      BY <2>2, SumNumber
    <2> QED BY <2>1, <2>3 DEF SumFunction
  <1>4. SumFunction(spend[ref].granted) + spend[ref].purchased = Price[ref]
    BY DEF AccountInv, PaidInFull
  <1> QED BY <1>2, <1>3, <1>4, LedgerAssumption

\* A lot that is added is whole, the others stay.
LEMMA HeldAfterLot ==
    ASSUME AccountInv, HeldWithin, NEW e \in Nat, lots' = AddLot(lots, e), UNCHANGED bookings
    PROVE  HeldWithin'
  <1>1. /\ DOMAIN lots' = DOMAIN lots \cup {NextLot} /\ NextLot \notin DOMAIN lots
        /\ \A l \in DOMAIN lots : lots'[l] = lots[l]
        /\ lots'[NextLot] = [exp |-> e, amount |-> Weekly, remaining |-> Weekly]
    BY LotAdded DEF AccountInv, BalancesOK
  <1>2. spend' = spend /\ open' = open
    BY DEF bookings
  <1> SUFFICES ASSUME NEW l \in DOMAIN lots'
               PROVE  lots'[l].remaining + Held(spend, open, l) <= lots'[l].amount
    BY <1>2 DEF HeldWithin
  <1>3. CASE l \in DOMAIN lots
    BY <1>1, <1>3 DEF HeldWithin
  <1>4. CASE l = NextLot
    <2>1. Held(spend, open, l) = 0
      BY <1>1, <1>4, HeldFresh DEF AccountInv
    <2>2. lots'[l].remaining = Weekly /\ lots'[l].amount = Weekly
      BY <1>1, <1>4
    <2> QED BY <2>1, <2>2, LedgerAssumption
  <1> QED BY <1>1, <1>3, <1>4

\* A booking takes from the lots what it then holds.
LEMMA HeldAfterConsume ==
    ASSUME AccountInv, HeldWithin, NEW ref \in Refs, Consume(ref)
    PROVE  HeldWithin'
  <1>1. PICK used, bought : used = Plan(ref).used /\ bought = Plan(ref).purchased
    OBVIOUS
  <1>2. /\ used \in [DOMAIN Had -> Nat] /\ DOMAIN lots' = DOMAIN Had
        /\ \A l \in DOMAIN Had : /\ lots'[l].amount = Had[l].amount
                                 /\ lots'[l].remaining = Had[l].remaining - used[l]
    BY <1>1, Consumed
  <1>3. /\ spend' = [spend EXCEPT ![ref] = spend'[ref]]
        /\ spend'[ref].granted = [l \in {m \in DOMAIN Had : used[m] > 0} |-> used[l]]
    BY <1>1, SplitAddsUp
  <1>4. open' = open \cup {ref} /\ ref \notin open
    BY PaysOnce DEF Consume
  <1>5. /\ LotsInTurn(Had) /\ \A l \in DOMAIN lots : Had[l] = lots[l]
        /\ \A l \in DOMAIN Had \ DOMAIN lots : Had[l].remaining = Had[l].amount
    BY HadLots DEF AccountInv
  <1> SUFFICES ASSUME NEW l \in DOMAIN lots'
               PROVE  lots'[l].remaining + Held(spend', open', l) <= lots'[l].amount
    BY DEF HeldWithin
  <1>6. /\ l \in DOMAIN Had /\ used[l] \in Nat /\ lots'[l].amount = Had[l].amount
        /\ lots'[l].remaining = Had[l].remaining - used[l]
        /\ Had[l].remaining \in Nat /\ Had[l].amount \in Nat
    BY <1>2, <1>5 DEF LotsInTurn, Lots, Lot
  <1>7. HeldBy(spend'[ref], l) = used[l]
    <2>1. CASE used[l] > 0
      BY <1>3, <1>6, <2>1 DEF HeldBy
    <2>2. CASE ~(used[l] > 0)
      <3>1. l \notin DOMAIN spend'[ref].granted
        BY <1>3, <2>2
      <3> QED BY <1>6, <2>2, <3>1 DEF HeldBy
    <2> QED BY <2>1, <2>2
  <1>8. \A q \in open : HeldBy(spend[q], l) \in Nat /\ spend'[q] = spend[q]
    <2>1. open \subseteq Refs
      BY DEF AccountInv, BookingsOK
    <2> QED BY <1>3, <1>4, <2>1, HeldFresh DEF AccountInv, BookingsOK
  <1>9. Held(spend', open', l) = Held(spend, open, l) + used[l] /\ Held(spend, open, l) \in Nat
    <2>1. IsFiniteSet(open)
      BY DEF AccountInv, BookingsOK
    <2>2. PICK sp, tp : sp = spend /\ tp = spend'
      OBVIOUS
    <2>3. /\ \A q \in open : HeldBy(sp[q], l) \in Nat /\ tp[q] = sp[q]
          /\ HeldBy(tp[ref], l) \in Nat /\ HeldBy(tp[ref], l) = used[l]
      BY <1>6, <1>7, <1>8, <2>2
    <2>4. /\ Held(tp, open \cup {ref}, l) = Held(sp, open, l) + HeldBy(tp[ref], l)
          /\ Held(sp, open, l) \in Nat
      BY <1>4, <2>1, <2>3, HeldAdds
    <2> QED BY <1>4, <2>2, <2>3, <2>4
  <1>10. Had[l].remaining + Held(spend, open, l) <= Had[l].amount
    <2>1. CASE l \in DOMAIN lots
      BY <1>5, <2>1 DEF HeldWithin
    <2>2. CASE l \notin DOMAIN lots
      <3>1. Held(spend, open, l) = 0
        BY <2>2, HeldFresh DEF AccountInv
      <3>2. Had[l].remaining = Had[l].amount
        BY <1>5, <1>6, <2>2
      <3> QED BY <1>6, <3>1, <3>2
    <2> QED BY <2>1, <2>2
  <1> QED BY <1>6, <1>9, <1>10

\* A booking puts into the lots no more than it held.
LEMMA HeldAfterRefund ==
    ASSUME AccountInv, HeldWithin, NEW ref \in Refs, Refund(ref)
    PROVE  HeldWithin'
  <1>1. PICK back, fresh : /\ back = SumFunction(PlanRefund(spend[ref], lots).restore)
                           /\ fresh = PlanRefund(spend[ref], lots).toPurchased
    OBVIOUS
  <1>2. /\ DOMAIN lots' = DOMAIN lots
        /\ \A l \in DOMAIN lots :
             /\ lots'[l].amount = lots[l].amount
             /\ lots'[l].remaining = IF l \in DOMAIN spend[ref].granted /\ Alive(lots, l)
                                     THEN lots[l].remaining + spend[ref].granted[l]
                                     ELSE lots[l].remaining
    BY <1>1, Refunded
  <1>3. spend' = spend /\ open' = open \ {ref} /\ ref \in open
    BY DEF Refund
  <1> SUFFICES ASSUME NEW l \in DOMAIN lots
               PROVE  lots'[l].remaining + Held(spend, open \ {ref}, l) <= lots[l].amount
    BY <1>2, <1>3 DEF HeldWithin
  <1>4. lots[l].remaining \in Nat /\ lots[l].amount \in Nat
    BY DEF AccountInv, BalancesOK, LotsInTurn, Lots, Lot
  <1>5. \A q \in Refs : HeldBy(spend[q], l) \in Nat
    BY HeldFresh DEF AccountInv
  <1>6. /\ Held(spend, open, l) = Held(spend, open \ {ref}, l) + HeldBy(spend[ref], l)
        /\ Held(spend, open \ {ref}, l) \in Nat
    <2>1. PICK rest : rest = open \ {ref}
      OBVIOUS
    <2>2. /\ IsFiniteSet(rest) /\ ref \notin rest /\ rest \cup {ref} = open
          /\ \A q \in rest : HeldBy(spend[q], l) \in Nat
      BY <1>3, <1>5, <2>1, FS_Subset DEF AccountInv, BookingsOK
    <2>3. /\ Held(spend, rest \cup {ref}, l) = Held(spend, rest, l) + HeldBy(spend[ref], l)
          /\ Held(spend, rest, l) \in Nat
      BY <1>5, <2>2, HeldAdds
    <2> QED BY <2>1, <2>2, <2>3
  <1>7. lots'[l].remaining <= lots[l].remaining + HeldBy(spend[ref], l) /\ lots'[l].remaining \in Nat
    <2>1. HeldBy(spend[ref], l) \in Nat
      BY <1>5
    <2>2. l \in DOMAIN spend[ref].granted => HeldBy(spend[ref], l) = spend[ref].granted[l]
      BY DEF HeldBy
    <2> QED BY <1>2, <1>4, <2>1, <2>2
  <1>8. lots[l].remaining + Held(spend, open, l) <= lots[l].amount
    BY DEF HeldWithin
  <1>9. HeldBy(spend[ref], l) \in Nat
    BY <1>5
  <1> QED BY <1>4, <1>6, <1>7, <1>8, <1>9

\* An expiry empties a lot.
LEMMA HeldAfterExpire ==
    ASSUME AccountInv, HeldWithin, NEW p \in Procs, ExpireCommit(p)
    PROVE  HeldWithin'
  <1>1. PICK k : k = job[p].lot
    OBVIOUS
  <1>2. /\ DOMAIN lots' = DOMAIN lots
        /\ \A m \in DOMAIN lots : /\ lots'[m].amount = lots[m].amount
                                  /\ lots'[m].remaining = IF m = k THEN 0 ELSE lots[m].remaining
    BY <1>1, Expired
  <1>3. spend' = spend /\ open' = open
    BY DEF ExpireCommit, bookings
  <1> SUFFICES ASSUME NEW l \in DOMAIN lots
               PROVE  lots'[l].remaining + Held(spend, open, l) <= lots'[l].amount
    BY <1>2, <1>3 DEF HeldWithin
  <1>4. lots[l].remaining \in Nat /\ lots[l].amount \in Nat
    BY DEF AccountInv, BalancesOK, LotsInTurn, Lots, Lot
  <1>5. Held(spend, open, l) \in Nat /\ lots[l].remaining + Held(spend, open, l) <= lots[l].amount
    BY HeldFresh DEF AccountInv, HeldWithin
  <1>6. lots'[l].amount = lots[l].amount /\ lots'[l].remaining = IF l = k THEN 0 ELSE lots[l].remaining
    BY <1>2
  <1> QED BY <1>4, <1>5, <1>6


\* Without a stale expiry the balance is what the lots hold.
Balanced == (\A w \in crossed : w.op # "expire") => granted = InLots(lots)

\* Every step moves the balance as it moves the lots, but for such an expiry.
LEMMA BalancedStep ==
    ASSUME AccountInv, Balanced, [Next]_vars
    PROVE  Balanced'
  <1>0. /\ LotsInTurn(lots) /\ granted \in Int /\ now \in Nat /\ InLots(lots) \in Nat
        /\ EndOfPeriod(now) \in Nat /\ Weekly \in Nat
    BY LotsHold, PeriodIsNat, LedgerAssumption DEF AccountInv, BalancesOK, LotsInTurn
  <1> SUFFICES ASSUME \A w \in crossed' : w.op # "expire"
               PROVE  granted' = InLots(lots')
    BY DEF Balanced
  <1>1. ASSUME crossed \subseteq crossed' PROVE granted = InLots(lots)
    BY <1>1 DEF Balanced
  <1> DEFINE Goal == granted' = InLots(lots')
  <1> SUFFICES Goal
    OBVIOUS
  <1>2. ASSUME crossed \subseteq crossed', granted' = granted, lots' = lots PROVE Goal
    BY <1>1, <1>2
  <1> HIDE DEF Goal
  <1>3. CASE EnsureAccount
    <2>1. granted = 0 /\ granted = InLots(lots)
      BY <1>1, <1>3 DEF EnsureAccount, AccountInv, NothingYet
    <2>2. InLots(lots') = InLots(lots) + Weekly
      BY <1>0, <1>3, LotAdded DEF EnsureAccount
    <2>3. granted' = Weekly
      BY <1>3 DEF EnsureAccount
    <2> QED BY <1>0, <2>1, <2>2, <2>3 DEF Goal
  <1>4. ASSUME NEW ref \in Refs, Consume(ref) PROVE Goal
    <2>1. PICK used, bought : used = Plan(ref).used /\ bought = Plan(ref).purchased
      OBVIOUS
    <2>2. /\ InLots(lots') = InLots(Had) - SumFunction(used) /\ SumFunction(used) \in Nat
          /\ granted' = (IF exists THEN granted ELSE Weekly) - SumFunction(used)
      BY <1>4, <2>1, Consumed
    <2>3. InLots(Had) = InLots(lots) + (IF exists THEN 0 ELSE Weekly)
      BY HadLots DEF AccountInv
    <2>4. granted = InLots(lots) /\ (~exists => granted = 0)
      BY <1>1, <1>4 DEF Consume, AccountInv, NothingYet
    <2>5. granted' = InLots(Had) - SumFunction(used)
      <3>1. CASE exists
        BY <1>0, <2>2, <2>3, <2>4, <3>1
      <3>2. CASE ~exists
        BY <1>0, <2>2, <2>3, <2>4, <3>2
      <3> QED BY <3>1, <3>2
    <2> QED BY <2>2, <2>5 DEF Goal
  <1>5. ASSUME NEW ref \in Refs, Refund(ref) PROVE Goal
    <2>1. PICK back, fresh : /\ back = SumFunction(PlanRefund(spend[ref], lots).restore)
                             /\ fresh = PlanRefund(spend[ref], lots).toPurchased
      OBVIOUS
    <2>2. InLots(lots') = InLots(lots) + back /\ granted' = granted + back
      BY <1>5, <2>1, Refunded
    <2>3. granted = InLots(lots)
      BY <1>1, <1>5 DEF Refund
    <2> QED BY <2>2, <2>3 DEF Goal
  <1>6. ASSUME NEW p \in Procs, GrantCommit(p) PROVE Goal
    <2>1. job[p].of \in Nat /\ lots' = AddLot(lots, job[p].of) /\ granted' = granted + Weekly
      BY <1>6 DEF AccountInv, JobsOK, JobOK, Idle, GrantCommit
    <2>2. InLots(lots') = InLots(lots) + Weekly
      BY <1>0, <2>1, LotAdded
    <2>3. granted = InLots(lots)
      BY <1>1, <1>6 DEF GrantCommit
    <2> QED BY <2>1, <2>2, <2>3 DEF Goal
  <1>7. ASSUME NEW p \in Procs, ExpireCommit(p) PROVE Goal
    <2>1. PICK l : l = job[p].lot
      OBVIOUS
    <2>2. /\ l \in DOMAIN lots /\ InLots(lots') = InLots(lots) - lots[l].remaining
          /\ granted' = IF job[p].granted - job[p].todo[l] < 0 THEN 0
                        ELSE job[p].granted - job[p].todo[l]
      BY <1>7, <2>1, Expired
    <2>3. /\ job[p].todo[l] = lots[l].remaining /\ job[p].granted = granted
          /\ crossed' = crossed
      <3>1. PICK gone : gone = [op |-> "expire", of |-> l]
        OBVIOUS
      <3>2. crossed' = IF job[p].todo[l] # lots[l].remaining \/ job[p].granted # granted
                       THEN crossed \cup {gone} ELSE crossed
        BY <1>7, <2>1, <3>1 DEF ExpireCommit
      <3>3. gone \notin crossed'
        BY <3>1
      <3> QED BY <3>2, <3>3
    <2>4. granted = InLots(lots)
      BY <1>1, <2>3
    <2>5. lots[l].remaining \in Nat /\ lots[l].remaining <= InLots(lots)
      BY <1>0, <2>2, LotsHold DEF LotsInTurn, Lots, Lot
    <2> QED BY <1>0, <2>2, <2>3, <2>4, <2>5 DEF Goal
  <1>8. ASSUME \/ Charge \/ \E key \in Keys : PgCharge(key)
               \/ \E p \in Procs : PgRefundCommit(p)
        PROVE  Goal
    BY <1>2, <1>8 DEF Charge, PgCharge, PgRefundCommit
  <1>9. ASSUME NEW p \in Procs, NEW key \in Keys, PgRefundRead(p, key) PROVE Goal
    BY <1>2, <1>9 DEF PgRefundRead, Begin, balances
  <1>10. ASSUME NEW p \in Procs, GrantRead(p) PROVE Goal
    BY <1>2, <1>10 DEF GrantRead, Begin, balances
  <1>11. ASSUME NEW p \in Procs, ExpireList(p) \/ ExpireRead(p) \/ Abort(p) PROVE Goal
    BY <1>2, <1>11 DEF ExpireList, ExpireRead, Abort, balances
  <1>12. CASE Tick
    BY <1>2, <1>12 DEF Tick, balances
  <1>13. CASE UNCHANGED vars
    BY <1>2, <1>13 DEF vars
  <1>14. CASE Next
    BY <1>3, <1>4, <1>5, <1>6, <1>7, <1>8, <1>9, <1>10, <1>11, <1>12, <1>14 DEF Next
  <1> QED BY <1>13, <1>14

\* What the bookings hold and what is left of the lots stays within what was granted.
LEMMA HeldStep ==
    ASSUME AccountInv, HeldWithin, [Next]_vars
    PROVE  HeldWithin'
  <1>0. EndOfPeriod(now) \in Nat
    BY PeriodIsNat DEF AccountInv, BalancesOK
  <1>1. ASSUME lots' = lots, UNCHANGED bookings PROVE HeldWithin'
    BY <1>1 DEF HeldWithin, bookings
  <1>2. CASE EnsureAccount
    BY <1>0, <1>2, HeldAfterLot DEF EnsureAccount
  <1>3. ASSUME NEW ref \in Refs, Consume(ref) \/ Refund(ref) PROVE HeldWithin'
    BY <1>3, HeldAfterConsume, HeldAfterRefund
  <1>4. ASSUME NEW p \in Procs, GrantCommit(p) PROVE HeldWithin'
    <2>1. job[p].of \in Nat /\ lots' = AddLot(lots, job[p].of) /\ UNCHANGED bookings
      BY <1>4 DEF AccountInv, JobsOK, JobOK, Idle, GrantCommit
    <2> QED BY <2>1, HeldAfterLot
  <1>5. ASSUME NEW p \in Procs, ExpireCommit(p) PROVE HeldWithin'
    BY <1>5, HeldAfterExpire
  <1>6. ASSUME \/ Charge \/ \E key \in Keys : PgCharge(key)
               \/ \E p \in Procs : PgRefundCommit(p)
        PROVE  HeldWithin'
    BY <1>1, <1>6 DEF Charge, PgCharge, PgRefundCommit
  <1>7. ASSUME NEW p \in Procs, NEW key \in Keys, PgRefundRead(p, key) PROVE HeldWithin'
    BY <1>1, <1>7 DEF PgRefundRead, balances
  <1>8. ASSUME NEW p \in Procs, GrantRead(p) \/ ExpireList(p) \/ ExpireRead(p) \/ Abort(p)
        PROVE  HeldWithin'
    BY <1>1, <1>8 DEF GrantRead, ExpireList, ExpireRead, Abort, balances
  <1>9. CASE Tick
    BY <1>1, <1>9 DEF Tick, balances
  <1>10. CASE UNCHANGED vars
    BY <1>1, <1>10 DEF vars, bookings
  <1>11. CASE Next
    BY <1>2, <1>3, <1>4, <1>5, <1>6, <1>7, <1>8, <1>9, <1>11 DEF Next
  <1> QED BY <1>10, <1>11

----------------------------------------------------------------------------
(* What two jobs may do twice.                                              *)

\* Some lot is of the period that ends at e.
SomeLot(ls, e) == \E l \in DOMAIN ls : ls[l].exp = e

OfLot(e) == [op |-> "grant", of |-> e]
OfKey(k) == [op |-> "pgRefund", of |-> k]

\* Two processes that hold the same work crossed each other.
PairsCrossed ==
    \A p, q \in Procs :
      p # q /\ job[p].op \in {"grant", "pgRefund"} /\ job[q] = job[p] => job[p] \in crossed

\* A grant on its way is the first of its period, or crossed another.
GrantsCrossed ==
    /\ \A p \in Procs : job[p].op = "grant" /\ SomeLot(lots, job[p].of) => job[p] \in crossed
    /\ \A l, m \in DOMAIN lots : l # m /\ lots[l].exp = lots[m].exp => OfLot(lots[l].exp) \in crossed

\* A PG refund on its way is the first of its payment, or crossed another.
RefundsCrossed ==
    /\ pgRefunds \in [Keys -> Nat] /\ payment = [k \in Keys |-> payment[k]]
    /\ \A k \in Keys : pgRefunds[k] >= 1 => payment[k].status = "refunded"
    /\ \A k \in Keys : payment[k] = [status |-> payment[k].status]
    /\ \A p \in Procs : job[p].op = "pgRefund" /\ pgRefunds[job[p].of] >= 1 => job[p] \in crossed
    /\ \A k \in Keys : pgRefunds[k] > 1 => OfKey(k) \in crossed

\* Jobs that begin or end leave no pair that did not cross.
LEMMA PairsStep ==
    ASSUME AccountInv, PairsCrossed, [Next]_vars
    PROVE  PairsCrossed'
  <1>0. /\ job = [p \in Procs |-> job[p]] /\ Idle.op = "idle"
    BY DEF AccountInv, JobsOK, Idle
  <1>1. ASSUME job' = job, crossed' = crossed PROVE PairsCrossed'
    BY <1>1 DEF PairsCrossed
  <1>2. ASSUME NEW p \in Procs, NEW work, job' = [job EXCEPT ![p] = work],
               work.op \notin {"grant", "pgRefund"}, crossed \subseteq crossed'
        PROVE  PairsCrossed'
    <2>1. job'[p] = work /\ \A q \in Procs \ {p} : job'[q] = job[q]
      BY <1>0, <1>2
    <2> SUFFICES ASSUME NEW r \in Procs, NEW q \in Procs, r # q,
                        job'[r].op \in {"grant", "pgRefund"}, job'[q] = job'[r]
                 PROVE  job'[r] \in crossed'
      BY DEF PairsCrossed
    <2>2. r # p /\ q # p
      BY <1>2, <2>1
    <2> QED BY <1>2, <2>1, <2>2 DEF PairsCrossed
  <1>3. ASSUME NEW p \in Procs, NEW work, Begin(p, work) PROVE PairsCrossed'
    <2>1. /\ job'[p] = work /\ \A q \in Procs \ {p} : job'[q] = job[q]
          /\ crossed \subseteq crossed' /\ ((\E q \in Procs : job[q] = work) => work \in crossed')
      BY <1>0, <1>3 DEF Begin
    <2> SUFFICES ASSUME NEW r \in Procs, NEW q \in Procs, r # q,
                        job'[r].op \in {"grant", "pgRefund"}, job'[q] = job'[r]
                 PROVE  job'[r] \in crossed'
      BY DEF PairsCrossed
    <2>2. CASE r = p \/ q = p
      BY <2>1, <2>2
    <2>3. CASE r # p /\ q # p
      BY <2>1, <2>3 DEF PairsCrossed
    <2> QED BY <2>2, <2>3
  <1>4. ASSUME NEW p \in Procs, NEW key \in Keys, PgRefundRead(p, key) PROVE PairsCrossed'
    BY <1>3, <1>4 DEF PgRefundRead
  <1>5. ASSUME NEW p \in Procs, GrantRead(p) PROVE PairsCrossed'
    BY <1>3, <1>5 DEF GrantRead
  <1>6. ASSUME NEW p \in Procs, PgRefundCommit(p) \/ GrantCommit(p) \/ Abort(p) PROVE PairsCrossed'
    <2>1. job' = [job EXCEPT ![p] = Idle] /\ crossed' = crossed
      BY <1>6 DEF PgRefundCommit, GrantCommit, Abort
    <2> QED BY <1>0, <1>2, <2>1
  <1>7. ASSUME NEW p \in Procs, ExpireList(p) PROVE PairsCrossed'
    <2>1. PICK work : work = [op |-> "expire", todo |-> [l \in Due(lots) |-> lots[l].remaining]]
      OBVIOUS
    <2>2. work.op = "expire"
      BY <2>1
    <2>3. job' = [job EXCEPT ![p] = work] /\ crossed' = crossed
      BY <1>7, <2>1 DEF ExpireList
    <2> QED BY <1>2, <2>2, <2>3
  <1>8. ASSUME NEW p \in Procs, ExpireRead(p) PROVE PairsCrossed'
    <2>1. PICK l \in DOMAIN job[p].todo :
            job' = [job EXCEPT ![p] = [op |-> "expireLot", todo |-> job[p].todo, lot |-> l,
                                       granted |-> granted]]
      BY <1>8 DEF ExpireRead
    <2>2. PICK work : work = [op |-> "expireLot", todo |-> job[p].todo, lot |-> l, granted |-> granted]
      OBVIOUS
    <2>3. work.op = "expireLot"
      BY <2>2
    <2>4. job' = [job EXCEPT ![p] = work] /\ crossed' = crossed
      BY <1>8, <2>1, <2>2 DEF ExpireRead
    <2> QED BY <1>2, <2>3, <2>4
  <1>9. ASSUME NEW p \in Procs, ExpireCommit(p) PROVE PairsCrossed'
    <2>1. PICK left : left = DOMAIN job[p].todo \ {job[p].lot}
      OBVIOUS
    <2>2. PICK work : work = IF left = {} THEN Idle
                             ELSE [op |-> "expire", todo |-> [m \in left |-> job[p].todo[m]]]
      OBVIOUS
    <2>3. work.op \in {"idle", "expire"}
      BY <1>0, <2>2
    <2>4. job' = [job EXCEPT ![p] = work]
      BY <1>9, <2>1, <2>2 DEF ExpireCommit
    <2>5. crossed \subseteq crossed'
      BY <1>9 DEF ExpireCommit
    <2> QED BY <1>2, <2>3, <2>4, <2>5
  <1>10. ASSUME NEW ref \in Refs, Consume(ref) \/ Refund(ref) PROVE PairsCrossed'
    BY <1>1, <1>10 DEF Consume, Refund
  <1>11. ASSUME EnsureAccount \/ Charge \/ Tick \/ \E key \in Keys : PgCharge(key)
         PROVE  PairsCrossed'
    BY <1>1, <1>11 DEF EnsureAccount, Charge, Tick, PgCharge
  <1>12. CASE UNCHANGED vars
    BY <1>1, <1>12 DEF vars
  <1>13. CASE Next
    BY <1>4, <1>5, <1>6, <1>7, <1>8, <1>9, <1>10, <1>11, <1>13 DEF Next
  <1> QED BY <1>12, <1>13


\* A period gets a second lot only from jobs that crossed.
LEMMA GrantsStep ==
    ASSUME AccountInv, PairsCrossed, GrantsCrossed, [Next]_vars
    PROVE  GrantsCrossed'
  <1>0. /\ job = [p \in Procs |-> job[p]] /\ Idle.op = "idle" /\ LotsInTurn(lots)
        /\ now \in Nat /\ EndOfPeriod(now) \in Nat
    BY PeriodIsNat DEF AccountInv, JobsOK, BalancesOK, Idle
  <1>1. ASSUME DOMAIN lots' = DOMAIN lots, \A l \in DOMAIN lots : lots'[l].exp = lots[l].exp,
               crossed \subseteq crossed',
               \A p \in Procs : job'[p].op = "grant" => job'[p] = job[p]
        PROVE  GrantsCrossed'
    <2>1. \A e : SomeLot(lots', e) <=> SomeLot(lots, e)
      BY <1>1 DEF SomeLot
    <2>2. ASSUME NEW p \in Procs, job'[p].op = "grant", SomeLot(lots', job'[p].of)
          PROVE  job'[p] \in crossed'
      <3>1. job'[p] = job[p]
        BY <1>1, <2>2
      <3>2. job[p].op = "grant" /\ SomeLot(lots, job[p].of)
        BY <2>1, <2>2, <3>1
      <3> QED BY <1>1, <3>1, <3>2 DEF GrantsCrossed
    <2>3. \A l, m \in DOMAIN lots' :
            l # m /\ lots'[l].exp = lots'[m].exp => OfLot(lots'[l].exp) \in crossed'
      BY <1>1 DEF GrantsCrossed
    <2> QED BY <2>2, <2>3 DEF GrantsCrossed
  <1>2. ASSUME DOMAIN lots = {}, NEW e \in Nat, lots' = AddLot(lots, e),
               \A p \in Procs : job'[p].op # "grant"
        PROVE  GrantsCrossed'
    <2>1. DOMAIN lots' = {NextLot}
      BY <1>0, <1>2, LotAdded
    <2> QED BY <1>2, <2>1 DEF GrantsCrossed
  <1>3. CASE EnsureAccount
    BY <1>0, <1>2, <1>3 DEF EnsureAccount, AccountInv, NothingYet
  <1>4. ASSUME NEW ref \in Refs, Consume(ref) PROVE GrantsCrossed'
    <2>1. PICK used, bought : used = Plan(ref).used /\ bought = Plan(ref).purchased
      OBVIOUS
    <2>2. /\ DOMAIN lots' = DOMAIN Had /\ \A l \in DOMAIN Had : lots'[l].exp = Had[l].exp
      BY <1>4, <2>1, Consumed
    <2>3. job' = job /\ crossed' = crossed
      BY <1>4 DEF Consume
    <2>4. CASE exists
      <3>1. Had = lots
        BY <2>4, HadLots DEF AccountInv
      <3> QED BY <1>1, <2>2, <2>3, <3>1
    <2>5. CASE ~exists
      <3>1. DOMAIN lots = {} /\ \A p \in Procs : job'[p].op # "grant"
        BY <2>3, <2>5 DEF AccountInv, NothingYet
      <3>2. DOMAIN lots' = {NextLot}
        BY <1>0, <2>2, <2>5, <3>1, LotAdded DEF Had
      <3> QED BY <3>1, <3>2 DEF GrantsCrossed
    <2> QED BY <2>4, <2>5
  <1>5. ASSUME NEW ref \in Refs, Refund(ref) PROVE GrantsCrossed'
    <2>1. PICK back, fresh : /\ back = SumFunction(PlanRefund(spend[ref], lots).restore)
                             /\ fresh = PlanRefund(spend[ref], lots).toPurchased
      OBVIOUS
    <2>2. DOMAIN lots' = DOMAIN lots /\ \A l \in DOMAIN lots : lots'[l].exp = lots[l].exp
      BY <1>5, <2>1, Refunded
    <2>3. job' = job /\ crossed' = crossed
      BY <1>5 DEF Refund
    <2> QED BY <1>1, <2>2, <2>3
  <1>6. ASSUME NEW p \in Procs, GrantRead(p) PROVE GrantsCrossed'
    <2>1. PICK work : work = OfLot(EndOfPeriod(now))
      OBVIOUS
    <2>2. /\ ~SomeLot(lots, work.of) /\ Begin(p, work) /\ lots' = lots
      BY <1>6, <2>1 DEF GrantRead, GrantedAlready, SomeLot, OfLot, balances
    <2>3. /\ job'[p] = work /\ \A q \in Procs \ {p} : job'[q] = job[q]
          /\ crossed \subseteq crossed'
      BY <1>0, <2>2 DEF Begin
    <2>4. \A e : SomeLot(lots', e) <=> SomeLot(lots, e)
      BY <2>2 DEF SomeLot
    <2>5. ASSUME NEW q \in Procs, job'[q].op = "grant", SomeLot(lots', job'[q].of)
          PROVE  job'[q] \in crossed'
      <3>1. SomeLot(lots, job'[q].of)
        BY <2>4, <2>5
      <3>2. q # p
        BY <2>2, <2>3, <3>1
      <3> QED BY <2>3, <2>5, <3>1, <3>2 DEF GrantsCrossed
    <2>6. \A l, m \in DOMAIN lots' :
            l # m /\ lots'[l].exp = lots'[m].exp => OfLot(lots'[l].exp) \in crossed'
      BY <2>2, <2>3 DEF GrantsCrossed
    <2> QED BY <2>5, <2>6 DEF GrantsCrossed
  <1>7. ASSUME NEW p \in Procs, GrantCommit(p) PROVE GrantsCrossed'
    <2>1. PICK e \in Nat : job[p] = OfLot(e)
      BY <1>7 DEF GrantCommit, AccountInv, JobsOK, JobOK, Idle, OfLot
    <2>2. /\ lots' = AddLot(lots, e) /\ crossed' = crossed
          /\ job'[p] = Idle /\ \A q \in Procs \ {p} : job'[q] = job[q]
      BY <1>0, <1>7, <2>1 DEF GrantCommit, OfLot
    <2>3. /\ DOMAIN lots' = DOMAIN lots \cup {NextLot} /\ NextLot \notin DOMAIN lots
          /\ \A l \in DOMAIN lots : lots'[l].exp = lots[l].exp
          /\ lots'[NextLot].exp = e
      <3>1. /\ DOMAIN lots' = DOMAIN lots \cup {NextLot} /\ NextLot \notin DOMAIN lots
            /\ \A l \in DOMAIN lots : lots'[l] = lots[l]
            /\ lots'[NextLot] = [exp |-> e, amount |-> Weekly, remaining |-> Weekly]
        BY <1>0, <2>1, <2>2, LotAdded
      <3> QED BY <3>1
    <2>4. job[p].op = "grant" /\ job[p].of = e
      BY <2>1 DEF OfLot
    <2>5. SomeLot(lots, e) => OfLot(e) \in crossed
      BY <2>1, <2>4 DEF GrantsCrossed
    <2>6. \A l, m \in DOMAIN lots' :
            l # m /\ lots'[l].exp = lots'[m].exp => OfLot(lots'[l].exp) \in crossed'
      <3> SUFFICES ASSUME NEW l \in DOMAIN lots', NEW m \in DOMAIN lots',
                          l # m, lots'[l].exp = lots'[m].exp
                   PROVE  OfLot(lots'[l].exp) \in crossed
        BY <2>2
      <3>1. CASE l \in DOMAIN lots /\ m \in DOMAIN lots
        <4>1. lots[l].exp = lots[m].exp /\ lots'[l].exp = lots[l].exp
          BY <2>3, <3>1
        <4> QED BY <3>1, <4>1 DEF GrantsCrossed
      <3>2. CASE l = NextLot \/ m = NextLot
        <4>1. PICK n \in DOMAIN lots : lots'[n].exp = e
          BY <2>3, <3>2
        <4>2. SomeLot(lots, e)
          BY <2>3, <4>1 DEF SomeLot
        <4>3. lots'[l].exp = e
          BY <2>3, <3>2
        <4> QED BY <2>5, <4>2, <4>3
      <3> QED BY <2>3, <3>1, <3>2
    <2>7. ASSUME NEW q \in Procs, job'[q].op = "grant", SomeLot(lots', job'[q].of)
          PROVE  job'[q] \in crossed'
      <3>1. q # p /\ job'[q] = job[q] /\ job[q].op = "grant"
        BY <1>0, <2>2, <2>7
      <3>2. PICK l \in DOMAIN lots' : lots'[l].exp = job[q].of
        BY <2>7, <3>1 DEF SomeLot
      <3>3. CASE l \in DOMAIN lots
        <4>1. SomeLot(lots, job[q].of)
          BY <2>3, <3>2, <3>3 DEF SomeLot
        <4> QED BY <2>2, <3>1, <4>1 DEF GrantsCrossed
      <3>4. CASE l = NextLot
        <4>1. PICK d \in Nat : job[q] = OfLot(d)
          BY <3>1 DEF AccountInv, JobsOK, JobOK, Idle, OfLot
        <4>2. job[q].of = e /\ job[q].of = d
          BY <2>3, <3>2, <3>4, <4>1 DEF OfLot
        <4>3. job[q] = job[p]
          BY <2>1, <4>1, <4>2
        <4> QED BY <2>2, <2>4, <3>1, <4>3 DEF PairsCrossed
      <3> QED BY <2>3, <3>3, <3>4
    <2> QED BY <2>6, <2>7 DEF GrantsCrossed
  <1>8. ASSUME NEW p \in Procs, ExpireCommit(p) PROVE GrantsCrossed'
    <2>1. PICK l : l = job[p].lot
      OBVIOUS
    <2>2. DOMAIN lots' = DOMAIN lots /\ \A m \in DOMAIN lots : lots'[m].exp = lots[m].exp
      BY <1>8, <2>1, Expired
    <2>3. PICK left : left = DOMAIN job[p].todo \ {job[p].lot}
      OBVIOUS
    <2>4. PICK work : work = IF left = {} THEN Idle
                             ELSE [op |-> "expire", todo |-> [m \in left |-> job[p].todo[m]]]
      OBVIOUS
    <2>5. work.op \in {"idle", "expire"} /\ job' = [job EXCEPT ![p] = work]
      BY <1>0, <1>8, <2>3, <2>4 DEF ExpireCommit
    <2>6. \A q \in Procs : job'[q].op = "grant" => job'[q] = job[q]
      BY <1>0, <2>5
    <2>7. crossed \subseteq crossed'
      BY <1>8 DEF ExpireCommit
    <2> QED BY <1>1, <2>2, <2>6, <2>7
  <1>9. ASSUME NEW p \in Procs, NEW key \in Keys, PgRefundRead(p, key) PROVE GrantsCrossed'
    <2>1. PICK work : work = OfKey(key)
      OBVIOUS
    <2>2. work.op = "pgRefund" /\ Begin(p, work) /\ lots' = lots
      BY <1>9, <2>1 DEF PgRefundRead, OfKey, balances
    <2>3. /\ crossed \subseteq crossed'
          /\ \A q \in Procs : job'[q].op = "grant" => job'[q] = job[q]
      BY <1>0, <2>2 DEF Begin
    <2> QED BY <1>1, <2>2, <2>3
  <1>10. ASSUME NEW p \in Procs, PgRefundCommit(p) \/ Abort(p) PROVE GrantsCrossed'
    <2>1. job' = [job EXCEPT ![p] = Idle] /\ crossed' = crossed /\ lots' = lots
      BY <1>10 DEF PgRefundCommit, Abort, balances
    <2>2. \A q \in Procs : job'[q].op = "grant" => job'[q] = job[q]
      BY <1>0, <2>1
    <2> QED BY <1>1, <2>1, <2>2
  <1>11. ASSUME NEW p \in Procs, ExpireList(p) PROVE GrantsCrossed'
    <2>1. PICK work : work = [op |-> "expire", todo |-> [l \in Due(lots) |-> lots[l].remaining]]
      OBVIOUS
    <2>2. job' = [job EXCEPT ![p] = work] /\ crossed' = crossed /\ lots' = lots /\ work.op = "expire"
      BY <1>11, <2>1 DEF ExpireList, balances
    <2>3. \A q \in Procs : job'[q].op = "grant" => job'[q] = job[q]
      BY <1>0, <2>2
    <2> QED BY <1>1, <2>2, <2>3
  <1>12. ASSUME NEW p \in Procs, ExpireRead(p) PROVE GrantsCrossed'
    <2>1. PICK l \in DOMAIN job[p].todo :
            job' = [job EXCEPT ![p] = [op |-> "expireLot", todo |-> job[p].todo, lot |-> l,
                                       granted |-> granted]]
      BY <1>12 DEF ExpireRead
    <2>2. PICK work : work = [op |-> "expireLot", todo |-> job[p].todo, lot |-> l, granted |-> granted]
      OBVIOUS
    <2>3. job' = [job EXCEPT ![p] = work] /\ crossed' = crossed /\ lots' = lots /\ work.op = "expireLot"
      BY <1>12, <2>1, <2>2 DEF ExpireRead, balances
    <2>4. \A q \in Procs : job'[q].op = "grant" => job'[q] = job[q]
      BY <1>0, <2>3
    <2> QED BY <1>1, <2>3, <2>4
  <1>13. ASSUME Charge \/ Tick \/ \E key \in Keys : PgCharge(key) PROVE GrantsCrossed'
    <2>1. job' = job /\ crossed' = crossed /\ lots' = lots
      BY <1>13 DEF Charge, Tick, PgCharge, balances
    <2> QED BY <1>1, <2>1
  <1>14. CASE UNCHANGED vars
    <2>1. job' = job /\ crossed' = crossed /\ lots' = lots
      BY <1>14 DEF vars
    <2> QED BY <1>1, <2>1
  <1>15. CASE Next
    BY <1>3, <1>4, <1>5, <1>6, <1>7, <1>8, <1>9, <1>10, <1>11, <1>12, <1>13, <1>15 DEF Next
  <1> QED BY <1>14, <1>15

\* A payment is taken back a second time only by refunds that crossed.
LEMMA RefundsStep ==
    ASSUME AccountInv, PairsCrossed, RefundsCrossed, [Next]_vars
    PROVE  RefundsCrossed'
  <1>0. /\ job = [p \in Procs |-> job[p]] /\ Idle.op = "idle"
        /\ pgRefunds \in [Keys -> Nat] /\ payment = [k \in Keys |-> payment[k]]
    BY DEF AccountInv, JobsOK, Idle, RefundsCrossed
  <1>1. ASSUME payment' = payment, pgRefunds' = pgRefunds, crossed \subseteq crossed',
               \A p \in Procs : job'[p].op = "pgRefund" =>
                   job'[p] = job[p] \/ pgRefunds[job'[p].of] = 0
        PROVE  RefundsCrossed'
    <2>1. ASSUME NEW p \in Procs, job'[p].op = "pgRefund", pgRefunds[job'[p].of] >= 1
          PROVE  job'[p] \in crossed'
      <3>1. job'[p] = job[p]
        BY <1>1, <2>1
      <3> QED BY <1>1, <2>1, <3>1 DEF RefundsCrossed
    <2> QED BY <1>1, <2>1 DEF RefundsCrossed
  <1>2. ASSUME payment' = payment, pgRefunds' = pgRefunds, crossed \subseteq crossed', job' = job
        PROVE  RefundsCrossed'
    BY <1>1, <1>2
  <1>3. ASSUME NEW p \in Procs, NEW work, job' = [job EXCEPT ![p] = work], work.op # "pgRefund",
               payment' = payment, pgRefunds' = pgRefunds, crossed \subseteq crossed'
        PROVE  RefundsCrossed'
    <2>1. \A q \in Procs : job'[q].op = "pgRefund" => job'[q] = job[q]
      BY <1>0, <1>3
    <2> QED BY <1>1, <1>3, <2>1
  <1>4. ASSUME NEW key \in Keys, PgCharge(key) PROVE RefundsCrossed'
    <2>1. /\ payment[key] = NotThere /\ payment' = [payment EXCEPT ![key] = [status |-> "done"]]
          /\ pgRefunds' = pgRefunds /\ crossed' = crossed /\ job' = job
      BY <1>4 DEF PgCharge, KeyIsNew
    <2>2. payment[key].status = "none"
      BY <2>1 DEF NotThere
    <2>3. ~(pgRefunds[key] >= 1)
      BY <2>2 DEF RefundsCrossed
    <2>4. /\ payment'[key] = [status |-> "done"] /\ \A k \in Keys \ {key} : payment'[k] = payment[k]
          /\ payment' = [k \in Keys |-> payment'[k]]
      BY <1>0, <2>1
    <2>5. \A k \in Keys : pgRefunds[k] >= 1 => payment'[k].status = "refunded"
      BY <2>3, <2>4 DEF RefundsCrossed
    <2>6. \A k \in Keys : payment'[k] = [status |-> payment'[k].status]
      BY <2>4 DEF RefundsCrossed
    <2> QED BY <2>1, <2>4, <2>5, <2>6 DEF RefundsCrossed
  <1>5. ASSUME NEW p \in Procs, NEW key \in Keys, PgRefundRead(p, key) PROVE RefundsCrossed'
    <2>1. PICK work : work = OfKey(key)
      OBVIOUS
    <2>2. work.of = key /\ Begin(p, work) /\ payment' = payment /\ pgRefunds' = pgRefunds
      BY <1>5, <2>1 DEF PgRefundRead, OfKey, pg
    <2>3. pgRefunds[key] = 0
      <3>1. payment[key].status = "done"
        BY <1>5 DEF PgRefundRead, Refundable
      <3>2. ~(pgRefunds[key] >= 1) /\ pgRefunds[key] \in Nat
        BY <1>0, <3>1 DEF RefundsCrossed
      <3> QED BY <3>2
    <2>4. /\ crossed \subseteq crossed'
          /\ job'[p] = work /\ \A q \in Procs \ {p} : job'[q] = job[q]
      BY <1>0, <2>2 DEF Begin
    <2>5. \A q \in Procs : job'[q] = job[q] \/ pgRefunds[job'[q].of] = 0
      BY <2>2, <2>3, <2>4
    <2> QED BY <1>1, <2>2, <2>4, <2>5
  <1>6. ASSUME NEW p \in Procs, PgRefundCommit(p) PROVE RefundsCrossed'
    <2>1. PICK key \in Keys : job[p] = OfKey(key)
      BY <1>6 DEF PgRefundCommit, AccountInv, JobsOK, JobOK, Idle, OfKey
    <2>2. job[p].op = "pgRefund" /\ job[p].of = key
      BY <2>1 DEF OfKey
    <2>3. /\ payment' = [payment EXCEPT ![key].status = "refunded"]
          /\ pgRefunds' = [pgRefunds EXCEPT ![key] = pgRefunds[key] + 1]
          /\ crossed' = crossed /\ job' = [job EXCEPT ![p] = Idle]
      BY <1>6, <2>2 DEF PgRefundCommit
    <2>4. /\ pgRefunds' \in [Keys -> Nat] /\ payment' = [k \in Keys |-> payment'[k]]
          /\ pgRefunds'[key] = pgRefunds[key] + 1
          /\ \A k \in Keys \ {key} : pgRefunds'[k] = pgRefunds[k] /\ payment'[k] = payment[k]
          /\ payment'[key] = [payment[key] EXCEPT !.status = "refunded"]
          /\ job'[p] = Idle /\ \A q \in Procs \ {p} : job'[q] = job[q]
      BY <1>0, <2>3
    <2>5. payment'[key] = [status |-> "refunded"]
      <3>1. payment[key] = [status |-> payment[key].status]
        BY DEF RefundsCrossed
      <3> QED BY <2>4, <3>1
    <2>6. \A k \in Keys : pgRefunds'[k] >= 1 => payment'[k].status = "refunded"
      BY <2>4, <2>5 DEF RefundsCrossed
    <2>7. \A k \in Keys : payment'[k] = [status |-> payment'[k].status]
      BY <2>4, <2>5 DEF RefundsCrossed
    <2>8. ASSUME NEW q \in Procs, job'[q].op = "pgRefund", pgRefunds'[job'[q].of] >= 1
          PROVE  job'[q] \in crossed'
      <3>1. q # p /\ job'[q] = job[q]
        BY <1>0, <2>4, <2>8
      <3>2. PICK k \in Keys : job[q] = OfKey(k)
        BY <2>8, <3>1 DEF AccountInv, JobsOK, JobOK, Idle, OfKey
      <3>3. job[q].of = k /\ job[q].op = "pgRefund"
        BY <3>2 DEF OfKey
      <3>4. CASE k = key
        BY <2>1, <2>3, <3>1, <3>2, <3>3, <3>4 DEF PairsCrossed
      <3>5. CASE k # key
        BY <2>3, <2>4, <2>8, <3>1, <3>3, <3>5 DEF RefundsCrossed
      <3> QED BY <3>4, <3>5
    <2>9. ASSUME NEW k \in Keys, pgRefunds'[k] > 1 PROVE OfKey(k) \in crossed'
      <3>1. CASE k = key
        <4>1. pgRefunds[key] >= 1
          BY <1>0, <2>4, <2>9, <3>1
        <4> QED BY <2>1, <2>2, <2>3, <3>1, <4>1 DEF RefundsCrossed
      <3>2. CASE k # key
        BY <2>3, <2>4, <2>9, <3>2 DEF RefundsCrossed
      <3> QED BY <3>1, <3>2
    <2> QED BY <2>4, <2>6, <2>7, <2>8, <2>9 DEF RefundsCrossed
  <1>7. ASSUME NEW p \in Procs, GrantRead(p) PROVE RefundsCrossed'
    <2>1. PICK work : work = OfLot(EndOfPeriod(now))
      OBVIOUS
    <2>2. /\ work.op = "grant" /\ Begin(p, work) /\ payment' = payment /\ pgRefunds' = pgRefunds
      BY <1>7, <2>1 DEF GrantRead, OfLot, pg
    <2>3. job' = [job EXCEPT ![p] = work] /\ crossed \subseteq crossed'
      BY <2>2 DEF Begin
    <2> QED BY <1>3, <2>2, <2>3
  <1>8. ASSUME NEW p \in Procs, GrantCommit(p) \/ Abort(p) PROVE RefundsCrossed'
    <2>1. /\ job' = [job EXCEPT ![p] = Idle] /\ crossed' = crossed
          /\ payment' = payment /\ pgRefunds' = pgRefunds
      BY <1>8 DEF GrantCommit, Abort, pg
    <2> QED BY <1>0, <1>3, <2>1
  <1>9. ASSUME NEW p \in Procs, ExpireList(p) PROVE RefundsCrossed'
    <2>1. PICK work : work = [op |-> "expire", todo |-> [l \in Due(lots) |-> lots[l].remaining]]
      OBVIOUS
    <2>2. /\ job' = [job EXCEPT ![p] = work] /\ crossed' = crossed /\ work.op = "expire"
          /\ payment' = payment /\ pgRefunds' = pgRefunds
      BY <1>9, <2>1 DEF ExpireList, pg
    <2> QED BY <1>3, <2>2
  <1>10. ASSUME NEW p \in Procs, ExpireRead(p) PROVE RefundsCrossed'
    <2>1. PICK l \in DOMAIN job[p].todo :
            job' = [job EXCEPT ![p] = [op |-> "expireLot", todo |-> job[p].todo, lot |-> l,
                                       granted |-> granted]]
      BY <1>10 DEF ExpireRead
    <2>2. PICK work : work = [op |-> "expireLot", todo |-> job[p].todo, lot |-> l, granted |-> granted]
      OBVIOUS
    <2>3. /\ job' = [job EXCEPT ![p] = work] /\ crossed' = crossed /\ work.op = "expireLot"
          /\ payment' = payment /\ pgRefunds' = pgRefunds
      BY <1>10, <2>1, <2>2 DEF ExpireRead, pg
    <2> QED BY <1>3, <2>3
  <1>11. ASSUME NEW p \in Procs, ExpireCommit(p) PROVE RefundsCrossed'
    <2>1. PICK left : left = DOMAIN job[p].todo \ {job[p].lot}
      OBVIOUS
    <2>2. PICK work : work = IF left = {} THEN Idle
                             ELSE [op |-> "expire", todo |-> [m \in left |-> job[p].todo[m]]]
      OBVIOUS
    <2>3. work.op # "pgRefund" /\ job' = [job EXCEPT ![p] = work]
      BY <1>0, <1>11, <2>1, <2>2 DEF ExpireCommit
    <2>4. crossed \subseteq crossed' /\ payment' = payment /\ pgRefunds' = pgRefunds
      BY <1>11 DEF ExpireCommit, pg
    <2> QED BY <1>3, <2>3, <2>4
  <1>12. ASSUME NEW ref \in Refs, Consume(ref) \/ Refund(ref) PROVE RefundsCrossed'
    BY <1>2, <1>12 DEF Consume, Refund, pg
  <1>13. ASSUME EnsureAccount \/ Charge \/ Tick PROVE RefundsCrossed'
    BY <1>2, <1>13 DEF EnsureAccount, Charge, Tick, pg
  <1>14. CASE UNCHANGED vars
    BY <1>2, <1>14 DEF vars
  <1>15. CASE Next
    BY <1>4, <1>5, <1>6, <1>7, <1>8, <1>9, <1>10, <1>11, <1>12, <1>13, <1>15 DEF Next
  <1> QED BY <1>14, <1>15

----------------------------------------------------------------------------
\* The inductive invariant.
LedgerInv ==
    AccountInv /\ HeldWithin /\ Balanced /\ PairsCrossed /\ GrantsCrossed /\ RefundsCrossed

\* What the jobs that do not lock the account can do to it, they do only when another
\* call falls between their reads and their writes (runGrant, runExpire, applyPgRefund).
THEOREM OnlyCrossingsSlip == Spec => []SlipsNeedACrossing
  <1>1. Init => LedgerInv
    <2> SUFFICES ASSUME Init PROVE LedgerInv
      OBVIOUS
    <2>1. AccountInv /\ DOMAIN lots = {} /\ granted = 0
      BY AccountInit DEF Init
    <2>2. HeldWithin
      BY <2>1 DEF HeldWithin
    <2>3. Balanced
      <3>1. SumFunctionOnSet(Remaining(lots), {}) = 0
        BY FS_EmptySet, SumZero
      <3>2. InLots(lots) = 0
        BY <2>1, <3>1 DEF InLots, SumFunction, Remaining
      <3> QED BY <2>1, <3>2 DEF Balanced
    <2>4. PairsCrossed /\ GrantsCrossed
      BY <2>1 DEF Init, Idle, PairsCrossed, GrantsCrossed
    <2>5. RefundsCrossed
      BY DEF Init, Idle, NotThere, RefundsCrossed
    <2> QED BY <2>1, <2>2, <2>3, <2>4, <2>5 DEF LedgerInv
  <1>2. LedgerInv /\ [Next]_vars => LedgerInv'
    BY AccountStep, HeldStep, BalancedStep, PairsStep, GrantsStep, RefundsStep DEF LedgerInv
  <1>3. LedgerInv => SlipsNeedACrossing
    <2> SUFFICES ASSUME LedgerInv PROVE SlipsNeedACrossing
      OBVIOUS
    <2>1. TwiceOnlyWhenCrossed
      BY DEF LedgerInv, GrantsCrossed, RefundsCrossed, TwiceOnlyWhenCrossed, OfLot, OfKey
    <2>2. \A l \in DOMAIN lots : lots[l].remaining \in 0 .. lots[l].amount
      <3> SUFFICES ASSUME NEW l \in DOMAIN lots PROVE lots[l].remaining \in 0 .. lots[l].amount
        OBVIOUS
      <3>1. lots[l].remaining \in Nat /\ lots[l].amount \in Nat
        BY DEF LedgerInv, AccountInv, BalancesOK, LotsInTurn, Lots, Lot
      <3>2. Held(spend, open, l) \in Nat /\ lots[l].remaining + Held(spend, open, l) <= lots[l].amount
        BY HeldFresh DEF LedgerInv, AccountInv, HeldWithin
      <3> QED BY <3>1, <3>2
    <2>3. DriftOnlyWhenStale
      BY <2>2 DEF LedgerInv, Balanced, DriftOnlyWhenStale, GrantedIsLots
    <2> QED BY <2>1, <2>3 DEF SlipsNeedACrossing
  <1> QED BY <1>1, <1>2, <1>3, PTL DEF Spec
=============================================================================
