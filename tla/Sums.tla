--------------------------------- MODULE Sums ---------------------------------
(***************************************************************************)
(* Totals over finite sets, as the proofs about money need them: what      *)
(* adding, removing or changing a member does to a total, how totals       *)
(* compare, and that rows and columns of a table add up to the same.       *)
(*                                                                         *)
(* Each follows by induction over the set in this form: were there a       *)
(* subset that breaks the claim, there would be a smallest one             *)
(* (MinimalSet), and its total unfolds into one of a smaller subset.       *)
(***************************************************************************)
EXTENDS AllocationRule, FiniteSetTheorems, TLAPS

\* The member a total unfolds by, and the function that computes totals.
Pick(s) == CHOOSE x \in s : TRUE

IsSum(g, f, S) ==
    g = [s \in SUBSET S |-> IF s = {} THEN 0 ELSE f[Pick(s)] + g[s \ {Pick(s)}]]

-----------------------------------------------------------------------------
(* A total unfolds. *)

\* What the folds of the community modules make of Total.
LEMMA TotalDef ==
  ASSUME NEW f, NEW S
  PROVE  Total(f, S) = (CHOOSE g : IsSum(g, f, S))[S]
  BY Zenon DEF Total, FoldFunctionOnSet, MapThenFoldSet, IsSum, Pick

\* Induction over a finite set: a family of its subsets has a smallest member.
LEMMA MinimalSet ==
  ASSUME NEW S, IsFiniteSet(S), NEW Bad \in SUBSET (SUBSET S), Bad # {}
  PROVE  \E T \in Bad : \A U \in Bad : U \subseteq T => U = T
<1>1. IsWellFoundedOn(StrictSubsetOrdering(S), SUBSET S)
  BY FS_StrictSubsetOrderingWellFounded, FS_FiniteSubsetsOfFinite
<1>2. PICK T \in Bad : \A U \in Bad : ~ (<<U, T>> \in StrictSubsetOrdering(S))
  BY <1>1, WFMin
<1>3. ASSUME NEW U \in Bad, U \subseteq T PROVE U = T
  BY <1>2, <1>3 DEF StrictSubsetOrdering
<1>4. QED
  BY <1>3

\* Two sums agree where both are defined.
LEMMA SumsAgree ==
  ASSUME NEW f, NEW S, NEW T \in SUBSET S, IsFiniteSet(T),
         NEW g, IsSum(g, f, S), NEW h, IsSum(h, f, T)
  PROVE  g[T] = h[T]
<1> DEFINE Bad == {s \in SUBSET T : g[s] # h[s]}
<1>1. ASSUME Bad # {} PROVE FALSE
  <2>1. PICK s \in Bad : \A u \in Bad : u \subseteq s => u = s
    <3>1. Bad \in SUBSET (SUBSET T)
      OBVIOUS
    <3> HIDE DEF Bad
    <3>2. QED
      BY <1>1, <3>1, MinimalSet
  <2>2. g[s] = IF s = {} THEN 0 ELSE f[Pick(s)] + g[s \ {Pick(s)}]
    BY DEF IsSum
  <2>3. h[s] = IF s = {} THEN 0 ELSE f[Pick(s)] + h[s \ {Pick(s)}]
    BY DEF IsSum
  <2>4. s # {}
    BY <2>2, <2>3
  <2>5. Pick(s) \in s
    BY <2>4 DEF Pick
  <2>6. s \ {Pick(s)} \notin Bad
    BY <2>1, <2>5
  <2>7. g[s \ {Pick(s)}] = h[s \ {Pick(s)}]
    BY <2>6
  <2>8. QED
    BY <2>2, <2>3, <2>4, <2>7
<1>2. QED
  BY <1>1

\* The totals of f exist up to S.
HasSum(f, S) == \E g : IsSum(g, f, S)

\* A total is what some such function yields.
LEMMA SumChosen ==
  ASSUME NEW f, NEW S, HasSum(f, S)
  PROVE  \E g : IsSum(g, f, S) /\ Total(f, S) = g[S]
<1>1. IsSum(CHOOSE g : IsSum(g, f, S), f, S)
  BY DEF HasSum
<1>2. QED
  BY <1>1, TotalDef

\* It unfolds where the functions exist ...
LEMMA SumUnfolds ==
  ASSUME NEW f, NEW S, IsFiniteSet(S), HasSum(f, S), HasSum(f, S \ {Pick(S)})
  PROVE  Total(f, S) = IF S = {} THEN 0 ELSE f[Pick(S)] + Total(f, S \ {Pick(S)})
<1>1. PICK g : IsSum(g, f, S) /\ Total(f, S) = g[S]
  BY SumChosen
<1>2. PICK h : IsSum(h, f, S \ {Pick(S)}) /\ Total(f, S \ {Pick(S)}) = h[S \ {Pick(S)}]
  BY SumChosen
<1>3. g[S \ {Pick(S)}] = h[S \ {Pick(S)}]
  <2>1. S \ {Pick(S)} \in SUBSET S /\ IsFiniteSet(S \ {Pick(S)})
    BY FS_Subset
  <2>2. QED
    BY <1>1, <1>2, <2>1, SumsAgree
<1>4. g[S] = IF S = {} THEN 0 ELSE f[Pick(S)] + g[S \ {Pick(S)}]
  BY <1>1 DEF IsSum
<1>5. QED
  BY <1>1, <1>2, <1>3, <1>4

\* ... which is on every finite set ...
LEMMA SumExists ==
  ASSUME NEW f, NEW S, IsFiniteSet(S)
  PROVE  HasSum(f, S)
<1> DEFINE Bad == {T \in SUBSET S : ~HasSum(f, T)}
<1>1. ASSUME Bad # {} PROVE FALSE
  <2>1. PICK T \in Bad : \A U \in Bad : U \subseteq T => U = T
    <3>1. Bad \in SUBSET (SUBSET S)
      OBVIOUS
    <3> HIDE DEF Bad
    <3>2. QED
      BY <1>1, <3>1, MinimalSet
  <2>2. ASSUME NEW U \in SUBSET T, U # T PROVE HasSum(f, U) /\ IsFiniteSet(U)
    BY <2>1, <2>2, FS_Subset
  <2> DEFINE g == [s \in SUBSET T |-> IF s = {} THEN 0 ELSE f[Pick(s)] + Total(f, s \ {Pick(s)})]
  <2>3. ASSUME NEW s \in SUBSET T, s # {} PROVE g[s \ {Pick(s)}] = Total(f, s \ {Pick(s)})
    <3> DEFINE u == s \ {Pick(s)}
    <3>1. u \in SUBSET T /\ u # T /\ u \ {Pick(u)} \in SUBSET T /\ u \ {Pick(u)} # T
      <4>1. Pick(s) \in s
        BY <2>3 DEF Pick
      <4>2. QED
        BY <4>1
    <3>2. HasSum(f, u) /\ HasSum(f, u \ {Pick(u)}) /\ IsFiniteSet(u)
      BY <2>2, <3>1
    <3> HIDE DEF u
    <3>3. Total(f, u) = IF u = {} THEN 0 ELSE f[Pick(u)] + Total(f, u \ {Pick(u)})
      BY <3>2, SumUnfolds
    <3>4. g[u] = Total(f, u)
      BY <3>1, <3>3
    <3>5. QED
      BY <3>4 DEF u
  <2>4. g = [s \in SUBSET T |-> IF s = {} THEN 0 ELSE f[Pick(s)] + g[s \ {Pick(s)}]]
    BY <2>3
  <2>5. IsSum(g, f, T)
    BY <2>4 DEF IsSum
  <2>6. QED
    BY <2>5 DEF HasSum
<1>2. QED
  BY <1>1

\* ... so that it always unfolds.
LEMMA Unfold ==
  ASSUME NEW f, NEW S, IsFiniteSet(S)
  PROVE  Total(f, S) = IF S = {} THEN 0 ELSE f[Pick(S)] + Total(f, S \ {Pick(S)})
<1>1. IsFiniteSet(S \ {Pick(S)})
  BY FS_Subset
<1>2. QED
  BY <1>1, SumExists, SumUnfolds

\* Nothing adds up to nothing.
LEMMA TotalEmpty == \A f : Total(f, {}) = 0
  BY Unfold, FS_EmptySet

\* A total of integers is one.
LEMMA TotalType ==
  ASSUME NEW S, IsFiniteSet(S), NEW f, \A x \in S : f[x] \in Int
  PROVE  Total(f, S) \in Int
<1> DEFINE Bad == {T \in SUBSET S : Total(f, T) \notin Int}
<1>1. ASSUME Bad # {} PROVE FALSE
  <2>1. PICK T \in Bad : \A U \in Bad : U \subseteq T => U = T
    <3>1. Bad \in SUBSET (SUBSET S)
      OBVIOUS
    <3> HIDE DEF Bad
    <3>2. QED
      BY <1>1, <3>1, MinimalSet
  <2>2. Total(f, T) = IF T = {} THEN 0 ELSE f[Pick(T)] + Total(f, T \ {Pick(T)})
    BY Unfold, FS_Subset
  <2>3. T # {}
    BY <2>2
  <2>4. Pick(T) \in T
    BY <2>3 DEF Pick
  <2>5. Total(f, T \ {Pick(T)}) \in Int
    BY <2>1, <2>4
  <2>6. f[Pick(T)] \in Int
    BY <2>4
  <2>7. QED
    BY <2>2, <2>3, <2>5, <2>6
<1>2. QED
  BY <1>1

\* Any element of the set may be the first to be added.
LEMMA TotalWithout ==
  ASSUME NEW S, IsFiniteSet(S), NEW f, \A x \in S : f[x] \in Int, NEW x \in S
  PROVE  Total(f, S) = f[x] + Total(f, S \ {x})
<1> DEFINE Bad == {T \in SUBSET S : \E y \in T : Total(f, T) # f[y] + Total(f, T \ {y})}
<1>1. ASSUME Bad # {} PROVE FALSE
  <2>1. PICK T \in Bad : \A U \in Bad : U \subseteq T => U = T
    <3>1. Bad \in SUBSET (SUBSET S)
      OBVIOUS
    <3> HIDE DEF Bad
    <3>2. QED
      BY <1>1, <3>1, MinimalSet
  <2>2. PICK y \in T : Total(f, T) # f[y] + Total(f, T \ {y})
    OBVIOUS
  <2> DEFINE p == Pick(T)
  <2>3. p \in T /\ IsFiniteSet(T)
    BY FS_Subset DEF Pick
  <2>4. Total(f, T) = f[p] + Total(f, T \ {p})
    BY <2>2, <2>3, Unfold
  <2>5. p # y
    BY <2>2, <2>4
  <2> HIDE DEF p
  <2>6. Total(f, T \ {p}) = f[y] + Total(f, (T \ {p}) \ {y})
    <3>1. T \ {p} \in SUBSET S /\ T \ {p} # T /\ y \in T \ {p}
      BY <2>3, <2>5
    <3>2. T \ {p} \notin Bad
      BY <2>1, <3>1
    <3>3. QED
      BY <3>1, <3>2
  <2>7. Total(f, T \ {y}) = f[p] + Total(f, (T \ {y}) \ {p})
    <3>1. T \ {y} \in SUBSET S /\ T \ {y} # T /\ p \in T \ {y}
      BY <2>2, <2>3, <2>5
    <3>2. T \ {y} \notin Bad
      BY <2>1, <3>1
    <3>3. QED
      BY <3>1, <3>2
  <2>8. (T \ {p}) \ {y} = (T \ {y}) \ {p}
    OBVIOUS
  <2>9. Total(f, (T \ {p}) \ {y}) \in Int
    <3>1. (T \ {p}) \ {y} \in SUBSET S /\ IsFiniteSet((T \ {p}) \ {y})
      BY FS_Subset
    <3>2. QED
      BY <3>1, TotalType
  <2>10. f[p] \in Int /\ f[y] \in Int
    BY <2>3
  <2> DEFINE rest == Total(f, (T \ {p}) \ {y})
  <2>11. Total(f, T) = f[p] + (f[y] + rest) /\ Total(f, T \ {y}) = f[p] + rest
    BY <2>4, <2>6, <2>7, <2>8
  <2>12. rest \in Int
    BY <2>9
  <2> HIDE DEF rest
  <2>13. Total(f, T) = f[y] + Total(f, T \ {y})
    BY <2>10, <2>11, <2>12
  <2>14. QED
    BY <2>2, <2>13
<1>2. QED
  BY <1>1
-----------------------------------------------------------------------------
(* What the proofs about the modules use. *)

\* One member more.
LEMMA TotalWith ==
  ASSUME NEW S, IsFiniteSet(S), NEW x, x \notin S, NEW f, \A y \in S \cup {x} : f[y] \in Int
  PROVE  Total(f, S \cup {x}) = f[x] + Total(f, S)
<1>1. IsFiniteSet(S \cup {x}) /\ (S \cup {x}) \ {x} = S
  BY FS_AddElement
<1>2. QED
  BY <1>1, TotalWithout

\* Only the values on the set count.
LEMMA TotalSame ==
  ASSUME NEW S, IsFiniteSet(S), NEW f, NEW g, \A x \in S : f[x] = g[x]
  PROVE  Total(f, S) = Total(g, S)
<1> DEFINE Bad == {T \in SUBSET S : Total(f, T) # Total(g, T)}
<1>1. ASSUME Bad # {} PROVE FALSE
  <2>1. PICK T \in Bad : \A U \in Bad : U \subseteq T => U = T
    <3>1. Bad \in SUBSET (SUBSET S)
      OBVIOUS
    <3> HIDE DEF Bad
    <3>2. QED
      BY <1>1, <3>1, MinimalSet
  <2>2. /\ Total(f, T) = IF T = {} THEN 0 ELSE f[Pick(T)] + Total(f, T \ {Pick(T)})
        /\ Total(g, T) = IF T = {} THEN 0 ELSE g[Pick(T)] + Total(g, T \ {Pick(T)})
    BY Unfold, FS_Subset
  <2>3. T # {}
    BY <2>2
  <2>4. Pick(T) \in T
    BY <2>3 DEF Pick
  <2>5. Total(f, T \ {Pick(T)}) = Total(g, T \ {Pick(T)})
    BY <2>1, <2>4
  <2>6. f[Pick(T)] = g[Pick(T)]
    BY <2>4
  <2>7. QED
    BY <2>2, <2>5, <2>6
<1>2. QED
  BY <1>1

\* One value changes, and the total by as much.
LEMMA TotalChanged ==
  ASSUME NEW S, IsFiniteSet(S), NEW f, NEW g, NEW x \in S,
         \A y \in S : f[y] \in Int /\ g[y] \in Int,
         \A y \in S \ {x} : g[y] = f[y]
  PROVE  Total(g, S) = Total(f, S) + (g[x] - f[x])
<1>1. IsFiniteSet(S \ {x})
  BY FS_Subset
<1>2. Total(f, S \ {x}) = Total(g, S \ {x}) /\ Total(f, S \ {x}) \in Int
  BY <1>1, TotalSame, TotalType
<1>3. Total(f, S) = f[x] + Total(f, S \ {x}) /\ Total(g, S) = g[x] + Total(g, S \ {x})
  BY TotalWithout
<1>4. QED
  BY <1>2, <1>3

\* A total of sums is the sum of the totals.
LEMMA TotalOfSums ==
  ASSUME NEW S, IsFiniteSet(S), NEW f, NEW g, NEW h,
         \A x \in S : f[x] \in Int /\ g[x] \in Int /\ h[x] = f[x] + g[x]
  PROVE  Total(h, S) = Total(f, S) + Total(g, S)
<1> DEFINE Bad == {T \in SUBSET S : Total(h, T) # Total(f, T) + Total(g, T)}
<1>1. ASSUME Bad # {} PROVE FALSE
  <2>1. PICK T \in Bad : \A U \in Bad : U \subseteq T => U = T
    <3>1. Bad \in SUBSET (SUBSET S)
      OBVIOUS
    <3> HIDE DEF Bad
    <3>2. QED
      BY <1>1, <3>1, MinimalSet
  <2> DEFINE p == Pick(T)
             rest == T \ {p}
  <2>2. /\ Total(f, T) = IF T = {} THEN 0 ELSE f[p] + Total(f, rest)
        /\ Total(g, T) = IF T = {} THEN 0 ELSE g[p] + Total(g, rest)
        /\ Total(h, T) = IF T = {} THEN 0 ELSE h[p] + Total(h, rest)
    BY Unfold, FS_Subset
  <2>3. T # {}
    BY <2>2
  <2>4. p \in T
    BY <2>3 DEF Pick
  <2>5. Total(h, rest) = Total(f, rest) + Total(g, rest)
    BY <2>1, <2>4
  <2>6. rest \in SUBSET S /\ IsFiniteSet(rest)
    BY FS_Subset
  <2>7. f[p] \in Int /\ g[p] \in Int /\ h[p] = f[p] + g[p]
    BY <2>4
  <2> HIDE DEF p, rest
  <2>8. Total(f, rest) \in Int /\ Total(g, rest) \in Int
    BY <2>6, TotalType
  <2>9. Total(h, T) = Total(f, T) + Total(g, T)
    BY <2>2, <2>3, <2>5, <2>7, <2>8
  <2>10. QED
    BY <2>9
<1>2. QED
  BY <1>1

\* A total is no more than another whose values are.
LEMMA TotalAtMost ==
  ASSUME NEW S, IsFiniteSet(S), NEW f, NEW g,
         \A x \in S : f[x] \in Int /\ g[x] \in Int /\ f[x] <= g[x]
  PROVE  Total(f, S) <= Total(g, S)
<1> DEFINE Bad == {T \in SUBSET S : ~(Total(f, T) <= Total(g, T))}
<1>1. ASSUME Bad # {} PROVE FALSE
  <2>1. PICK T \in Bad : \A U \in Bad : U \subseteq T => U = T
    <3>1. Bad \in SUBSET (SUBSET S)
      OBVIOUS
    <3> HIDE DEF Bad
    <3>2. QED
      BY <1>1, <3>1, MinimalSet
  <2> DEFINE p == Pick(T)
             rest == T \ {p}
  <2>2. /\ Total(f, T) = IF T = {} THEN 0 ELSE f[p] + Total(f, rest)
        /\ Total(g, T) = IF T = {} THEN 0 ELSE g[p] + Total(g, rest)
    BY Unfold, FS_Subset
  <2>3. T # {}
    BY <2>2
  <2>4. p \in T
    BY <2>3 DEF Pick
  <2>5. Total(f, rest) <= Total(g, rest)
    BY <2>1, <2>4
  <2>6. rest \in SUBSET S /\ IsFiniteSet(rest)
    BY FS_Subset
  <2>7. f[p] \in Int /\ g[p] \in Int /\ f[p] <= g[p]
    BY <2>4
  <2> HIDE DEF p, rest
  <2>8. Total(f, rest) \in Int /\ Total(g, rest) \in Int
    BY <2>6, TotalType
  <2>9. Total(f, T) <= Total(g, T)
    BY <2>2, <2>3, <2>5, <2>7, <2>8
  <2>10. QED
    BY <2>9
<1>2. QED
  BY <1>1

\* Zeros add up to nothing.
LEMMA TotalOfZeros ==
  ASSUME NEW S, IsFiniteSet(S), NEW f, \A x \in S : f[x] = 0
  PROVE  Total(f, S) = 0
<1> DEFINE Bad == {T \in SUBSET S : Total(f, T) # 0}
<1>1. ASSUME Bad # {} PROVE FALSE
  <2>1. PICK T \in Bad : \A U \in Bad : U \subseteq T => U = T
    <3>1. Bad \in SUBSET (SUBSET S)
      OBVIOUS
    <3> HIDE DEF Bad
    <3>2. QED
      BY <1>1, <3>1, MinimalSet
  <2>2. Total(f, T) = IF T = {} THEN 0 ELSE f[Pick(T)] + Total(f, T \ {Pick(T)})
    BY Unfold, FS_Subset
  <2>3. T # {}
    BY <2>2
  <2>4. Pick(T) \in T
    BY <2>3 DEF Pick
  <2>5. Total(f, T \ {Pick(T)}) = 0 /\ f[Pick(T)] = 0
    BY <2>1, <2>4
  <2>6. QED
    BY <2>2, <2>5
<1>2. QED
  BY <1>1

\* A total of naturals is one, and no less than any of them.
LEMMA TotalOfNaturals ==
  ASSUME NEW S, IsFiniteSet(S), NEW f, \A x \in S : f[x] \in Nat
  PROVE  Total(f, S) \in Nat /\ \A x \in S : f[x] <= Total(f, S)
<1> DEFINE zeros == [x \in S |-> 0]
<1>1. ASSUME NEW T \in SUBSET S PROVE Total(f, T) \in Nat
  <2>1. IsFiniteSet(T)
    BY FS_Subset
  <2>2. Total(zeros, T) = 0
    BY <2>1, TotalOfZeros
  <2>3. \A x \in T : zeros[x] \in Int /\ f[x] \in Int /\ zeros[x] <= f[x]
    OBVIOUS
  <2> HIDE DEF zeros
  <2>4. Total(f, T) \in Int /\ Total(zeros, T) <= Total(f, T)
    BY <2>1, <2>3, TotalType, TotalAtMost
  <2>5. QED
    BY <2>2, <2>4
<1>2. ASSUME NEW x \in S PROVE f[x] <= Total(f, S)
  <2>1. Total(f, S) = f[x] + Total(f, S \ {x})
    BY TotalWithout
  <2>2. Total(f, S \ {x}) \in Nat /\ f[x] \in Nat
    BY <1>1
  <2>3. QED
    BY <2>1, <2>2
<1>3. QED
  BY <1>1, <1>2

\* Of natural values a part is no more than the whole.
LEMMA TotalOfPart ==
  ASSUME NEW S, IsFiniteSet(S), NEW T \in SUBSET S, NEW f, \A x \in S : f[x] \in Nat
  PROVE  Total(f, T) <= Total(f, S)
<1> DEFINE Bad == {U \in SUBSET (S \ T) : ~(Total(f, T) <= Total(f, T \cup U))}
<1>1. ASSUME Bad # {} PROVE FALSE
  <2>1. PICK U \in Bad : \A V \in Bad : V \subseteq U => V = U
    <3>1. Bad \in SUBSET (SUBSET (S \ T)) /\ IsFiniteSet(S \ T)
      BY FS_Subset
    <3> HIDE DEF Bad
    <3>2. QED
      BY <1>1, <3>1, MinimalSet
  <2>2. IsFiniteSet(T) /\ Total(f, T) \in Nat
    <3>1. IsFiniteSet(T) /\ \A x \in T : f[x] \in Nat
      BY FS_Subset
    <3>2. QED
      BY <3>1, TotalOfNaturals
  <2>3. U # {}
    <3>1. T \cup {} = T
      OBVIOUS
    <3>2. QED
      BY <2>2, <3>1
  <2>4. PICK x \in U : TRUE
    BY <2>3
  <2>5. Total(f, T) <= Total(f, T \cup (U \ {x}))
    <3>1. U \ {x} \in SUBSET (S \ T) /\ U \ {x} \subseteq U /\ U \ {x} # U
      BY <2>4
    <3>2. U \ {x} \notin Bad
      BY <2>1, <3>1
    <3>3. QED
      BY <3>1, <3>2
  <2> DEFINE less == T \cup (U \ {x})
  <2>6. /\ less \in SUBSET S /\ x \in S /\ x \notin less
        /\ T \cup U = less \cup {x}
    BY <2>4
  <2>7. IsFiniteSet(less) /\ (\A y \in less \cup {x} : f[y] \in Nat)
    BY <2>6, FS_Subset
  <2> HIDE DEF less
  <2>8. Total(f, less \cup {x}) = f[x] + Total(f, less)
    <3>1. x \notin less /\ IsFiniteSet(less) /\ \A y \in less \cup {x} : f[y] \in Int
      BY <2>6, <2>7
    <3>2. QED
      BY <3>1, TotalWith
  <2>9. Total(f, less) \in Nat /\ f[x] \in Nat
    <3>1. IsFiniteSet(less) /\ \A y \in less : f[y] \in Nat
      BY <2>7
    <3>2. QED
      BY <2>7, <3>1, TotalOfNaturals
  <2>10. Total(f, T) <= Total(f, T \cup U)
    <3>1. Total(f, T) <= Total(f, less)
      BY <2>5 DEF less
    <3>2. Total(f, T \cup U) = f[x] + Total(f, less)
      BY <2>6, <2>8
    <3>3. QED
      BY <2>2, <2>9, <3>1, <3>2
  <2>11. QED
    BY <2>10
<1>2. T \cup (S \ T) = S /\ S \ T \notin Bad
  BY <1>1
<1>3. QED
  BY <1>2

\* Rows first or columns first.
LEMMA TotalExchanged ==
  ASSUME NEW R, IsFiniteSet(R), NEW C, IsFiniteSet(C), NEW m,
         \A r \in R, c \in C : m[r][c] \in Int
  PROVE  Total([r \in R |-> Total(m[r], C)], R)
           = Total([c \in C |-> Total([r \in R |-> m[r][c]], R)], C)
<1> DEFINE Row(r)      == Total(m[r], C)
           Rows        == [r \in R |-> Row(r)]
           Column(c)   == [r \in R |-> m[r][c]]
           Columns(T)  == [c \in C |-> Total(Column(c), T)]
           Bad         == {T \in SUBSET R : Total(Rows, T) # Total(Columns(T), C)}
<1>1. ASSUME NEW r \in R PROVE Rows[r] = Row(r) /\ Row(r) \in Int
  BY TotalType
<1>2. ASSUME NEW T \in SUBSET R, NEW c \in C PROVE Columns(T)[c] = Total(Column(c), T) /\ Columns(T)[c] \in Int
  <2>1. IsFiniteSet(T) /\ \A r \in T : Column(c)[r] \in Int
    BY FS_Subset
  <2>2. Total(Column(c), T) \in Int
    BY <2>1, TotalType
  <2>3. QED
    BY <2>2
<1>3. ASSUME Bad # {} PROVE FALSE
  <2>1. PICK T \in Bad : \A U \in Bad : U \subseteq T => U = T
    <3>1. Bad \in SUBSET (SUBSET R)
      OBVIOUS
    <3> HIDE DEF Bad
    <3>2. QED
      BY <1>3, <3>1, MinimalSet
  <2>2. T # {}
    <3>1. ASSUME NEW c \in C PROVE Columns({})[c] = 0
      BY TotalEmpty
    <3>2. Total(Columns({}), C) = 0
      <4> HIDE DEF Columns
      <4> QED BY <3>1, TotalOfZeros
    <3>3. Total(Rows, {}) = 0
      BY TotalEmpty
    <3>4. QED
      BY <3>2, <3>3
  <2>3. PICK x \in T : TRUE
    BY <2>2
  <2> DEFINE U == T \ {x}
  <2>4. U \in SUBSET R /\ x \in R /\ x \notin U /\ T = U \cup {x} /\ U # T
    BY <2>3
  <2>5. IsFiniteSet(U)
    BY <2>4, FS_Subset
  <2>6. Total(Rows, U) = Total(Columns(U), C)
    BY <2>1, <2>4
  <2> HIDE DEF U
  <2>7. Total(Rows, T) = Rows[x] + Total(Rows, U)
    <3>1. \A y \in U \cup {x} : Rows[y] \in Int
      BY <1>1, <2>4
    <3> HIDE DEF Rows
    <3>2. QED
      BY <2>4, <2>5, <3>1, TotalWith
  <2>8. ASSUME NEW c \in C PROVE Columns(T)[c] = m[x][c] + Columns(U)[c]
    <3>1. (\A y \in U \cup {x} : Column(c)[y] \in Int) /\ Column(c)[x] = m[x][c]
      BY <2>4
    <3> HIDE DEF Column
    <3>2. Total(Column(c), T) = Column(c)[x] + Total(Column(c), U)
      BY <2>4, <2>5, <3>1, TotalWith
    <3>3. QED
      BY <1>2, <2>4, <3>1, <3>2
  <2>9. Total(Columns(T), C) = Total(m[x], C) + Total(Columns(U), C)
    <3>1. \A c \in C : m[x][c] \in Int /\ Columns(U)[c] \in Int /\ Columns(T)[c] = m[x][c] + Columns(U)[c]
      BY <1>2, <2>4, <2>8
    <3> HIDE DEF Columns
    <3>2. QED
      BY <3>1, TotalOfSums
  <2>10. Rows[x] = Total(m[x], C)
    BY <2>4
  <2>11. Total(Rows, T) = Total(Columns(T), C)
    BY <2>6, <2>7, <2>9, <2>10
  <2>12. QED
    BY <2>11
<1>4. Total(Rows, R) = Total(Columns(R), C)
  BY <1>3
<1>5. QED
  BY <1>4

\* The total of two sets with nothing in common.
LEMMA TotalOfUnion ==
  ASSUME NEW A, IsFiniteSet(A), NEW B, IsFiniteSet(B), A \cap B = {},
         NEW f, \A x \in A \cup B : f[x] \in Int
  PROVE  Total(f, A \cup B) = Total(f, A) + Total(f, B)
<1> DEFINE Bad == {T \in SUBSET B : Total(f, A \cup T) # Total(f, A) + Total(f, T)}
<1>0. Total(f, A) \in Int
  BY TotalType
<1>1. ASSUME Bad # {} PROVE FALSE
  <2>1. PICK T \in Bad : \A U \in Bad : U \subseteq T => U = T
    <3>1. Bad \in SUBSET (SUBSET B)
      OBVIOUS
    <3> HIDE DEF Bad
    <3>2. QED
      BY <1>1, <3>1, MinimalSet
  <2>2. T # {}
    <3>1. A \cup {} = A
      OBVIOUS
    <3>2. QED
      BY <1>0, <3>1, TotalEmpty
  <2>3. PICK x \in T : TRUE
    BY <2>2
  <2> DEFINE U == T \ {x}
  <2>4. /\ U \in SUBSET B /\ U # T /\ x \notin U /\ x \notin A \cup U
        /\ T = U \cup {x} /\ A \cup T = (A \cup U) \cup {x}
    BY <2>3
  <2>5. IsFiniteSet(U) /\ IsFiniteSet(A \cup U)
    BY <2>4, FS_Subset, FS_Union
  <2>6. Total(f, A \cup U) = Total(f, A) + Total(f, U)
    BY <2>1, <2>4
  <2> HIDE DEF U
  <2>7. /\ Total(f, A \cup T) = f[x] + Total(f, A \cup U)
        /\ Total(f, T) = f[x] + Total(f, U)
    <3>1. (\A y \in (A \cup U) \cup {x} : f[y] \in Int) /\ \A y \in U \cup {x} : f[y] \in Int
      BY <2>3, <2>4
    <3>2. Total(f, (A \cup U) \cup {x}) = f[x] + Total(f, A \cup U)
      BY <2>4, <2>5, <3>1, TotalWith
    <3>3. Total(f, U \cup {x}) = f[x] + Total(f, U)
      BY <2>4, <2>5, <3>1, TotalWith
    <3>4. QED
      BY <2>4, <3>2, <3>3
  <2>8. Total(f, U) \in Int /\ f[x] \in Int
    BY <2>3, <2>4, <2>5, TotalType
  <2>9. Total(f, A \cup T) = Total(f, A) + Total(f, T)
    BY <1>0, <2>6, <2>7, <2>8
  <2>10. QED
    BY <2>9
<1>2. B \notin Bad
  BY <1>1
<1>3. QED
  BY <1>2

\* The total of a part, as a total over the whole.
LEMMA TotalMasked ==
  ASSUME NEW S, IsFiniteSet(S), NEW T \in SUBSET S, NEW f, \A x \in S : f[x] \in Int
  PROVE  Total([x \in S |-> IF x \in T THEN f[x] ELSE 0], S) = Total(f, T)
<1> DEFINE g == [x \in S |-> IF x \in T THEN f[x] ELSE 0]
<1>1. /\ \A x \in S : g[x] \in Int
      /\ \A x \in T : g[x] = f[x]
      /\ \A x \in S \ T : g[x] = 0
      /\ \A x \in T : f[x] \in Int
  OBVIOUS
<1> HIDE DEF g
<1>2. IsFiniteSet(T) /\ IsFiniteSet(S \ T) /\ T \cup (S \ T) = S /\ T \cap (S \ T) = {}
  BY FS_Subset
<1>3. Total(g, T \cup (S \ T)) = Total(g, T) + Total(g, S \ T)
  BY <1>1, <1>2, TotalOfUnion
<1>4. Total(g, T) = Total(f, T) /\ Total(g, S \ T) = 0 /\ Total(f, T) \in Int
  BY <1>1, <1>2, TotalSame, TotalOfZeros, TotalType
<1>5. Total(g, S) = Total(f, T)
  BY <1>2, <1>3, <1>4
<1>6. QED
  BY <1>5 DEF g

\* The totals of the kinds add up to the total.
LEMMA TotalByKind ==
  ASSUME NEW S, IsFiniteSet(S), NEW C, IsFiniteSet(C), NEW kind \in [S -> C],
         NEW f, \A x \in S : f[x] \in Int
  PROVE  Total([c \in C |-> Total(f, {x \in S : kind[x] = c})], C) = Total(f, S)
<1> DEFINE m         == [x \in S |-> [c \in C |-> IF kind[x] = c THEN f[x] ELSE 0]]
           Of(c)     == {x \in S : kind[x] = c}
           Column(c) == [x \in S |-> m[x][c]]
           rows      == [x \in S |-> Total(m[x], C)]
           columns   == [c \in C |-> Total(Column(c), S)]
<1>1. Total(rows, S) = Total(columns, C)
  <2>1. \A x \in S, c \in C : m[x][c] \in Int
    OBVIOUS
  <2> HIDE DEF m
  <2>2. Total([x \in S |-> Total(m[x], C)], S) = Total([c \in C |-> Total([x \in S |-> m[x][c]], S)], C)
    BY <2>1, TotalExchanged, ZenonT(60)
  <2>3. QED
    BY <2>2
<1>2. ASSUME NEW x \in S PROVE rows[x] = f[x]
  <2> DEFINE only == [c \in C |-> f[x]]
  <2>1. Total([c \in C |-> IF c \in {kind[x]} THEN only[c] ELSE 0], C) = Total(only, {kind[x]})
    <3>1. {kind[x]} \in SUBSET C /\ \A c \in C : only[c] \in Int
      OBVIOUS
    <3> HIDE DEF only
    <3>2. QED
      BY <3>1, TotalMasked
  <2>2. m[x] = [c \in C |-> IF c \in {kind[x]} THEN only[c] ELSE 0]
    OBVIOUS
  <2>3. Total(only, {} \cup {kind[x]}) = only[kind[x]] + Total(only, {})
    <3>1. IsFiniteSet({}) /\ kind[x] \notin {} /\ \A c \in {} \cup {kind[x]} : only[c] \in Int
      BY FS_EmptySet
    <3> HIDE DEF only
    <3>2. QED
      BY <3>1, TotalWith
  <2>4. {} \cup {kind[x]} = {kind[x]} /\ only[kind[x]] = f[x] /\ f[x] \in Int
    OBVIOUS
  <2>5. rows[x] = Total(m[x], C)
    OBVIOUS
  <2> HIDE DEF m, only, rows
  <2>6. QED
    BY <2>1, <2>2, <2>3, <2>4, <2>5, TotalEmpty
<1>3. ASSUME NEW c \in C PROVE columns[c] = Total(f, Of(c))
  <2>1. Total([x \in S |-> IF x \in Of(c) THEN f[x] ELSE 0], S) = Total(f, Of(c))
    <3>1. Of(c) \in SUBSET S
      OBVIOUS
    <3> HIDE DEF Of
    <3>2. QED
      BY <3>1, TotalMasked
  <2>2. Column(c) = [x \in S |-> IF x \in Of(c) THEN f[x] ELSE 0]
    OBVIOUS
  <2>3. QED
    BY <2>1, <2>2
<1>4. Total(rows, S) = Total(f, S)
  <2> HIDE DEF rows
  <2> QED BY <1>2, TotalSame
<1>5. columns = [c \in C |-> Total(f, Of(c))]
  BY <1>3
<1>6. QED
  BY <1>1, <1>4, <1>5
-----------------------------------------------------------------------------
(* What an allocation gives. *)

\* The slots up to one of them.
LEMMA FirstSlots ==
  ASSUME NEW n \in Nat, NEW k \in 0..n
  PROVE  1..k \subseteq 1..n /\ IsFiniteSet(1..k)
  BY FS_Interval

\* A range tells its end.
LEMMA SameEnd ==
  ASSUME NEW j \in Nat, NEW k \in Nat, 1..j = 1..k
  PROVE  j = k
<1>1. CASE j < k
  BY <1>1, k \in 1..k, ~(k \in 1..j)
<1>2. CASE k < j
  BY <1>2, j \in 1..j, ~(j \in 1..k)
<1>3. QED
  BY <1>1, <1>2

\* An allocation gives no slot less than nothing or more than it owes.
LEMMA GreedyFits ==
  ASSUME NEW n \in Nat, NEW owing \in [1..n -> Int], \A s \in 1..n : owing[s] >= 0,
         NEW amount \in Nat
  PROVE  /\ Greedy(owing, amount) \in [1..n -> Nat]
         /\ \A s \in 1..n : Greedy(owing, amount)[s] <= owing[s]
<1>1. ASSUME NEW s \in 1..n
      PROVE  Greedy(owing, amount)[s] \in Nat /\ Greedy(owing, amount)[s] <= owing[s]
  <2> DEFINE left  == amount - Total(owing, 1..(s - 1))
             given == Greedy(owing, amount)[s]
             owed  == owing[s]
  <2>1. left \in Int
    <3>1. IsFiniteSet(1..(s - 1)) /\ \A x \in 1..(s - 1) : owing[x] \in Int
      BY FirstSlots, s - 1 \in 0..n
    <3>2. Total(owing, 1..(s - 1)) \in Int
      BY <3>1, TotalType
    <3>3. QED
      BY <3>2
  <2>2. given = CASE left <= 0 -> 0 [] left > 0 /\ owed > left -> left [] OTHER -> owed
    BY DEF Greedy
  <2>3. owed \in Int /\ owed >= 0
    OBVIOUS
  <2> HIDE DEF left, given, owed
  <2>4. given \in Nat /\ given <= owed
    BY <2>1, <2>2, <2>3
  <2>5. QED
    BY <2>4 DEF given, owed
<1>2. DOMAIN Greedy(owing, amount) = 1..n /\ Greedy(owing, amount) = [s \in 1..n |-> Greedy(owing, amount)[s]]
  BY DEF Greedy
<1>3. QED
  BY <1>1, <1>2

\* An allocation gives all of the amount, or all that is owed when that is less.
LEMMA GreedyTotal ==
  ASSUME NEW n \in Nat, NEW owing \in [1..n -> Nat], NEW amount \in Nat
  PROVE  Total(Greedy(owing, amount), 1..n) =
           IF Total(owing, 1..n) <= amount THEN Total(owing, 1..n) ELSE amount
<1> DEFINE lines   == Greedy(owing, amount)
           Sum(k)  == Total(owing, 1..k)
           Given(k) == Total(lines, 1..k)
           Right(k) == Given(k) = IF Sum(k) <= amount THEN Sum(k) ELSE amount
           Bad     == {T \in SUBSET (1..n) : \E k \in 0..n : T = 1..k /\ ~Right(k)}
<1>1. lines \in [1..n -> Nat]
  BY GreedyFits
<1>2. ASSUME NEW k \in 1..n
      PROVE  /\ Sum(k) = owing[k] + Sum(k - 1) /\ Sum(k - 1) \in Nat
             /\ Given(k) = lines[k] + Given(k - 1) /\ Given(k - 1) \in Nat
             /\ owing[k] \in Nat
  <2>1. /\ IsFiniteSet(1..k) /\ 1..k \subseteq 1..n /\ k \in 1..k /\ 1..(k - 1) = (1..k) \ {k}
        /\ IsFiniteSet(1..(k - 1)) /\ 1..(k - 1) \subseteq 1..n
    BY FirstSlots, k \in 0..n, k - 1 \in 0..n
  <2> HIDE DEF lines
  <2>2. \A x \in 1..n : owing[x] \in Nat /\ lines[x] \in Nat
    BY <1>1
  <2>3. Sum(k) = owing[k] + Total(owing, (1..k) \ {k}) /\ Given(k) = lines[k] + Total(lines, (1..k) \ {k})
    <3>1. k \in 1..k /\ IsFiniteSet(1..k) /\ \A x \in 1..k : owing[x] \in Int /\ lines[x] \in Int
      BY <2>1, <2>2
    <3>2. Total(owing, 1..k) = owing[k] + Total(owing, (1..k) \ {k})
      BY <3>1, TotalWithout
    <3>3. Total(lines, 1..k) = lines[k] + Total(lines, (1..k) \ {k})
      BY <3>1, TotalWithout
    <3>4. QED
      BY <3>2, <3>3
  <2>4. Sum(k - 1) \in Nat /\ Given(k - 1) \in Nat
    BY <2>1, <2>2, TotalOfNaturals
  <2>5. QED
    BY <2>1, <2>2, <2>3, <2>4
<1>3. ASSUME NEW k \in 1..n
      PROVE  lines[k] = CASE amount - Sum(k - 1) <= 0 -> 0
                          [] amount - Sum(k - 1) > 0 /\ owing[k] > amount - Sum(k - 1) -> amount - Sum(k - 1)
                          [] OTHER -> owing[k]
  BY DEF Greedy
<1>4. ASSUME NEW k \in 1..n, Right(k - 1) PROVE Right(k)
  <2> DEFINE s0 == Sum(k - 1)
             s1 == Sum(k)
             g0 == Given(k - 1)
             g1 == Given(k)
             l  == lines[k]
             o  == owing[k]
  <2>1. s1 = o + s0 /\ s0 \in Nat /\ g1 = l + g0 /\ g0 \in Nat /\ o \in Nat
    BY <1>2
  <2>2. l = CASE amount - s0 <= 0 -> 0
              [] amount - s0 > 0 /\ o > amount - s0 -> amount - s0
              [] OTHER -> o
    BY <1>3
  <2>3. g0 = IF s0 <= amount THEN s0 ELSE amount
    BY <1>4
  <2> HIDE DEF s0, s1, g0, g1, l, o
  <2>4. g1 = IF s1 <= amount THEN s1 ELSE amount
    BY <2>1, <2>2, <2>3
  <2>5. QED
    BY <2>4 DEF g1, s1
<1>5. ASSUME Bad # {} PROVE FALSE
  <2>1. PICK T \in Bad : \A U \in Bad : U \subseteq T => U = T
    <3> DEFINE Slots == 1..n
    <3>1. Bad \in SUBSET (SUBSET Slots) /\ IsFiniteSet(Slots)
      BY FirstSlots, n \in 0..n
    <3> HIDE DEF Bad, Slots
    <3>2. QED
      BY <1>5, <3>1, MinimalSet
  <2>2. PICK k \in 0..n : T = 1..k /\ ~Right(k)
    BY <2>1
  <2>3. k # 0
    <3>1. 1..0 = {}
      OBVIOUS
    <3>2. Sum(0) = 0 /\ Given(0) = 0
      <4> HIDE DEF lines
      <4> QED BY <3>1, TotalEmpty
    <3>3. Right(0)
      BY <3>2
    <3>4. QED
      BY <2>2, <3>3
  <2>4. k \in 1..n /\ k - 1 \in 0..n /\ k - 1 \in Nat /\ k \in Nat
    BY <2>3
  <2>5. ~Right(k - 1)
    BY <1>4, <2>2, <2>4
  <2>6. 1..(k - 1) \in Bad
    <3>1. 1..(k - 1) \in SUBSET (1..n)
      BY <2>4, FirstSlots
    <3> HIDE DEF Right
    <3>2. QED
      BY <2>4, <2>5, <3>1
  <2>7. 1..(k - 1) \subseteq 1..k
    BY <2>4
  <2>8. 1..(k - 1) = 1..k
    <3> HIDE DEF Bad
    <3> QED BY <2>1, <2>2, <2>6, <2>7
  <2>9. QED
    BY <2>4, <2>8, SameEnd
<1>6. Right(n)
  <2>1. 1..n \in SUBSET (1..n) /\ n \in 0..n
    OBVIOUS
  <2> HIDE DEF Right
  <2>2. QED
    BY <1>5, <2>1
<1>7. QED
  BY <1>6

\* No other lines spend an amount in the order of priority: those that fit what is owed,
\* that give a slot nothing before the slots ahead have all, and that leave a rest only
\* when everything owed is paid, are the lines of the allocation.
LEMMA GreedyOnly ==
  ASSUME NEW n \in Nat, NEW owing \in [1..n -> Nat], NEW lines \in [1..n -> Nat],
         NEW rest \in Nat, NEW amount, amount = rest + Total(lines, 1..n),
         \A s \in 1..n : lines[s] <= owing[s],
         \A r, s \in 1..n : r < s /\ lines[s] > 0 => lines[r] = owing[r],
         rest > 0 => \A s \in 1..n : lines[s] = owing[s]
  PROVE  \A s \in 1..n : lines[s] = Greedy(owing, amount)[s]
<1> SUFFICES ASSUME NEW s \in 1..n PROVE lines[s] = Greedy(owing, amount)[s]
  OBVIOUS
<1> DEFINE ahead == 1..(s - 1)
           after == (s + 1)..n
           left  == amount - Total(owing, ahead)
<1>1. /\ IsFiniteSet(ahead) /\ IsFiniteSet(after) /\ IsFiniteSet(ahead \cup after)
      /\ ahead \cap after = {} /\ s \notin ahead \cup after
      /\ 1..n = (ahead \cup after) \cup {s} /\ ahead \subseteq 1..n /\ after \subseteq 1..n
  <2>1. IsFiniteSet(ahead) /\ IsFiniteSet(after)
    BY FS_Interval, s - 1 \in Int, s + 1 \in Int, n \in Int, 1 \in Int
  <2>2. IsFiniteSet(ahead \cup after)
    BY <2>1, FS_Union
  <2>3. ahead \subseteq 1..n /\ after \subseteq 1..n /\ ahead \cap after = {} /\ s \notin ahead \cup after
    OBVIOUS
  <2>4. \A x \in 1..n : x \in ahead \/ x \in after \/ x = s
    OBVIOUS
  <2> HIDE DEF ahead, after
  <2>5. QED
    BY <2>1, <2>2, <2>3, <2>4
<1> HIDE DEF ahead, after
<1>2. \A x \in 1..n : lines[x] \in Nat /\ owing[x] \in Nat /\ lines[x] \in Int /\ owing[x] \in Int
  OBVIOUS
<1>3. Total(lines, 1..n) = lines[s] + Total(lines, ahead \cup after)
  <2>1. s \notin ahead \cup after /\ \A x \in (ahead \cup after) \cup {s} : lines[x] \in Int
    BY <1>1, <1>2
  <2>2. Total(lines, (ahead \cup after) \cup {s}) = lines[s] + Total(lines, ahead \cup after)
    BY <1>1, <2>1, TotalWith
  <2>3. QED
    BY <1>1, <2>2
<1>4. Total(lines, ahead \cup after) = Total(lines, ahead) + Total(lines, after)
  <2>1. \A x \in ahead \cup after : lines[x] \in Int
    BY <1>1, <1>2
  <2>2. QED
    BY <1>1, <2>1, TotalOfUnion
<1>5. Total(lines, ahead) \in Nat /\ Total(lines, after) \in Nat /\ Total(owing, ahead) \in Nat
  BY <1>1, <1>2, TotalOfNaturals
<1>6. Greedy(owing, amount)[s] = CASE left <= 0 -> 0
                                   [] left > 0 /\ owing[s] > left -> left
                                   [] OTHER -> owing[s]
  BY DEF Greedy, ahead
<1>7. left = rest + lines[s] + Total(lines, after) + (Total(lines, ahead) - Total(owing, ahead))
  <2> DEFINE whole == Total(lines, 1..n)
             first == Total(lines, ahead)
             last  == Total(lines, after)
             owed  == Total(owing, ahead)
             line  == lines[s]
  <2>1. line \in Nat /\ amount = rest + whole /\ left = amount - owed
    OBVIOUS
  <2>2. whole = line + (first + last) /\ first \in Nat /\ last \in Nat /\ owed \in Nat
    BY <1>3, <1>4, <1>5
  <2> HIDE DEF whole, first, last, owed, line, left
  <2>3. left = rest + line + last + (first - owed)
    BY <2>1, <2>2
  <2>4. QED
    BY <2>3 DEF first, last, owed, line
<1>8. Total(lines, ahead) <= Total(owing, ahead)
  BY <1>1, <1>2, TotalAtMost
<1>9. lines[s] < owing[s] => rest = 0 /\ Total(lines, after) = 0
  <2>1. SUFFICES ASSUME lines[s] < owing[s] PROVE rest = 0 /\ Total(lines, after) = 0
    OBVIOUS
  <2>2. rest = 0
    BY <2>1
  <2>3. ASSUME NEW x \in after PROVE lines[x] = 0
    <3>1. x \in 1..n /\ s < x
      BY DEF after
    <3>2. lines[x] > 0 => lines[s] = owing[s]
      BY <3>1
    <3>3. lines[x] \in Nat /\ lines[s] # owing[s]
      BY <3>1, <2>1
    <3>4. QED
      BY <3>2, <3>3
  <2>4. QED
    BY <1>1, <2>2, <2>3, TotalOfZeros
<1>10. CASE \E r \in ahead : lines[r] < owing[r]
  <2>1. PICK r \in ahead : lines[r] < owing[r]
    BY <1>10
  <2>2. r \in 1..n /\ r < s /\ lines[r] # owing[r]
    BY <2>1, <1>2 DEF ahead
  <2>3. rest = 0
    BY <2>2
  <2>4. \A x \in 1..n : r < x => lines[x] = 0
    BY <2>2
  <2>5. \A x \in after : lines[x] = 0
    BY <2>2, <2>4 DEF after
  <2>6. Total(lines, after) = 0
    BY <1>1, <2>5, TotalOfZeros
  <2>7. lines[s] = 0
    BY <2>2, <2>4
  <2> HIDE DEF left
  <2>8. left \in Int /\ left <= 0
    BY <1>5, <1>7, <1>8, <2>3, <2>6, <2>7
  <2>9. QED
    BY <1>6, <2>7, <2>8
<1>11. CASE \A r \in ahead : lines[r] = owing[r]
  <2>1. Total(lines, ahead) = Total(owing, ahead)
    BY <1>1, <1>11, TotalSame
  <2>2. left = rest + lines[s] + Total(lines, after)
    BY <1>5, <1>7, <2>1
  <2>3. lines[s] \in Nat /\ owing[s] \in Nat /\ lines[s] <= owing[s]
    OBVIOUS
  <2> HIDE DEF left
  <2>4. QED
    BY <1>5, <1>6, <1>9, <2>2, <2>3
<1>12. QED
  BY <1>1, <1>10, <1>11, <1>2
================================================================================
