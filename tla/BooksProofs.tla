----------------------------- MODULE BooksProofs -----------------------------
(***************************************************************************)
(* The budget manager's books balance (BooksBalance of MCReconcileRun):    *)
(* reserved is the sum of what the workers hold, committed the sum of what *)
(* the resized pods were given, whatever the sign of the deltas.           *)
(*                                                                         *)
(* The sums are those of MapThenSumSet, a recursive function on the        *)
(* subsets of a set.  The invariant speaks of a function that gives every  *)
(* subset its sum, in whatever order its elements are taken.  It solves    *)
(* the equation of the recursive function (SumIsFold), whose solution is   *)
(* unique (FoldUnique), by the least subset on which two could differ.     *)
(***************************************************************************)
EXTENDS MCReconcileRun, ReconcileRunProofs, WellFoundedInduction

-----------------------------------------------------------------------------
(* Sums over the subsets of a set.                                         *)

\* The element that MapThenSumSet takes first.
First(s) == CHOOSE x \in s : TRUE

\* g is the recursive function of MapThenSumSet for the summands f.
IsFold(f, g, T) ==
  g = [s \in SUBSET T |->
         IF s = {} THEN 0 ELSE f[First(s)] + g[s \ {First(s)}]]

\* g[s] is the sum of f over s, whichever element is taken first.
IsSumOn(f, g, T) ==
  /\ g \in [SUBSET T -> Int]
  /\ g[{}] = 0
  /\ \A s \in SUBSET T : \A x \in s : g[s] = f[x] + g[s \ {x}]

SumsTo(f, T, S, n) == \E g : IsSumOn(f, g, T) /\ g[S] = n

\* Summands that are all zero sum to zero.
LEMMA ZeroSum ==
  ASSUME NEW T, NEW f, \A x \in T : f[x] = 0, NEW S \in SUBSET T
  PROVE  SumsTo(f, T, S, 0)
<1> DEFINE g == [s \in SUBSET T |-> 0]
<1>1. IsSumOn(f, g, T)
  BY DEF IsSumOn
<1>2. g[S] = 0
  OBVIOUS
<1> HIDE DEF g
<1> QED BY <1>1, <1>2 DEF SumsTo

\* A new element adds its summand.
LEMMA ElementAdded ==
  ASSUME NEW T, NEW f \in [T -> Int], NEW S \in SUBSET T,
         NEW x \in T, x \notin S, NEW n, SumsTo(f, T, S, n)
  PROVE  SumsTo(f, T, S \cup {x}, n + f[x])
<1> PICK g : IsSumOn(f, g, T) /\ g[S] = n
  BY DEF SumsTo
<1>1. S \cup {x} \in SUBSET T /\ (S \cup {x}) \ {x} = S /\ x \in S \cup {x}
  OBVIOUS
<1>2. g[S \cup {x}] = f[x] + g[S] /\ g[S] \in Int /\ f[x] \in Int
  BY <1>1 DEF IsSumOn
<1>3. g[S \cup {x}] = n + f[x]
  BY <1>2
<1> QED BY <1>3 DEF SumsTo

\* A summand that changes changes the sum of the sets that it is in.
LEMMA SummandChanged ==
  ASSUME NEW T, NEW h \in [T -> Int], NEW k \in [T -> Int],
         NEW w \in T, \A x \in T : x # w => k[x] = h[x],
         NEW S \in SUBSET T, NEW n, SumsTo(h, T, S, n)
  PROVE  SumsTo(k, T, S, IF w \in S THEN n - h[w] + k[w] ELSE n)
<1> PICK g : IsSumOn(h, g, T) /\ g[S] = n
  BY DEF SumsTo
<1> DEFINE new(s) == IF w \in s THEN g[s] - h[w] + k[w] ELSE g[s]
           e == [s \in SUBSET T |-> new(s)]
<1>1. /\ \A s \in SUBSET T : g[s] \in Int
      /\ h[w] \in Int /\ k[w] \in Int
      /\ g[{}] = 0
  BY DEF IsSumOn
<1>2. e \in [SUBSET T -> Int]
  BY <1>1
<1>3. e[{}] = 0
  BY <1>1
<1>4. ASSUME NEW s \in SUBSET T, NEW x \in s
      PROVE  e[s] = k[x] + e[s \ {x}]
  <2>1. /\ s \ {x} \in SUBSET T /\ g[s] \in Int /\ g[s \ {x}] \in Int
        /\ h[x] \in Int /\ k[x] \in Int
        /\ g[s] = h[x] + g[s \ {x}]
    BY <1>1 DEF IsSumOn
  <2>2. e[s] = new(s) /\ e[s \ {x}] = new(s \ {x})
    BY <2>1
  <2> HIDE DEF e
  <2>3. CASE x = w
    <3>1. new(s) = g[s] - h[w] + k[w] /\ new(s \ {x}) = g[s \ {x}]
      BY <2>3
    <3> QED BY <2>1, <2>2, <2>3, <3>1
  <2>4. CASE x # w /\ w \in s
    <3>1. /\ new(s) = g[s] - h[w] + k[w]
          /\ new(s \ {x}) = g[s \ {x}] - h[w] + k[w]
          /\ k[x] = h[x]
      BY <2>4
    <3> QED BY <1>1, <2>1, <2>2, <3>1
  <2>5. CASE x # w /\ w \notin s
    <3>1. new(s) = g[s] /\ new(s \ {x}) = g[s \ {x}] /\ k[x] = h[x]
      BY <2>5
    <3> QED BY <2>1, <2>2, <3>1
  <2> QED BY <2>3, <2>4, <2>5
<1>5. IsSumOn(k, e, T)
  BY <1>2, <1>3, <1>4 DEF IsSumOn
<1>6. e[S] = IF w \in S THEN n - h[w] + k[w] ELSE n
  OBVIOUS
<1> HIDE DEF e
<1> QED BY <1>5, <1>6 DEF SumsTo

\* A function that gives the sums satisfies the recursive equation.
LEMMA SumIsFold ==
  ASSUME NEW T, NEW f, NEW g, IsSumOn(f, g, T), NEW S \in SUBSET T
  PROVE  IsFold(f, [s \in SUBSET S |-> g[s]], S)
<1> DEFINE e == [s \in SUBSET S |-> g[s]]
<1>1. ASSUME NEW s \in SUBSET S
      PROVE  e[s] = IF s = {} THEN 0
                    ELSE f[First(s)] + e[s \ {First(s)}]
  <2>1. CASE s = {}
    BY <2>1 DEF IsSumOn
  <2>2. CASE s # {}
    <3>1. First(s) \in s
      BY <2>2 DEF First
    <3>2. g[s] = f[First(s)] + g[s \ {First(s)}]
      BY <3>1 DEF IsSumOn
    <3>3. e[s] = g[s] /\ e[s \ {First(s)}] = g[s \ {First(s)}]
      OBVIOUS
    <3> QED BY <2>2, <3>2, <3>3
  <2> QED BY <2>1, <2>2
<1>2. e = [s \in SUBSET S |-> e[s]]
  OBVIOUS
<1> HIDE DEF e
<1>3. e = [s \in SUBSET S |->
             IF s = {} THEN 0 ELSE f[First(s)] + e[s \ {First(s)}]]
  BY <1>1, <1>2
<1> QED BY <1>3 DEF IsFold, e

\* A set of numbers that is not empty has a least one.
LEMMA LeastNumber ==
  ASSUME NEW T, T \subseteq Nat, T # {}
  PROVE  \E n \in T : \A k \in T : n <= k
<1>1. PICK n \in T : \A k \in T : ~(<<k, n>> \in OpToRel(<, Nat))
  BY NatLessThanWellFounded, WFMin
<1>2. ASSUME NEW k \in T, k < n PROVE FALSE
  <2>1. <<k, n>> \in Nat \X Nat
    OBVIOUS
  <2>2. <<k, n>> \in {p \in Nat \X Nat : p[1] < p[2]}
    BY <1>2, <2>1
  <2> QED BY <1>1, <2>2, Zenon DEF OpToRel
<1>3. \A k \in T : n <= k
  BY <1>2
<1> QED BY <1>3

\* The recursive equation has one solution at most on a finite set: on a
\* smallest subset where two of them differed they would differ on a smaller.
LEMMA FoldUnique ==
  ASSUME NEW S, IsFiniteSet(S), NEW f, NEW g, NEW h,
         IsFold(f, g, S), IsFold(f, h, S)
  PROVE  g[S] = h[S]
<1> DEFINE Differ(n) == \E s \in SUBSET S : Cardinality(s) = n /\ g[s] # h[s]
           N == {n \in Nat : Differ(n)}
<1>1. \A s \in SUBSET S : IsFiniteSet(s) /\ Cardinality(s) \in Nat
  BY FS_Subset, FS_CardinalityType
<1> SUFFICES ASSUME g[S] # h[S] PROVE FALSE
  OBVIOUS
<1>2. Cardinality(S) \in N
  BY <1>1
<1>3. N \subseteq Nat
  OBVIOUS
<1> HIDE DEF N
<1>4. PICK n \in N : \A k \in N : n <= k
  BY <1>2, <1>3, LeastNumber
<1>5. PICK s \in SUBSET S : Cardinality(s) = n /\ g[s] # h[s]
  BY <1>4 DEF N
<1>6. /\ g[s] = IF s = {} THEN 0 ELSE f[First(s)] + g[s \ {First(s)}]
      /\ h[s] = IF s = {} THEN 0 ELSE f[First(s)] + h[s \ {First(s)}]
  BY DEF IsFold
<1>7. s # {} /\ g[s \ {First(s)}] # h[s \ {First(s)}]
  BY <1>5, <1>6
<1> DEFINE t == s \ {First(s)}
<1>8. First(s) \in s
  BY <1>7 DEF First
<1>9. t \in SUBSET S /\ Cardinality(t) = Cardinality(s) - 1
  BY <1>1, <1>8, FS_RemoveElement
<1>10. Cardinality(t) \in N
  BY <1>1, <1>7, <1>9 DEF N
<1>11. Cardinality(t) < n /\ n \in Nat /\ Cardinality(t) \in Nat
  BY <1>1, <1>5, <1>9
<1> QED BY <1>4, <1>10, <1>11

-----------------------------------------------------------------------------
(* The books.                                                              *)

\* What the pods were given of resource r, resized or not.
DeltaOf(r) == [p \in Pods |-> delta[p][r]]

\* The inductive invariant, which names no order of summation.
BooksInv ==
  \A r \in Resources :
    /\ SumsTo(HeldBy(r), Workers, Workers, reserved[r])
    /\ SumsTo(DeltaOf(r), Pods, Resized, committed[r])

\* The summands are integers.
LEMMA BooksType ==
  ASSUME TypeOK, Exclusive, NEW r \in Resources
  PROVE  /\ HeldBy(r) \in [Workers -> Int]
         /\ DeltaOf(r) \in [Pods -> Int]
<1>1. \A p \in Pods : delta[p][r] \in Int
  <2> TAKE p \in Pods
  <2>1. delta[p] \in Deltas \cup {Zero}
    BY DEF TypeOK
  <2> QED BY <2>1, RunAssumption DEF Zero
<1>2. \A w \in Workers : pc[w] \in BudgetLabels => cur[w] \in Pods
  BY DEF TypeOK, Exclusive, BudgetLabels
<1> QED BY <1>1, <1>2 DEF HeldBy, Held, DeltaOf

\* A step outside the budget manager's critical sections.
LEMMA KeepsBooks ==
  ASSUME BooksInv, UNCHANGED <<reserved, committed, delta>>,
         Resized' = Resized, \A r \in Resources : HeldBy(r)' = HeldBy(r)
  PROVE  BooksInv'
BY DEF BooksInv, DeltaOf

\* tryReserveBudget, commitBudget and releaseBudget change what one worker
\* holds and reserved by as much.
LEMMA ReservedChanged ==
  ASSUME TypeOK, Exclusive, BooksInv, NEW r \in Resources,
         NEW w \in Workers, NEW d \in Int,
         HeldBy(r)' = [HeldBy(r) EXCEPT ![w] = d],
         reserved'[r] = reserved[r] - HeldBy(r)[w] + d
  PROVE  SumsTo(HeldBy(r), Workers, Workers, reserved[r])'
<1> DEFINE h == HeldBy(r)
           k == [h EXCEPT ![w] = d]
<1>1. h \in [Workers -> Int]
  BY BooksType
<1> HIDE DEF h
<1>2. k \in [Workers -> Int] /\ k[w] = d
        /\ \A v \in Workers : v # w => k[v] = h[v]
  BY <1>1
<1>3. SumsTo(h, Workers, Workers, reserved[r])
  BY DEF BooksInv, h
<1> HIDE DEF k
<1>4. SumsTo(k, Workers, Workers, IF w \in Workers
                                  THEN reserved[r] - h[w] + k[w]
                                  ELSE reserved[r])
  BY <1>1, <1>2, <1>3, SummandChanged
<1>5. SumsTo(k, Workers, Workers, reserved'[r])
  BY <1>2, <1>4 DEF h
<1> QED BY <1>5 DEF k, h

\* Before the run nothing is held and no pod has been given anything.
LEMMA BooksInit == Init => BooksInv
<1> SUFFICES ASSUME Init, NEW r \in Resources
             PROVE  /\ SumsTo(HeldBy(r), Workers, Workers, reserved[r])
                    /\ SumsTo(DeltaOf(r), Pods, Resized, committed[r])
  BY DEF BooksInv
<1>1. reserved[r] = 0 /\ committed[r] = 0
  BY DEF Init, Zero
<1>2. \A w \in Workers : HeldBy(r)[w] = 0
  BY DEF Init, HeldBy, Held, BudgetLabels
<1>3. \A p \in Pods : DeltaOf(r)[p] = 0
  BY DEF Init, DeltaOf, Zero
<1>4. Workers \in SUBSET Workers /\ Resized \in SUBSET Pods
  BY DEF Resized, Counted
<1> QED BY <1>1, <1>2, <1>3, <1>4, ZeroSum

\* Computing a change writes the delta of a pod that is not resized and holds
\* nothing yet.
LEMMA BooksComputed ==
  ASSUME TypeOK, Exclusive, BooksInv, TypeOK', Exclusive',
         NEW w \in Workers, NEW d \in Deltas, ComputeChanges(w, d)
  PROVE  BooksInv'
<1> SUFFICES ASSUME NEW r \in Resources
             PROVE  /\ SumsTo(HeldBy(r), Workers, Workers, reserved[r])'
                    /\ SumsTo(DeltaOf(r), Pods, Resized, committed[r])'
  BY DEF BooksInv
<1>1. cur[w] \in Pods /\ cur[w] \notin Resized /\ Resized' = Resized
  BY DEF ComputeChanges, TypeOK, Exclusive, Uncounted, Resized, Counted
<1>2. HeldBy(r)' = HeldBy(r)
  BY DEF ComputeChanges, HeldBy, Held, BudgetLabels, Goto, TypeOK, Exclusive
<1>3. reserved' = reserved /\ committed' = committed
  BY DEF ComputeChanges, budgetVars
<1>4. \A p \in Pods : p # cur[w] => DeltaOf(r)'[p] = DeltaOf(r)[p]
  BY DEF ComputeChanges, DeltaOf, TypeOK
<1>5. DeltaOf(r) \in [Pods -> Int] /\ DeltaOf(r)' \in [Pods -> Int]
  <2>1. DeltaOf(r) \in [Pods -> Int]
    BY BooksType
  <2>2. delta'[cur[w]] \in [Resources -> Int]
    BY <1>1, RunAssumption DEF ComputeChanges, TypeOK
  <2>3. \A p \in Pods : DeltaOf(r)'[p] \in Int
    BY <1>1, <1>4, <2>1, <2>2 DEF DeltaOf
  <2> QED BY <2>1, <2>3 DEF DeltaOf
<1>6. Resized \in SUBSET Pods
  BY DEF Resized, Counted
<1> DEFINE h == DeltaOf(r)
           k == DeltaOf(r)'
<1>7. SumsTo(h, Pods, Resized, committed[r])
  BY DEF BooksInv
<1>8. /\ h \in [Pods -> Int] /\ k \in [Pods -> Int]
      /\ \A p \in Pods : p # cur[w] => k[p] = h[p]
  BY <1>4, <1>5
<1> HIDE DEF h, k
<1>9. SumsTo(k, Pods, Resized, committed[r])
  BY <1>1, <1>6, <1>7, <1>8, SummandChanged
<1>10. SumsTo(DeltaOf(r), Pods, Resized, committed[r])'
  BY <1>1, <1>3, <1>9 DEF k
<1>11. SumsTo(HeldBy(r), Workers, Workers, reserved[r])'
  BY <1>2, <1>3 DEF BooksInv
<1> QED BY <1>10, <1>11

\* tryReserveBudget and releaseBudget: reserved and what the worker holds
\* change by the delta of its pod.
LEMMA BooksReserved ==
  ASSUME TypeOK, Exclusive, BooksInv, NEW w \in Workers,
         Reserve(w) \/ ReleaseBudget(w)
  PROVE  BooksInv'
<1> SUFFICES ASSUME NEW r \in Resources
             PROVE  /\ SumsTo(HeldBy(r), Workers, Workers, reserved[r])'
                    /\ SumsTo(DeltaOf(r), Pods, Resized, committed[r])'
  BY DEF BooksInv
<1> DEFINE d == delta[cur[w]][r]
<1>1. d \in Int /\ reserved[r] \in Int
  BY DeltaType DEF Reserve, ReleaseBudget, TypeOK
<1>2. /\ committed' = committed /\ delta' = delta /\ Resized' = Resized
  BY DEF Reserve, ReleaseBudget, Resized, Counted
<1>3. SumsTo(DeltaOf(r), Pods, Resized, committed[r])'
  BY <1>2 DEF BooksInv, DeltaOf
<1>4. CASE Reserve(w)
  <2>1. HeldBy(r)[w] = 0 /\ HeldBy(r)' = [HeldBy(r) EXCEPT ![w] = d]
    BY <1>4 DEF Reserve, HeldBy, Held, BudgetLabels, Goto, TypeOK
  <2>2. reserved'[r] = reserved[r] + d
    BY <1>4 DEF Reserve, Plus
  <2> HIDE DEF d
  <2>3. reserved'[r] = reserved[r] - HeldBy(r)[w] + d
    BY <1>1, <2>1, <2>2
  <2> QED BY <1>1, <1>3, <2>1, <2>3, ReservedChanged
<1>5. CASE ReleaseBudget(w)
  <2>1. HeldBy(r)[w] = d /\ HeldBy(r)' = [HeldBy(r) EXCEPT ![w] = 0]
    BY <1>5 DEF ReleaseBudget, HeldBy, Held, BudgetLabels, Goto, TypeOK
  <2>2. reserved'[r] = reserved[r] - d
    BY <1>5 DEF ReleaseBudget, Minus
  <2> HIDE DEF d
  <2>3. 0 \in Int /\ reserved'[r] = reserved[r] - HeldBy(r)[w] + 0
    BY <1>1, <2>1, <2>2
  <2> QED BY <1>3, <2>1, <2>3, ReservedChanged
<1> QED BY <1>4, <1>5

\* commitBudget moves the delta of the pod from one book to the other.
LEMMA BooksCommitted ==
  ASSUME TypeOK, Exclusive, BooksInv, NEW w \in Workers, Commit(w)
  PROVE  BooksInv'
<1> SUFFICES ASSUME NEW r \in Resources
             PROVE  /\ SumsTo(HeldBy(r), Workers, Workers, reserved[r])'
                    /\ SumsTo(DeltaOf(r), Pods, Resized, committed[r])'
  BY DEF BooksInv
<1> DEFINE p == cur[w]
           d == delta[p][r]
<1>1. /\ p \in Pods /\ p \notin Resized /\ Resized' = Resized \cup {p}
  BY DeltaType
     DEF Commit, Resized, Counted, Count, Uncounted, TypeOK, Exclusive
<1>2. d \in Int /\ reserved[r] \in Int
  BY DeltaType DEF Commit, TypeOK
<1>3. /\ committed'[r] = committed[r] + d /\ reserved'[r] = reserved[r] - d
      /\ DeltaOf(r)' = DeltaOf(r) /\ DeltaOf(r)[p] = d
  BY <1>1 DEF Commit, Plus, Minus, DeltaOf
<1>4. HeldBy(r)[w] = d /\ HeldBy(r)' = [HeldBy(r) EXCEPT ![w] = 0]
  BY DEF Commit, HeldBy, Held, BudgetLabels, Goto, TypeOK
<1>5. Resized \in SUBSET Pods /\ DeltaOf(r) \in [Pods -> Int]
  BY BooksType DEF Resized, Counted
<1>6. SumsTo(DeltaOf(r), Pods, Resized, committed[r])
  BY DEF BooksInv
<1> HIDE DEF p, d
<1>7. SumsTo(DeltaOf(r), Pods, Resized \cup {p}, committed[r] + DeltaOf(r)[p])
  BY <1>1, <1>5, <1>6, ElementAdded
<1>8. 0 \in Int /\ reserved'[r] = reserved[r] - HeldBy(r)[w] + 0
  BY <1>2, <1>3, <1>4
<1>9. SumsTo(HeldBy(r), Workers, Workers, reserved[r])'
  BY <1>4, <1>8, ReservedChanged
<1> QED BY <1>1, <1>3, <1>7, <1>9

\* No other step of processOne writes in the books.
LEMMA BooksStep ==
  ASSUME TypeOK, Exclusive, BooksInv, TypeOK', Exclusive',
         NEW w \in Workers, WorkerStep(w)
  PROVE  BooksInv'
<1> DEFINE Same == /\ UNCHANGED <<reserved, committed, delta>>
                   /\ \A r \in Resources : HeldBy(r)' = HeldBy(r)
                   /\ ~Commit(w)
<1> USE DEF TypeOK, Exclusive, HeldBy, Held, BudgetLabels, Goto, budgetVars,
    Commit
<1>1. ASSUME CheckContext(w) PROVE Same BY <1>1 DEF CheckContext
<1>2. ASSUME TakeSlot(w) PROVE Same BY <1>2 DEF TakeSlot
<1>3. ASSUME NoSlot(w) PROVE Same BY <1>3 DEF NoSlot
<1>4. ASSUME MetricsError(w) PROVE Same BY <1>4 DEF MetricsError
<1>5. ASSUME MetricsNotFound(w) PROVE Same BY <1>5 DEF MetricsNotFound
<1>6. ASSUME MetricsFound(w) PROVE Same BY <1>6 DEF MetricsFound
<1>7. ASSUME NEW c \in {"qos", "computeError", "noChange"},
             ComputeSkips(w, c)
      PROVE  Same
  BY <1>7 DEF ComputeSkips
<1>8. ASSUME Pending(w) PROVE Same BY <1>8 DEF Pending
<1>9. ASSUME Stable(w) PROVE Same BY <1>9 DEF Stable
<1>10. ASSUME BudgetSkip(w) PROVE Same BY <1>10 DEF BudgetSkip
<1>11. ASSUME ApplyNotSent(w) PROVE Same BY <1>11 DEF ApplyNotSent
<1>12. ASSUME ApplySend(w) PROVE Same BY <1>12 DEF ApplySend
<1>13. ASSUME ApplyOK(w) PROVE Same BY <1>13 DEF ApplyOK
<1>14. ASSUME ApplyConflict(w) PROVE Same BY <1>14 DEF ApplyConflict
<1>15. ASSUME NEW effect \in BOOLEAN, ApplyError(w, effect) PROVE Same
  BY <1>15 DEF ApplyError
<1>16. ASSUME ApplyFatal(w) PROVE Same BY <1>16 DEF ApplyFatal
<1>17. ASSUME Refetch(w) PROVE Same BY <1>17 DEF Refetch
<1>18. ASSUME NEW effect \in BOOLEAN, ConflictSkip(w, effect) PROVE Same
  BY <1>18 DEF ConflictSkip
<1>19. ASSUME NEW ok \in BOOLEAN, Annotate(w, ok) PROVE Same
  BY <1>19 DEF Annotate
<1>20. ASSUME FreeSlot(w) PROVE Same BY <1>20 DEF FreeSlot
<1> HIDE DEF TypeOK, Exclusive, HeldBy, Held, BudgetLabels, Goto, budgetVars,
    Commit
<1>21. CASE Same
  BY <1>21, ContractStutter, KeepsBooks
<1> HIDE DEF Same
<1>22. ASSUME NEW d \in Deltas, ComputeChanges(w, d) PROVE BooksInv'
  BY <1>22, BooksComputed
<1>23. CASE Reserve(w) \/ ReleaseBudget(w)
  BY <1>23, BooksReserved
<1>24. CASE Commit(w)
  BY <1>24, BooksCommitted
<1> QED BY <1>1, <1>2, <1>3, <1>4, <1>5, <1>6, <1>7, <1>8, <1>9, <1>10,
    <1>11, <1>12, <1>13, <1>14, <1>15, <1>16, <1>17, <1>18, <1>19, <1>20,
    <1>21, <1>22, <1>23, <1>24
    DEF WorkerStep

\* No step of a run unbalances the books.
LEMMA BooksNext ==
  TypeOK /\ Exclusive /\ BooksInv /\ [Next]_vars => BooksInv'
<1> SUFFICES ASSUME TypeOK, Exclusive, BooksInv, [Next]_vars
             PROVE  BooksInv'
  OBVIOUS
<1>1. TypeOK' /\ Exclusive'
  BY StepPreserves
<1>2. CASE MainStep
  <2> DEFINE Same == /\ UNCHANGED <<reserved, committed, delta, outcome>>
                     /\ \A r \in Resources : HeldBy(r)' = HeldBy(r)
  <2> USE DEF TypeOK, Exclusive, HeldBy, Held, BudgetLabels, poolVars,
      budgetVars
  <2>1. ASSUME ListPodsFailed PROVE Same BY <2>1 DEF ListPodsFailed
  <2>2. ASSUME NEW C \in SUBSET Pods, ListPods(C) PROVE Same
    BY <2>2 DEF ListPods
  <2>3. ASSUME NEW a \in {"error", "listed"}, ListPodMetrics(a) PROVE Same
    BY <2>3 DEF ListPodMetrics
  <2>4. ASSUME NEW w \in Workers, NEW p \in Pods, Enqueue(w, p) PROVE Same
    BY <2>4 DEF Enqueue
  <2>5. ASSUME CloseQueue PROVE Same BY <2>5 DEF CloseQueue
  <2>6. ASSUME WaitWorkers PROVE Same BY <2>6 DEF WaitWorkers
  <2>7. ASSUME Summary PROVE Same BY <2>7 DEF Summary
  <2> HIDE DEF TypeOK, Exclusive, HeldBy, Held, BudgetLabels, poolVars,
      budgetVars
  <2>8. Same => BooksInv'
    BY KeepsBooks DEF Resized, Counted
  <2> HIDE DEF Same
  <2> QED BY <1>2, <2>1, <2>2, <2>3, <2>4, <2>5, <2>6, <2>7, <2>8
          DEF MainStep
<1>3. ASSUME NEW w \in Workers, WorkerStep(w) PROVE BooksInv'
  BY <1>1, <1>3, BooksStep
<1>4. CASE Shutdown \/ UNCHANGED vars
  BY <1>4, KeepsBooks
     DEF Shutdown, vars, poolVars, budgetVars, HeldBy, Held, Resized, Counted
<1> QED BY <1>2, <1>3, <1>4 DEF Next, Terminated

\* reserved is the sum over the workers that MapThenSumSet computes.
LEMMA ReservedBalance ==
  ASSUME NEW r \in Resources,
         SumsTo(HeldBy(r), Workers, Workers, reserved[r])
  PROVE  reserved[r] = MapThenSumSet(LAMBDA w : Held(w, r), Workers)
<1> DEFINE Fold(h) == h = [s \in SUBSET Workers |->
                             IF s = {} THEN 0
                             ELSE Held(First(s), r) + h[s \ {First(s)}]]
           f == CHOOSE h : Fold(h)
<1>1. MapThenSumSet(LAMBDA w : Held(w, r), Workers) = f[Workers]
  BY DEF MapThenSumSet, MapThenFoldSet, First
<1>2. \A s \in SUBSET Workers : s # {} => First(s) \in s
  BY DEF First
<1>3. \A s \in SUBSET Workers :
        s # {} => HeldBy(r)[First(s)] = Held(First(s), r)
  BY <1>2 DEF HeldBy
<1>4. \A h : [s \in SUBSET Workers |->
                IF s = {} THEN 0 ELSE Held(First(s), r) + h[s \ {First(s)}]]
           = [s \in SUBSET Workers |->
                IF s = {} THEN 0
                ELSE HeldBy(r)[First(s)] + h[s \ {First(s)}]]
  BY <1>3
<1>5. \A h : Fold(h) <=> IsFold(HeldBy(r), h, Workers)
  BY <1>4 DEF IsFold
<1>6. PICK g : IsSumOn(HeldBy(r), g, Workers) /\ g[Workers] = reserved[r]
  BY DEF SumsTo
<1> DEFINE e == [s \in SUBSET Workers |-> g[s]]
<1>7. IsFold(HeldBy(r), e, Workers) /\ e[Workers] = reserved[r]
  BY <1>6, SumIsFold
<1> HIDE DEF Fold, e
<1>8. Fold(f)
  BY <1>5, <1>7
<1> HIDE DEF f
<1>9. f[Workers] = e[Workers]
  BY <1>5, <1>7, <1>8, FoldUnique, WorkersFinite
<1> QED BY <1>1, <1>7, <1>9

\* committed is the sum over the resized pods that MapThenSumSet computes.
LEMMA CommittedBalance ==
  ASSUME NEW r \in Resources,
         SumsTo(DeltaOf(r), Pods, Resized, committed[r])
  PROVE  committed[r] = MapThenSumSet(LAMBDA p : delta[p][r], Resized)
<1> DEFINE Fold(h) == h = [s \in SUBSET Resized |->
                             IF s = {} THEN 0
                             ELSE delta[First(s)][r] + h[s \ {First(s)}]]
           f == CHOOSE h : Fold(h)
<1>1. MapThenSumSet(LAMBDA p : delta[p][r], Resized) = f[Resized]
  BY DEF MapThenSumSet, MapThenFoldSet, First
<1>2. \A s \in SUBSET Resized : s # {} => First(s) \in s
  BY DEF First
<1>3. Resized \in SUBSET Pods /\ IsFiniteSet(Resized)
  BY RunAssumption, FS_Subset DEF Resized, Counted
<1>4. \A s \in SUBSET Resized :
        s # {} => DeltaOf(r)[First(s)] = delta[First(s)][r]
  BY <1>2, <1>3 DEF DeltaOf
<1>5. \A h : [s \in SUBSET Resized |->
                IF s = {} THEN 0 ELSE delta[First(s)][r] + h[s \ {First(s)}]]
           = [s \in SUBSET Resized |->
                IF s = {} THEN 0
                ELSE DeltaOf(r)[First(s)] + h[s \ {First(s)}]]
  BY <1>4
<1>6. \A h : Fold(h) <=> IsFold(DeltaOf(r), h, Resized)
  BY <1>5 DEF IsFold
<1>7. PICK g : IsSumOn(DeltaOf(r), g, Pods) /\ g[Resized] = committed[r]
  BY DEF SumsTo
<1> DEFINE e == [s \in SUBSET Resized |-> g[s]]
<1>8. IsFold(DeltaOf(r), e, Resized) /\ e[Resized] = committed[r]
  BY <1>3, <1>7, SumIsFold
<1> HIDE DEF Fold, e
<1>9. Fold(f)
  BY <1>6, <1>8
<1> HIDE DEF f
<1>10. f[Resized] = e[Resized]
  BY <1>3, <1>6, <1>8, <1>9, FoldUnique
<1> QED BY <1>1, <1>8, <1>10

\* The books balance in every state of every run, for any number of pods and
\* workers and for deltas of either sign: each reservation is committed or
\* released exactly once, with the amount that was reserved.
THEOREM BooksCorrect == Spec => []BooksBalance
<1>1. Init => TypeOK /\ Exclusive /\ BooksInv
  BY InitInv, BooksInit
<1>2. TypeOK /\ Exclusive /\ BooksInv /\ [Next]_vars
        => TypeOK' /\ Exclusive' /\ BooksInv'
  BY StepPreserves, BooksNext
<1>3. BooksInv => BooksBalance
  BY ReservedBalance, CommittedBalance DEF BooksInv, BooksBalance
<1> QED BY <1>1, <1>2, <1>3, PTL DEF Spec

=============================================================================
