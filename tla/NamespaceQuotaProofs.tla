------------------------ MODULE NamespaceQuotaProofs ------------------------
(***************************************************************************)
(* Proofs about NamespaceQuota, for any instances, templates and quotas.   *)
(* The sums are folds over finite sets: the first lemmas find out what     *)
(* such a fold computes, each from a smallest set that would refute it.    *)
(***************************************************************************)
EXTENDS NamespaceQuota, FiniteSetTheorems, TLAPS

\* A family of subsets of a finite set has a smallest member.
LEMMA Minimal ==
  ASSUME NEW S, IsFiniteSet(S), NEW F, F \subseteq SUBSET S, F # {}
  PROVE  \E T \in F : \A U \in F : U \subseteq T => U = T
<1>1. F \subseteq FiniteSubsetsOf(S)
  BY FS_Subset DEF FiniteSubsetsOf
<1>2. \E T \in F : \A U \in F : <<U, T>> \notin StrictSubsetOrdering(S)
  BY <1>1, FS_StrictSubsetOrderingWellFounded, WFMin
<1> QED
  BY <1>2 DEF StrictSubsetOrdering

\* The member of a set that the fold takes first.
First(s) == CHOOSE i \in s : TRUE

\* g is the function that the fold over S defines by recursion.
Sums(g, S, d) ==
  g = [s \in SUBSET S |-> IF s = {} THEN 0 ELSE Usage(First(s), d) + g[s \ {First(s)}]]

\* The sum of the usages in terms of that function.
LEMMA UsedIsFold ==
  ASSUME NEW S, NEW d
  PROVE  Used(S, d) = (CHOOSE g : Sums(g, S, d))[S]
BY DEF Used, MapThenSumSet, MapThenFoldSet, Sums, First

\* A nonempty set holds the member taken first.
LEMMA FirstIn ==
  ASSUME NEW s, s # {}
  PROVE  First(s) \in s
BY DEF First

\* Folds over two sets agree on the subsets of both.
LEMMA SumsAgree ==
  ASSUME NEW S, IsFiniteSet(S), NEW T \in SUBSET S, NEW d,
         NEW g, NEW h, Sums(g, S, d), Sums(h, T, d), NEW U \in SUBSET T
  PROVE  g[U] = h[U]
<1> DEFINE F == {s \in SUBSET T : g[s] # h[s]}
<1>1. SUFFICES ASSUME F # {} PROVE FALSE
  OBVIOUS
<1>2. F \subseteq SUBSET S
  OBVIOUS
<1>3. PICK s \in F : \A r \in F : r \subseteq s => r = s
  <2> HIDE DEF F
  <2> QED BY <1>1, <1>2, Minimal
<1>4. s # {}
  BY DEF Sums
<1>5. First(s) \in s /\ s \ {First(s)} \subseteq s /\ s \ {First(s)} # s
  BY <1>4, FirstIn
<1>6. g[s \ {First(s)}] = h[s \ {First(s)}]
  BY <1>3, <1>5
<1>7. g[s] = Usage(First(s), d) + g[s \ {First(s)}]
  BY <1>4 DEF Sums
<1>8. h[s] = Usage(First(s), d) + h[s \ {First(s)}]
  BY <1>4 DEF Sums
<1> QED
  BY <1>6, <1>7, <1>8

\* The recursion over a finite set has a solution.
LEMMA SumsExist ==
  ASSUME NEW S, IsFiniteSet(S), NEW d
  PROVE  \E g : Sums(g, S, d)
<1> DEFINE F == {s \in SUBSET S : ~ \E g : Sums(g, s, d)}
<1>1. SUFFICES ASSUME F # {} PROVE FALSE
  OBVIOUS
<1>2. PICK T \in F : \A r \in F : r \subseteq T => r = T
  <2>1. F \subseteq SUBSET S
    OBVIOUS
  <2> HIDE DEF F
  <2> QED BY <1>1, <2>1, Minimal
<1>3. T # {}
  <2>1. Sums([s \in SUBSET {} |-> 0], {}, d)
    BY DEF Sums
  <2> QED BY <2>1
<1> DEFINE W(s) == CHOOSE g : Sums(g, s, d)
           c == First(T)
           h == [s \in SUBSET T |->
                   IF s = T THEN Usage(c, d) + W(T \ {c})[T \ {c}] ELSE W(s)[s]]
<1>4. \A s \in SUBSET T : s # T => Sums(W(s), s, d)
  BY <1>2
<1>5. c \in T
  BY <1>3, FirstIn
<1>6. ASSUME NEW s \in SUBSET T
      PROVE  h[s] = IF s = {} THEN 0 ELSE Usage(First(s), d) + h[s \ {First(s)}]
  <2>1. CASE s = T
    <3>1. T \ {c} \in SUBSET T /\ T \ {c} # T
      BY <1>5
    <3>2. h[T \ {c}] = W(T \ {c})[T \ {c}]
      BY <3>1
    <3> QED BY <2>1, <3>2, <1>3
  <2>2. CASE s # T /\ s = {}
    <3>1. Sums(W(s), s, d) /\ h[s] = W(s)[s]
      BY <2>2, <1>4
    <3> HIDE DEF h, W
    <3> QED BY <3>1, <2>2 DEF Sums
  <2>3. CASE s # T /\ s # {}
    <3> DEFINE r == s \ {First(s)}
    <3>1. First(s) \in s /\ r \in SUBSET s /\ r \in SUBSET T /\ r # T
      BY <2>3, FirstIn
    <3>2. Sums(W(s), s, d) /\ Sums(W(r), r, d)
      BY <2>3, <3>1, <1>4
    <3>3. h[s] = W(s)[s] /\ h[r] = W(r)[r]
      BY <2>3, <3>1
    <3>4. IsFiniteSet(s)
      BY FS_Subset
    <3> HIDE DEF h, W
    <3>5. W(s)[r] = W(r)[r]
      <4> HIDE DEF r
      <4> QED BY <3>1, <3>2, <3>4, SumsAgree
    <3>6. W(s)[s] = Usage(First(s), d) + W(s)[r]
      BY <3>2, <2>3 DEF Sums
    <3> QED BY <3>3, <3>5, <3>6, <2>3
  <2> QED BY <2>1, <2>2, <2>3
<1>7. Sums(h, T, d)
  <2>1. h = [s \in SUBSET T |-> h[s]]
    OBVIOUS
  <2> HIDE DEF h
  <2> QED BY <2>1, <1>6 DEF Sums
<1> QED
  <2> HIDE DEF h
  <2> QED BY <1>7

\* The sum over a finite set: nothing, or what the first member needs and the
\* sum over the others.
LEMMA UsedStep ==
  ASSUME NEW S, IsFiniteSet(S), NEW d
  PROVE  Used(S, d) = IF S = {} THEN 0 ELSE Usage(First(S), d) + Used(S \ {First(S)}, d)
<1> DEFINE W(s) == CHOOSE g : Sums(g, s, d)
           r == S \ {First(S)}
<1>1. IsFiniteSet(r) /\ r \in SUBSET S
  BY FS_Subset
<1>2. Sums(W(S), S, d) /\ Sums(W(r), r, d)
  BY <1>1, SumsExist
<1>3. Used(S, d) = W(S)[S] /\ Used(r, d) = W(r)[r]
  BY UsedIsFold
<1> HIDE DEF W
<1>4. W(S)[r] = W(r)[r]
  <2> HIDE DEF r
  <2> QED BY <1>1, <1>2, SumsAgree
<1>5. W(S)[S] = IF S = {} THEN 0 ELSE Usage(First(S), d) + W(S)[r]
  BY <1>2 DEF Sums
<1> QED
  BY <1>3, <1>4, <1>5

\* Every set of instances is finite.
LEMMA NamesFinite ==
  ASSUME NEW S \in SUBSET Names
  PROVE  IsFiniteSet(S)
BY FS_Subset, QuotaAssumption DEF QuotaAssumption

\* What an instance needs is a natural number in every dimension.
LEMMA UsageNat ==
  ASSUME NEW i \in Names, NEW d \in Dims
  PROVE  Usage(i, d) \in Nat
<1>1. \A a, b \in Nat : a * b \in Nat
  OBVIOUS
<1>2. Replicas(i) \in Nat
  BY QuotaAssumption DEF Replicas, QuotaAssumption
<1>3. Template[i].cores \in Nat /\ Template[i].memory \in Nat
      /\ (IF Template[i].root = 0 THEN DefaultRoot[Template[i].type] ELSE Template[i].root) \in Nat
  BY QuotaAssumption DEF QuotaAssumption
<1>4. CASE d = "cpu"
  BY <1>1, <1>2, <1>3, <1>4 DEF Usage
<1>5. CASE d = "memory"
  BY <1>1, <1>2, <1>3, <1>5 DEF Usage
<1>6. CASE d = "storage"
  BY <1>1, <1>2, <1>3, <1>6 DEF Usage
<1> QED
  BY <1>4, <1>5, <1>6 DEF Dims

\* A sum of usages is a natural number.
LEMMA UsedNat ==
  ASSUME NEW S \in SUBSET Names, NEW d \in Dims
  PROVE  Used(S, d) \in Nat
<1> DEFINE F == {s \in SUBSET Names : Used(s, d) \notin Nat}
<1>1. SUFFICES ASSUME F # {} PROVE FALSE
  OBVIOUS
<1>2. PICK T \in F : \A r \in F : r \subseteq T => r = T
  <2>1. F \subseteq SUBSET Names /\ IsFiniteSet(Names)
    BY NamesFinite
  <2> HIDE DEF F
  <2> QED BY <1>1, <2>1, Minimal
<1>3. Used(T, d) = IF T = {} THEN 0 ELSE Usage(First(T), d) + Used(T \ {First(T)}, d)
  BY NamesFinite, UsedStep
<1>4. CASE T = {}
  BY <1>3, <1>4
<1>5. CASE T # {}
  <2>1. First(T) \in T /\ T \ {First(T)} \in SUBSET Names
    BY <1>5, FirstIn
  <2>2. Used(T \ {First(T)}, d) \in Nat
    BY <1>2, <2>1
  <2>3. Usage(First(T), d) \in Nat
    BY <2>1, UsageNat
  <2> QED BY <1>3, <1>5, <2>2, <2>3
<1> QED
  BY <1>4, <1>5

\* Any member can be taken out first: the sum does not depend on the order.
LEMMA UsedRemove ==
  ASSUME NEW S \in SUBSET Names, NEW i \in S, NEW d \in Dims
  PROVE  Used(S, d) = Usage(i, d) + Used(S \ {i}, d)
<1> DEFINE Splits(s, j) == Used(s, d) = Usage(j, d) + Used(s \ {j}, d)
           F == {s \in SUBSET Names : \E j \in s : ~Splits(s, j)}
<1>1. SUFFICES ASSUME F # {} PROVE FALSE
  OBVIOUS
<1>2. PICK T \in F : \A r \in F : r \subseteq T => r = T
  <2>1. F \subseteq SUBSET Names /\ IsFiniteSet(Names)
    BY NamesFinite
  <2> HIDE DEF F
  <2> QED BY <1>1, <2>1, Minimal
<1>3. PICK j \in T : ~Splits(T, j)
  OBVIOUS
<1> DEFINE c == First(T)
           rest == (T \ {c}) \ {j}
<1>4. c \in T /\ Splits(T, c)
  BY FirstIn, NamesFinite, UsedStep
<1>5. j # c
  BY <1>3, <1>4
<1>6. Splits(T \ {c}, j) /\ Splits(T \ {j}, c)
  <2>1. T \ {c} \notin F /\ T \ {j} \notin F
    BY <1>2, <1>4
  <2> QED BY <2>1, <1>4, <1>5
<1>7. (T \ {j}) \ {c} = rest
  OBVIOUS
<1>8. Usage(c, d) \in Nat /\ Usage(j, d) \in Nat /\ Used(rest, d) \in Nat
  BY <1>4, UsageNat, UsedNat
<1>9. /\ Used(T, d) = Usage(c, d) + Used(T \ {c}, d)
      /\ Used(T \ {c}, d) = Usage(j, d) + Used(rest, d)
      /\ Used(T \ {j}, d) = Usage(c, d) + Used(rest, d)
  BY <1>4, <1>6, <1>7
<1>10. Used(T, d) # Usage(j, d) + Used(T \ {j}, d)
  BY <1>3
<1> HIDE DEF c, rest, F, Splits
<1> QED
  BY <1>8, <1>9, <1>10

\* More instances need at least as much.
LEMMA UsedMonotone ==
  ASSUME NEW T \in SUBSET Names, NEW S \in SUBSET T, NEW d \in Dims
  PROVE  Used(S, d) <= Used(T, d)
<1> DEFINE F == {s \in SUBSET Names : S \subseteq s /\ ~(Used(S, d) <= Used(s, d))}
<1>1. SUFFICES ASSUME F # {} PROVE FALSE
  OBVIOUS
<1>2. PICK U \in F : \A r \in F : r \subseteq U => r = U
  <2>1. F \subseteq SUBSET Names /\ IsFiniteSet(Names)
    BY NamesFinite
  <2> HIDE DEF F
  <2> QED BY <1>1, <2>1, Minimal
<1>3. Used(S, d) \in Nat /\ Used(U, d) \in Nat
  BY UsedNat
<1>4. PICK i \in U : i \notin S
  BY <1>3
<1>5. Used(S, d) <= Used(U \ {i}, d)
  BY <1>2, <1>4
<1>6. Used(U, d) = Usage(i, d) + Used(U \ {i}, d)
  BY UsedRemove
<1>7. Usage(i, d) \in Nat /\ Used(U \ {i}, d) \in Nat
  BY UsageNat, UsedNat
<1>8. ~(Used(S, d) <= Used(U, d))
  OBVIOUS
<1> HIDE DEF F
<1> QED
  BY <1>3, <1>5, <1>6, <1>7, <1>8

-----------------------------------------------------------------------------
(* The limits.                                                             *)

\* A nonempty set of natural numbers has a least member, and Min is it.
LEMMA MinLeast ==
  ASSUME NEW X \in SUBSET Nat, X # {}
  PROVE  Min(X) \in X /\ \A y \in X : Min(X) <= y
<1>1. \E x \in X : \A y \in X : ~(<<y, x>> \in OpToRel(<, Nat))
  BY NatLessThanWellFounded, WFMin
<1>2. PICK x \in X : \A y \in X : <<y, x>> \notin OpToRel(<, Nat)
  BY <1>1
<1>3. ASSUME NEW y \in X PROVE x <= y
  <2>1. <<y, x>> \in Nat \X Nat /\ x \in Nat /\ y \in Nat
    OBVIOUS
  <2>2. ~(y < x)
    BY <1>2, <2>1 DEF OpToRel
  <2> QED BY <2>1, <2>2
<1> QED
  BY <1>3 DEF Min

\* The usage of S keeps every limit that the quotas in Q set.
Obeys(S, Q) == \A q \in Q : \A d \in DOMAIN q : Used(S, d) <= q[d]

\* The lowest limit of each dimension stands for all of them.
LEMMA LowestLimit ==
  ASSUME NEW Q \in SUBSET QuotaObjects, NEW S \in SUBSET Names, NEW d \in Dims,
         NEW found, found = {q \in Q : d \in DOMAIN q}
  PROVE  (\A limit \in (IF found = {} THEN {} ELSE {Min({q[d] : q \in found})}) : Used(S, d) <= limit)
           <=> \A q \in Q : d \in DOMAIN q => Used(S, d) <= q[d]
<1>1. CASE found = {}
  BY <1>1
<1>2. CASE found # {}
  <2> DEFINE X == {q[d] : q \in found}
  <2>1. X \in SUBSET Nat /\ X # {}
    BY <1>2, QuotaAssumption DEF QuotaAssumption
  <2>2. Min(X) \in X /\ \A y \in X : Min(X) <= y
    <3> HIDE DEF X
    <3> QED BY <2>1, MinLeast
  <2>3. Used(S, d) \in Nat
    BY UsedNat
  <2>4. Used(S, d) <= Min(X) <=> \A y \in X : Used(S, d) <= y
    <3> DEFINE m == Min(X)
               u == Used(S, d)
    <3>1. m \in X /\ (\A y \in X : m <= y) /\ u \in Nat /\ X \in SUBSET Nat
      BY <2>1, <2>2, <2>3
    <3> HIDE DEF X, m, u
    <3>2. ASSUME u <= m, NEW y \in X PROVE u <= y
      BY <3>1, <3>2
    <3>3. u <= m <=> \A y \in X : u <= y
      BY <3>1, <3>2
    <3> QED BY <3>3 DEF m, u
  <2>5. (\A y \in X : Used(S, d) <= y) <=> \A q \in Q : d \in DOMAIN q => Used(S, d) <= q[d]
    OBVIOUS
  <2> HIDE DEF X
  <2>6. (\A limit \in {Min(X)} : Used(S, d) <= limit) <=> Used(S, d) <= Min(X)
    OBVIOUS
  <2> QED BY <1>2, <2>4, <2>5, <2>6 DEF X
<1> QED
  BY <1>1, <1>2

\* The check against the lowest limits is one against every quota, in this
\* state and in the next.
LEMMA WithinObeys ==
  ASSUME NEW S \in SUBSET Names
  PROVE  /\ quotas \in SUBSET QuotaObjects => (Within(S) <=> Obeys(S, quotas))
         /\ quotas' \in SUBSET QuotaObjects => (Within(S)' <=> Obeys(S, quotas'))
<1> DEFINE Low(Q, d) == LET found == {q \in Q : d \in DOMAIN q}
                        IN  IF found = {} THEN {} ELSE {Min({q[d] : q \in found})}
<1>1. ASSUME NEW Q \in SUBSET QuotaObjects
      PROVE  (\A d \in Dims : \A limit \in Low(Q, d) : Used(S, d) <= limit) <=> Obeys(S, Q)
  <2>1. ASSUME NEW d \in Dims
        PROVE  (\A limit \in Low(Q, d) : Used(S, d) <= limit)
                 <=> \A q \in Q : d \in DOMAIN q => Used(S, d) <= q[d]
    BY LowestLimit
  <2>2. \A q \in Q : DOMAIN q \subseteq Dims
    BY QuotaAssumption DEF QuotaAssumption
  <2> HIDE DEF Low
  <2> QED BY <2>1, <2>2 DEF Obeys
<1>2. Within(S) <=> \A d \in Dims : \A limit \in Low(quotas, d) : Used(S, d) <= limit
  BY DEF Within, Limits
<1>3. Within(S)' <=> \A d \in Dims : \A limit \in Low(quotas', d) : Used(S, d) <= limit
  BY DEF Within, Limits
<1> HIDE DEF Low
<1> QED
  BY <1>1, <1>2, <1>3

\* Fewer instances keep the limits of fewer quotas.
LEMMA ObeysMonotone ==
  ASSUME NEW T \in SUBSET Names, NEW S \in SUBSET T,
         NEW Q \in SUBSET QuotaObjects, NEW R \in SUBSET Q, Obeys(T, Q)
  PROVE  Obeys(S, R)
<1> SUFFICES ASSUME NEW q \in R, NEW d \in DOMAIN q
             PROVE  Used(S, d) <= q[d]
  BY DEF Obeys
<1>1. d \in Dims /\ q[d] \in Nat
  BY QuotaAssumption DEF QuotaAssumption
<1>2. Used(S, d) \in Nat /\ Used(T, d) \in Nat /\ Used(S, d) <= Used(T, d)
  BY <1>1, UsedNat, UsedMonotone
<1>3. Used(T, d) <= q[d]
  BY DEF Obeys
<1> QED
  BY <1>1, <1>2, <1>3

\* What is within the limits stays so, and so does any part of it, as long as
\* no quota is added.
LEMMA WithinStays ==
  ASSUME quotas \in SUBSET QuotaObjects, NEW T \in SUBSET Names, NEW S \in SUBSET T, Within(T)
  PROVE  /\ Within(S)
         /\ quotas' \subseteq quotas => Within(S)'
<1>1. Obeys(T, quotas)
  BY WithinObeys
<1>2. Obeys(S, quotas) /\ (quotas' \subseteq quotas => Obeys(S, quotas'))
  BY <1>1, ObeysMonotone
<1>3. S \in SUBSET Names
  OBVIOUS
<1> QED
  BY <1>2, <1>3, WithinObeys

-----------------------------------------------------------------------------
(* Types.                                                                  *)

\* The initial states are well typed.
LEMMA InitType == Init => TypeOK
<1> SUFFICES ASSUME Init PROVE TypeOK
  OBVIOUS
<1>1. tightened \in BOOLEAN /\ crashes \in 0..MaxCrashes
  <2>1. MaxCrashes \in Nat
    BY QuotaAssumption
  <2>2. crashes \in 0..MaxCrashes
    BY <2>1 DEF Init
  <2>3. tightened \in BOOLEAN
    BY DEF Init
  <2> QED BY <2>2, <2>3
<1>2. /\ pool \in [pc : {"idle", "lock", "create"}, name : SUBSET Pooled]
      /\ gate \in [pc : {"idle", "lock", "record"}, name : SUBSET Names, fits : BOOLEAN]
      /\ pool.pc = "idle" /\ gate.pc = "idle"
  BY DEF Init, IdlePool, IdleGate
<1> QED
  BY <1>1, <1>2 DEF Init, TypeOK

\* Every step of the pool worker keeps the types, and the lock with it.
LEMMA PoolType == TypeOK /\ PoolStep => TypeOK'
<1> SUFFICES ASSUME TypeOK, PoolStep PROVE TypeOK'
  OBVIOUS
<1>1. CASE PoolStart
  BY <1>1 DEF TypeOK, PoolStart, IdlePool, world
<1>2. CASE PoolEvaluate
  <2>1. tightened' \in BOOLEAN
    BY <1>2 DEF TypeOK, PoolEvaluate
  <2>2. pool' \in [pc : {"idle", "lock", "create"}, name : SUBSET Pooled]
    BY <1>2 DEF PoolEvaluate, IdlePool
  <2>3. (lock' = "pool" <=> pool'.pc = "create") /\ lock' \in {"free", "pool"}
    BY <1>2 DEF TypeOK, PoolEvaluate, IdlePool
  <2> QED BY <1>2, <2>1, <2>2, <2>3 DEF TypeOK, PoolEvaluate, world
<1>3. CASE PoolCreate
  BY <1>3 DEF TypeOK, PoolCreate, IdlePool
<1> QED
  BY <1>1, <1>2, <1>3 DEF PoolStep

\* Every step of the instance worker does.
LEMMA GateType == TypeOK /\ (\E i \in Names : GateStep(i)) => TypeOK'
<1> SUFFICES ASSUME TypeOK, NEW i \in Names, GateStep(i) PROVE TypeOK'
  OBVIOUS
<1>1. CASE GateStart(i)
  BY <1>1 DEF TypeOK, GateStart, IdleGate, world
<1>2. CASE GateEvaluate
  <2>1. gate' \in [pc : {"idle", "lock", "record"}, name : SUBSET Names, fits : BOOLEAN]
        /\ gate'.pc = "record"
    <3> DEFINE f == \A j \in gate.name : Fits(j)
    <3>1. f \in BOOLEAN /\ gate' = [gate EXCEPT !.pc = "record", !.fits = f]
      BY <1>2 DEF GateEvaluate
    <3> HIDE DEF f
    <3> QED BY <3>1 DEF TypeOK
  <2>2. tightened' \in BOOLEAN
    BY <1>2 DEF GateEvaluate
  <2> QED BY <1>2, <2>1, <2>2 DEF TypeOK, GateEvaluate, world
<1>3. CASE GateRecord
  BY <1>3 DEF TypeOK, GateRecord, IdleGate, world
<1> QED
  BY <1>1, <1>2, <1>3 DEF GateStep

\* So does everything that users, administrators and restarts do.
LEMMA WorldType ==
  ASSUME TypeOK, \/ \E i \in Names : Teardown(i) \/ DeleteInstance(i)
                 \/ \E i \in Standalone : CreateStandalone(i)
                 \/ AddQuota \/ RemoveQuota \/ ChangeNamespace \/ Crash
  PROVE  TypeOK'
<1>1. CASE \E i \in Names : Teardown(i) \/ DeleteInstance(i)
  BY <1>1 DEF TypeOK, Teardown, DeleteInstance
<1>2. CASE \E i \in Standalone : CreateStandalone(i)
  BY <1>2 DEF TypeOK, CreateStandalone, Names
<1>3. CASE AddQuota \/ RemoveQuota \/ ChangeNamespace
  BY <1>3 DEF TypeOK, AddQuota, RemoveQuota, ChangeNamespace
<1>4. CASE Crash
  BY <1>4, QuotaAssumption DEF QuotaAssumption, TypeOK, Crash, IdlePool, IdleGate
<1> QED
  BY <1>1, <1>2, <1>3, <1>4

\* Types are kept by every step.
LEMMA NextType == TypeOK /\ [Next]_vars => TypeOK'
<1> SUFFICES ASSUME TypeOK, [Next]_vars PROVE TypeOK'
  OBVIOUS
<1>1. CASE UNCHANGED vars
  BY <1>1 DEF TypeOK, vars
<1> QED
  BY <1>1, PoolType, GateType, WorldType DEF Next

\* Every state is well typed, and the reservation mutex is held exactly by the
\* worker that acts on what it evaluated, whatever crashes.
THEOREM QuotaTypeCorrect == Spec => []TypeOK
BY InitType, NextType, PTL DEF Spec

-----------------------------------------------------------------------------
(* The quota.                                                              *)

\* Nothing exists at first, so nothing is used.
LEMMA InitQuota == Init => QuotaInv
<1> SUFFICES ASSUME Init PROVE QuotaInv
  OBVIOUS
<1>1. TypeOK
  BY InitType
<1>2. Admitted = {}
  BY DEF Init, Admitted, Exists
<1>3. Within({})
  <2>1. \A d : Used({}, d) = 0
    BY FS_EmptySet, UsedStep
  <2>2. Obeys({}, quotas)
    BY <2>1, <1>1, QuotaAssumption DEF Obeys, TypeOK, QuotaAssumption
  <2> QED BY <2>2, <1>1, WithinObeys DEF TypeOK
<1>4. QuotaKept
  BY <1>2, <1>3 DEF QuotaKept
<1>5. auth = {} /\ pool.pc = "idle" /\ pool.name = {} /\ gate.pc = "idle" /\ gate.name = {}
  BY DEF Init, IdlePool, IdleGate
<1> QED
  BY <1>1, <1>4, <1>5 DEF QuotaInv

\* A step after which no worker is at its write, and that admits no more than
\* what was within the limits, keeps the limits.
LEMMA AdmittedStays ==
  ASSUME TypeOK, quotas' \subseteq quotas,
         NEW T \in SUBSET Names, tightened' \/ Within(T), Admitted' \subseteq T
  PROVE  QuotaKept'
<1>1. PICK B : B = Admitted'
  OBVIOUS
<1>2. tightened' \/ Within(B)'
  BY <1>1, WithinStays DEF TypeOK
<1>3. Within(B)' => Within(Admitted)'
  BY <1>1 DEF Within
<1> QED
  BY <1>2, <1>3 DEF QuotaKept

\* A step that admits nothing and adds no quota keeps what each worker found.
LEMMA FoundStays ==
  ASSUME QuotaInv, TypeOK', quotas' \subseteq quotas, tightened' = tightened,
         Admitted' \subseteq Admitted,
         pool' = pool \/ pool'.pc # "create", gate' = gate \/ gate'.pc # "record"
  PROVE  /\ QuotaKept'
         /\ (pool.pc = "create" => tightened \/ Within(Admitted \cup pool.name))'
         /\ (gate.pc = "record" /\ gate.fits => tightened \/ Within(Admitted \cup gate.name))'
<1>1. TypeOK
  BY DEF QuotaInv
<1>2. PICK A \in SUBSET Names : A = Admitted
  BY DEF Admitted
<1>3. tightened \/ Within(A)
  BY <1>2 DEF QuotaInv, QuotaKept, Within
<1>4. QuotaKept'
  BY <1>1, <1>2, <1>3, AdmittedStays
<1>5. ASSUME pool'.pc = "create", ~tightened
      PROVE  Within(Admitted \cup pool.name)'
  <2>1. PICK P \in SUBSET Names : P = pool.name
    BY <1>1 DEF TypeOK, Names
  <2>2. PICK B : B = Admitted' \cup pool'.name
    OBVIOUS
  <2>3. pool' = pool
    BY <1>5
  <2>4. B \subseteq A \cup P
    BY <1>2, <2>1, <2>2, <2>3
  <2>5. Within(A \cup P)
    BY <1>2, <1>5, <2>1, <2>3 DEF QuotaInv, Within
  <2>6. Within(B)'
    BY <1>1, <2>4, <2>5, WithinStays DEF TypeOK
  <2> QED BY <2>2, <2>6 DEF Within
<1>6. ASSUME gate'.pc = "record", gate'.fits, ~tightened
      PROVE  Within(Admitted \cup gate.name)'
  <2>1. PICK P \in SUBSET Names : P = gate.name
    BY <1>1 DEF TypeOK
  <2>2. PICK B : B = Admitted' \cup gate'.name
    OBVIOUS
  <2>3. gate' = gate
    BY <1>6
  <2>4. B \subseteq A \cup P
    BY <1>2, <2>1, <2>2, <2>3
  <2>5. Within(A \cup P)
    BY <1>2, <1>6, <2>1, <2>3 DEF QuotaInv, Within
  <2>6. Within(B)'
    BY <1>1, <2>4, <2>5, WithinStays DEF TypeOK
  <2> QED BY <2>2, <2>6 DEF Within
<1> QED
  BY <1>4, <1>5, <1>6

\* A candidate that fits does so beside everything admitted.
LEMMA FitsAdmitted ==
  ASSUME TypeOK, NEW i \in Names, Fits(i)
  PROVE  Within(Admitted \cup {i})
<1>1. PICK T \in SUBSET Names : T = {j \in Names \ {i} : Reserves(j)} \cup {i}
  OBVIOUS
<1>2. PICK S : S = Admitted \cup {i}
  OBVIOUS
<1>3. S \in SUBSET T
  BY <1>1, <1>2 DEF Admitted, Reserves
<1>4. Within(T)
  BY <1>1 DEF Fits, Within
<1>5. Within(S)
  BY <1>3, <1>4, WithinStays DEF TypeOK
<1> QED
  BY <1>2, <1>5 DEF Within

\* The pool worker keeps the quota.  Its create admits the name that it found
\* to fit; the mutex keeps the other worker from its write meanwhile.
LEMMA PoolQuota == QuotaInv /\ PoolStep => QuotaInv'
<1> SUFFICES ASSUME QuotaInv, PoolStep PROVE QuotaInv'
  OBVIOUS
<1>1. TypeOK /\ TypeOK'
  BY PoolType DEF QuotaInv
<1>2. gate' = gate /\ auth' = auth /\ quotas' = quotas
  BY DEF PoolStep, PoolStart, PoolEvaluate, PoolCreate, world
<1>3. \A i \in auth' : Exists(i)'
  BY <1>1 DEF QuotaInv, PoolStep, PoolStart, PoolEvaluate, PoolCreate, world, TypeOK, Exists
<1>4. \A i, j \in gate'.name : i = j
  BY <1>2 DEF QuotaInv
<1>5. pool'.pc # "create" => pool'.name = {}
  BY DEF PoolStep, PoolStart, PoolEvaluate, PoolCreate, IdlePool
<1>6. ASSUME inst' = inst PROVE Admitted' = Admitted
  BY <1>2, <1>6 DEF Admitted, Exists
<1>7. CASE inst' = inst /\ pool'.pc # "create"
  <2>1. tightened' = tightened
    BY <1>7 DEF PoolStep, PoolStart, PoolEvaluate, PoolCreate
  <2> QED BY <1>1, <1>2, <1>3, <1>4, <1>5, <1>6, <1>7, <2>1, FoundStays DEF QuotaInv
<1>8. CASE PoolEvaluate /\ pool'.pc = "create"
  <2>1. PICK i \in Pooled : Fits(i) /\ pool'.name = {i} /\ lock' = "pool"
    BY <1>8 DEF PoolEvaluate, IdlePool
  <2>2. inst' = inst
    BY <1>8 DEF PoolEvaluate, world
  <2>3. PICK S : S = Admitted \cup {i}
    OBVIOUS
  <2>4. Within(S)
    BY <1>1, <2>1, <2>3, FitsAdmitted DEF Names, Within
  <2>5. S \in SUBSET Names
    BY <2>1, <2>3 DEF Admitted, Names
  <2>6. Within(S)'
    BY <1>1, <1>2, <2>4, <2>5, WithinStays DEF TypeOK
  <2>7. S = Admitted' \cup pool'.name
    BY <1>6, <2>1, <2>2, <2>3
  <2>8. Within(Admitted \cup pool.name)'
    BY <2>6, <2>7 DEF Within
  <2>9. gate'.pc # "record"
    BY <1>1, <2>1 DEF TypeOK
  <2>10. QuotaKept'
    BY <1>1, <1>2, <1>6, <2>2, <2>3, <2>4, <2>5, AdmittedStays
  <2> QED BY <1>1, <1>3, <1>4, <1>5, <2>8, <2>9, <2>10 DEF QuotaInv
<1>9. CASE PoolCreate
  <2>1. PICK T : T = Admitted \cup pool.name
    OBVIOUS
  <2>2. T \in SUBSET Names
    BY <1>1, <2>1 DEF TypeOK, Admitted, Names
  <2>3. tightened \/ Within(T)
    BY <1>9, <2>1 DEF PoolCreate, QuotaInv, Within
  <2>4. Admitted' \subseteq T
    BY <1>1, <1>2, <1>9, <2>1 DEF PoolCreate, Admitted, Exists, TypeOK
  <2>5. QuotaKept'
    BY <1>1, <1>2, <1>9, <2>2, <2>3, <2>4, AdmittedStays DEF PoolCreate
  <2>6. pool'.pc # "create" /\ gate'.pc # "record"
    BY <1>1, <1>9 DEF PoolCreate, TypeOK, IdlePool
  <2> QED BY <1>1, <1>3, <1>4, <1>5, <2>5, <2>6 DEF QuotaInv
<1>10. PoolStart \/ PoolEvaluate => inst' = inst
  BY DEF PoolStart, PoolEvaluate, world
<1>11. PoolStart => pool'.pc # "create"
  BY DEF PoolStart, IdlePool
<1> QED
  BY <1>7, <1>8, <1>9, <1>10, <1>11 DEF PoolStep

\* The instance worker keeps the quota.  The authorization that it records is
\* of the instance that it found to fit.
LEMMA GateQuota == QuotaInv /\ (\E i \in Names : GateStep(i)) => QuotaInv'
<1> SUFFICES ASSUME QuotaInv, NEW i \in Names, GateStep(i) PROVE QuotaInv'
  OBVIOUS
<1>1. TypeOK /\ TypeOK'
  BY GateType DEF QuotaInv
<1>2. pool' = pool /\ inst' = inst /\ quotas' = quotas
  BY DEF GateStep, GateStart, GateEvaluate, GateRecord, world
<1>3. \A j \in auth' : Exists(j)'
  BY <1>1, <1>2 DEF QuotaInv, GateStep, GateStart, GateEvaluate, GateRecord, world, TypeOK, Exists
<1>4. \A j, k \in gate'.name : j = k
  <2>1. GateStart(i) => gate'.name = {i}
    BY DEF GateStart, IdleGate
  <2>2. GateRecord => gate'.name = {}
    BY DEF GateRecord, IdleGate
  <2>3. GateEvaluate => gate'.name = gate.name
    <3> DEFINE f == \A j \in gate.name : Fits(j)
    <3>1. GateEvaluate => gate' = [gate EXCEPT !.pc = "record", !.fits = f]
      BY DEF GateEvaluate
    <3> HIDE DEF f
    <3> QED BY <1>1, <3>1 DEF TypeOK
  <2>4. gate'.name = {i} \/ gate'.name = {} \/ gate'.name = gate.name
    BY <2>1, <2>2, <2>3 DEF GateStep
  <2> QED BY <2>4 DEF QuotaInv
<1>5. pool'.pc # "create" => pool'.name = {}
  BY <1>2 DEF QuotaInv
<1>6. ASSUME auth' = auth PROVE Admitted' = Admitted
  BY <1>2, <1>6 DEF Admitted, Exists
<1>7. CASE GateStart(i)
  <2>1. auth' = auth /\ tightened' = tightened /\ gate'.pc # "record"
    BY <1>7 DEF GateStart, IdleGate
  <2> QED BY <1>1, <1>2, <1>3, <1>4, <1>5, <1>6, <2>1, FoundStays DEF QuotaInv
<1>8. CASE GateEvaluate /\ i \in gate.name
  <2>1. /\ auth' = auth /\ lock' = "gate" /\ gate'.name = gate.name
        /\ gate'.fits => Fits(i)
    <3> DEFINE f == \A j \in gate.name : Fits(j)
    <3>1. gate' = [gate EXCEPT !.pc = "record", !.fits = f] /\ f \in BOOLEAN
      BY <1>8 DEF GateEvaluate
    <3>2. f => Fits(i)
      BY <1>8
    <3> HIDE DEF f
    <3>3. gate'.name = gate.name /\ gate'.fits = f
      BY <1>1, <3>1 DEF TypeOK
    <3> QED BY <1>8, <3>2, <3>3 DEF GateEvaluate
  <2>2. gate.name = {i}
    BY <1>8 DEF QuotaInv
  <2>3. PICK S : S = Admitted \cup {i}
    OBVIOUS
  <2>4. S \in SUBSET Names
    BY <2>3 DEF Admitted
  <2>5. gate'.fits => Within(S)
    BY <1>1, <2>1, <2>3, FitsAdmitted DEF Within
  <2>6. ASSUME gate'.fits PROVE Within(Admitted \cup gate.name)'
    <3>1. Within(S)
      BY <2>5, <2>6
    <3>2. Within(S)'
      BY <1>1, <1>2, <2>4, <3>1, WithinStays DEF TypeOK
    <3>3. S = Admitted' \cup gate'.name
      BY <1>6, <2>1, <2>2, <2>3
    <3> QED BY <3>2, <3>3 DEF Within
  <2>7. pool'.pc # "create"
    BY <1>1, <2>1 DEF TypeOK
  <2>8. CASE gate'.fits
    <3>1. QuotaKept'
      BY <1>1, <1>2, <1>6, <2>1, <2>3, <2>4, <2>5, <2>8, AdmittedStays
    <3> QED BY <1>1, <1>3, <1>4, <1>5, <2>6, <2>7, <3>1 DEF QuotaInv
  <2>9. CASE ~gate'.fits
    <3>1. tightened' = tightened
      BY <1>1, <1>8, <2>9 DEF GateEvaluate, TypeOK
    <3>2. QuotaKept'
      BY <1>2, <1>6, <2>1, <3>1 DEF QuotaInv, QuotaKept, Within, Limits
    <3> QED BY <1>1, <1>3, <1>4, <1>5, <2>7, <2>9, <3>2 DEF QuotaInv
  <2> QED BY <2>8, <2>9
<1>9. CASE GateRecord
  <2>1. pool'.pc # "create" /\ gate'.pc # "record" /\ tightened' = tightened
    BY <1>1, <1>9 DEF GateRecord, TypeOK, IdleGate
  <2>2. CASE ~gate.fits
    <3>1. auth' = auth
      BY <1>9, <2>2 DEF GateRecord
    <3> QED BY <1>1, <1>2, <1>3, <1>4, <1>5, <1>6, <2>1, <3>1, FoundStays DEF QuotaInv
  <2>3. CASE gate.fits
    <3>1. PICK T : T = Admitted \cup gate.name
      OBVIOUS
    <3>2. T \in SUBSET Names
      BY <1>1, <3>1 DEF TypeOK, Admitted
    <3>3. tightened \/ Within(T)
      BY <1>9, <2>3, <3>1 DEF GateRecord, QuotaInv, Within
    <3>4. Admitted' \subseteq T
      BY <1>2, <1>9, <2>3, <3>1 DEF GateRecord, Admitted, Exists
    <3>5. QuotaKept'
      BY <1>1, <1>2, <2>1, <3>2, <3>3, <3>4, AdmittedStays
    <3> QED BY <1>1, <1>3, <1>4, <1>5, <2>1, <3>5 DEF QuotaInv
  <2> QED BY <2>2, <2>3
<1> QED
  BY <1>7, <1>8, <1>9 DEF GateStep

\* Whatever users, administrators and restarts do admits nothing; only a quota
\* that is added takes the limits away from under what was admitted.
LEMMA WorldQuota ==
  ASSUME QuotaInv, \/ \E i \in Names : Teardown(i) \/ DeleteInstance(i)
                   \/ \E i \in Standalone : CreateStandalone(i)
                   \/ AddQuota \/ RemoveQuota \/ ChangeNamespace \/ Crash
  PROVE  QuotaInv'
<1>1. TypeOK /\ TypeOK'
  BY WorldType DEF QuotaInv
<1>2. ASSUME auth' \subseteq auth, \A i \in auth' : Exists(i)',
             \A i \in Pooled : Exists(i)' => Exists(i)
      PROVE  Admitted' \subseteq Admitted
  BY <1>1, <1>2 DEF Admitted, QuotaInv
<1>3. auth' \subseteq auth
  BY DEF Teardown, DeleteInstance, CreateStandalone, AddQuota, RemoveQuota, ChangeNamespace, Crash
<1>4. \A i \in auth' : Exists(i)'
  BY <1>1 DEF QuotaInv, TypeOK, Exists, Teardown, DeleteInstance, CreateStandalone, AddQuota,
              RemoveQuota, ChangeNamespace, Crash
<1>5. \A i \in Pooled : Exists(i)' => Exists(i)
  BY <1>1, QuotaAssumption DEF QuotaAssumption, Names, TypeOK, Exists, Teardown, DeleteInstance,
     CreateStandalone, AddQuota, RemoveQuota, ChangeNamespace, Crash
<1>6. Admitted' \subseteq Admitted
  BY <1>2, <1>3, <1>4, <1>5
<1>7. pool' = pool \/ pool' = IdlePool
  BY DEF Teardown, DeleteInstance, CreateStandalone, AddQuota, RemoveQuota, ChangeNamespace, Crash
<1>8. gate' = gate \/ gate' = IdleGate
  BY DEF Teardown, DeleteInstance, CreateStandalone, AddQuota, RemoveQuota, ChangeNamespace, Crash
<1>9. pool'.pc # "create" => pool'.name = {}
  BY <1>7 DEF QuotaInv, IdlePool
<1>10. \A i, j \in gate'.name : i = j
  BY <1>8 DEF QuotaInv, IdleGate
<1>11. CASE AddQuota
  BY <1>1, <1>4, <1>9, <1>10, <1>11 DEF AddQuota, QuotaInv, QuotaKept
<1>12. CASE ~AddQuota
  <2>1. quotas' \subseteq quotas /\ tightened' = tightened
    BY <1>12 DEF Teardown, DeleteInstance, CreateStandalone, RemoveQuota, ChangeNamespace, Crash
  <2>2. (pool' = pool \/ pool'.pc # "create") /\ (gate' = gate \/ gate'.pc # "record")
    BY <1>7, <1>8 DEF IdlePool, IdleGate
  <2> QED BY <1>1, <1>4, <1>6, <1>9, <1>10, <2>1, <2>2, FoundStays DEF QuotaInv
<1> QED
  BY <1>11, <1>12

\* The inductive invariant is kept by every step.
LEMMA NextQuota == QuotaInv /\ [Next]_vars => QuotaInv'
<1> SUFFICES ASSUME QuotaInv, [Next]_vars PROVE QuotaInv'
  OBVIOUS
<1>1. CASE UNCHANGED vars
  BY <1>1, NextType, FoundStays DEF vars, QuotaInv, Admitted, Exists
<1> QED
  BY <1>1, PoolQuota, GateQuota, WorldQuota DEF Next

\* What the workers found to fit stays so until they act on it.
THEOREM QuotaInvariant == Spec => []QuotaInv
BY InitQuota, NextQuota, PTL DEF Spec

\* Two controllers that each decide from a list, restarts between decision and
\* write, and deletions at any time never let more through than the limits
\* allow, for any instances, templates and quotas.
THEOREM QuotaIsKept == Spec => []QuotaKept
<1>1. QuotaInv => QuotaKept
  BY DEF QuotaInv
<1> QED
  BY <1>1, QuotaInvariant, PTL

\* A pool's instance has its place: unless a quota was added or a standalone
\* instance without an authorization is being deleted, the gate finds that the
\* instance fits and never blocks it for the quota.
THEOREM ReservationFits ==
  Spec => [](\/ tightened
             \/ \E j \in Standalone \ auth : inst[j] = "deleting"
             \/ \A i \in Pooled : Exists(i) => Fits(i))
<1>1. ASSUME QuotaInv, ~tightened, ~ \E j \in Standalone \ auth : inst[j] = "deleting",
             NEW i \in Pooled, Exists(i)
      PROVE  Fits(i)
  <2>1. {j \in Names \ {i} : Reserves(j)} \cup {i} = Admitted
    BY <1>1 DEF Reserves, Admitted, Exists, Names
  <2> QED BY <1>1, <2>1 DEF Fits, QuotaInv, QuotaKept
<1>2. QuotaInv => \/ tightened
                  \/ \E j \in Standalone \ auth : inst[j] = "deleting"
                  \/ \A i \in Pooled : Exists(i) => Fits(i)
  BY <1>1
<1> QED
  BY <1>2, QuotaInvariant, PTL
=============================================================================
