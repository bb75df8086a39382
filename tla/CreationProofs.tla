--------------------------- MODULE CreationProofs ---------------------------
(***************************************************************************)
(* Proofs about Creation, for configurations of any length and content,    *)
(* any arguments and any changes by others meanwhile.                      *)
(*                                                                         *)
(* The code merges lists in loops, and so does the model, with the folds   *)
(* of the community modules.  The first part of this module is about       *)
(* them: induction over the natural numbers for sets (the prover cannot    *)
(* use the library's, whose parameter is an operator), that a fold has the *)
(* intermediate results a loop has, and from them what each merge returns. *)
(***************************************************************************)
EXTENDS Creation, FiniteSetTheorems, WellFoundedInduction, TLAPS

-----------------------------------------------------------------------------
(* Induction.                                                              *)

\* A set with 0 and the successor of each of its numbers has all of them: by
\* the least number outside.
LEMMA NatSetInduction ==
  ASSUME NEW S, 0 \in S, \A n \in Nat : n \in S => n + 1 \in S
  PROVE  Nat \subseteq S
<1> DEFINE T == Nat \ S
<1> SUFFICES ASSUME T # {} PROVE FALSE
  OBVIOUS
<1>1. PICK x \in T : \A y \in T : ~(<<y, x>> \in OpToRel(<, Nat))
  BY WFMin, NatLessThanWellFounded
<1>2. \A y \in T : ~(y < x)
  BY <1>1 DEF OpToRel
<1>3. x # 0 /\ x - 1 \in Nat /\ x - 1 + 1 = x
  OBVIOUS
<1>4. x - 1 \in S
  BY <1>2, <1>3
<1> QED
  BY <1>3, <1>4

\* Induction up to n.
LEMMA Upward ==
  ASSUME NEW S, NEW n \in Nat, 0 \in S, \A k \in 1..n : k - 1 \in S => k \in S
  PROVE  0..n \subseteq S
<1> DEFINE T == {k \in Nat : k > n \/ k \in S}
<1>1. \A k \in Nat : k \in T => k + 1 \in T
  <2> SUFFICES ASSUME NEW k \in Nat, k \in T, k + 1 <= n PROVE k + 1 \in S
    OBVIOUS
  <2>1. k \in S /\ k + 1 \in 1..n /\ (k + 1) - 1 = k
    OBVIOUS
  <2> QED
    BY <2>1
<1>2. 0 \in T
  OBVIOUS
<1> HIDE DEF T
<1>3. Nat \subseteq T
  BY <1>1, <1>2, NatSetInduction
<1> QED
  BY <1>3 DEF T

\* A set of numbers up to n has a greatest, which CHOOSE in Max finds.
LEMMA MaxOf ==
  ASSUME NEW n \in Nat, NEW S, S \subseteq 1..n, S # {}
  PROVE  Max(S) \in S /\ \A x \in S : Max(S) >= x
<1> DEFINE Has(s) == \E x \in s : \A y \in s : x >= y
           T == {k \in Nat : \A s \in SUBSET (1..k) : s # {} => Has(s)}
<1>1. 0 \in T
  <2>1. 1..0 = {}
    OBVIOUS
  <2> QED
    BY <2>1
<1>2. ASSUME NEW k \in Nat, k \in T PROVE k + 1 \in T
  <2> SUFFICES ASSUME NEW s \in SUBSET (1..(k + 1)), s # {} PROVE Has(s)
    OBVIOUS
  <2>1. CASE k + 1 \in s
    BY <2>1
  <2>2. CASE k + 1 \notin s
    <3>1. s \in SUBSET (1..k)
      BY <2>2
    <3> QED
      BY <3>1, <1>2
  <2> QED
    BY <2>1, <2>2
<1> HIDE DEF T
<1>3. n \in T
  BY <1>1, <1>2, NatSetInduction
<1>4. Has(S)
  BY <1>3 DEF T
<1> QED
  BY <1>4 DEF Max

\* And a least.
LEMMA MinOf ==
  ASSUME NEW n \in Nat, NEW S, S \subseteq 1..n, S # {}
  PROVE  Min(S) \in S /\ \A x \in S : Min(S) <= x
<1> DEFINE R == {n + 1 - x : x \in S}
<1>1. R \subseteq 1..n /\ R # {}
  <2>1. \A x \in S : x \in 1..n /\ n + 1 - x \in 1..n
    OBVIOUS
  <2> QED
    BY <2>1
<1>2. Max(R) \in R /\ \A x \in R : Max(R) >= x
  BY <1>1, MaxOf
<1>3. PICK x \in S : Max(R) = n + 1 - x
  BY <1>2
<1>4. \A y \in S : x <= y
  BY <1>2, <1>3
<1> QED
  BY <1>4 DEF Min

-----------------------------------------------------------------------------
(* Folds.  F stands for the operator of a fold, as a function.             *)

Iterates(iter, base, seq, F) ==
  iter = [s \in SUBSET DOMAIN seq |->
            IF s = {} THEN base ELSE F[<<iter[s \ {Max(s)}], seq[Max(s)]>>]]

\* The function that MapThenFoldSet defines by recursion, with the greatest index
\* taken first, exists for a loop over a list: by induction on the sets of
\* indices below n.
LEMMA IterExists ==
  ASSUME NEW X, NEW E, NEW base \in X, NEW seq \in Seq(E), NEW F \in [X \X E -> X]
  PROVE  \E iter \in [SUBSET DOMAIN seq -> X] : Iterates(iter, base, seq, F)
<1> DEFINE N == Len(seq)
           Is(g, k) == g = [s \in SUBSET (1..k) |->
                              IF s = {} THEN base ELSE F[<<g[s \ {Max(s)}], seq[Max(s)]>>]]
           T == {k \in 0..N : \E g \in [SUBSET (1..k) -> X] : Is(g, k)}
<1>0. N \in Nat /\ DOMAIN seq = 1..N /\ \A k \in 1..N : seq[k] \in E
  OBVIOUS
<1>1. 0 \in T
  <2> DEFINE g == [s \in SUBSET (1..0) |-> base]
  <2>1. SUBSET (1..0) = {{}}
    OBVIOUS
  <2>2. Is(g, 0) /\ g \in [SUBSET (1..0) -> X]
    BY <2>1
  <2> QED
    BY <2>2, <1>0
<1>2. ASSUME NEW k \in 1..N, k - 1 \in T PROVE k \in T
  <2>1. PICK g \in [SUBSET (1..(k - 1)) -> X] : Is(g, k - 1)
    BY <1>2
  <2> DEFINE h == [s \in SUBSET (1..k) |->
                     IF k \in s THEN F[<<g[s \ {k}], seq[k]>>] ELSE g[s]]
  <2>2. \A s \in SUBSET (1..k) : k \in s => Max(s) = k /\ s \ {k} \in SUBSET (1..(k - 1))
    <3> SUFFICES ASSUME NEW s \in SUBSET (1..k), k \in s
                 PROVE  Max(s) = k /\ s \ {k} \in SUBSET (1..(k - 1))
      OBVIOUS
    <3>1. s \subseteq 1..k /\ k \in Nat /\ s # {}
      OBVIOUS
    <3>2. PICK m \in s : Max(s) = m /\ \A x \in s : m >= x
      BY <3>1, MaxOf
    <3>3. m \in 1..k /\ m >= k
      BY <3>1, <3>2
    <3>4. m = k
      BY <3>1, <3>3
    <3> QED
      BY <3>1, <3>2, <3>4
  <2>3. \A s \in SUBSET (1..k) : k \notin s => s \in SUBSET (1..(k - 1))
    OBVIOUS
  <2>4. \A s \in SUBSET (1..(k - 1)) :
           s # {} => Max(s) \in s /\ s \ {Max(s)} \in SUBSET (1..(k - 1))
    <3> SUFFICES ASSUME NEW s, s \subseteq 1..(k - 1), s # {} PROVE Max(s) \in s
      OBVIOUS
    <3>1. k - 1 \in Nat
      OBVIOUS
    <3> QED
      BY <3>1, MaxOf
  <2>5. h \in [SUBSET (1..k) -> X]
    BY <2>2, <2>3, <1>0
  <2>6. ASSUME NEW s \in SUBSET (1..k), s # {}
        PROVE  h[s] = F[<<h[s \ {Max(s)}], seq[Max(s)]>>]
    <3>1. CASE k \in s
      <4>1. s \ {k} \in SUBSET (1..k) /\ k \notin s \ {k}
        OBVIOUS
      <4>2. h[s \ {k}] = g[s \ {k}]
        BY <4>1
      <4> QED
        BY <3>1, <4>2, <2>2
    <3>2. CASE k \notin s
      <4>1. g[s] = F[<<g[s \ {Max(s)}], seq[Max(s)]>>]
        BY <2>1, <2>3, <2>6, <3>2
      <4>2. Max(s) \in s /\ s \ {Max(s)} \in SUBSET (1..k) /\ k \notin s \ {Max(s)}
        BY <2>3, <2>4, <2>6, <3>2
      <4> QED
        BY <3>2, <4>1, <4>2
    <3> QED
      BY <3>1, <3>2
  <2>7. h[{}] = base
    <3>1. {} \in SUBSET (1..(k - 1)) /\ {} \in SUBSET (1..k)
      OBVIOUS
    <3> QED
      BY <3>1, <2>1
  <2>8. Is(h, k)
    BY <2>6, <2>7
  <2>9. \E g1 \in [SUBSET (1..k) -> X] : Is(g1, k)
    BY <2>5, <2>8
  <2>10. k \in 0..N
    BY <1>0
  <2> HIDE DEF Is, N, h
  <2> QED
    BY <2>9, <2>10
<1> HIDE DEF T
<1>3. N \in T
  <2>1. 0..N \subseteq T
    BY <1>0, <1>1, <1>2, Upward
  <2> QED
    BY <1>0, <2>1
<1> QED
  BY <1>3, <1>0 DEF T, Iterates

\* Of the indices 1..k the fold takes k and leaves 1..k-1.
LEMMA OneTo ==
  ASSUME NEW n \in Nat, NEW k \in 1..n
  PROVE  Max(1..k) = k /\ (1..k) \ {k} = 1..(k - 1) /\ 1..k # {}
<1>1. k \in Nat /\ 1..k \subseteq 1..k /\ k \in 1..k
  OBVIOUS
<1>2. PICK m \in 1..k : Max(1..k) = m /\ \A x \in 1..k : m >= x
  BY <1>1, MaxOf
<1>3. m = k
  BY <1>1, <1>2
<1>4. (1..k) \ {k} = 1..(k - 1)
  OBVIOUS
<1> QED
  BY <1>1, <1>2, <1>3, <1>4

\* The same, with what a list's indices are.
LEMMA OneToIn ==
  ASSUME NEW E, NEW seq \in Seq(E)
  PROVE  /\ DOMAIN seq = 1..Len(seq) /\ 1..0 = {} /\ 0 \in 0..Len(seq) /\ Len(seq) \in 0..Len(seq)
         /\ \A k \in 1..Len(seq) :
              /\ 1..k \in SUBSET DOMAIN seq /\ 1..k # {} /\ Max(1..k) = k
              /\ (1..k) \ {k} = 1..(k - 1) /\ k \in 0..Len(seq) /\ k - 1 \in 0..Len(seq)
<1>1. /\ Len(seq) \in Nat /\ DOMAIN seq = 1..Len(seq) /\ 1..0 = {}
      /\ 0 \in 0..Len(seq) /\ Len(seq) \in 0..Len(seq)
  OBVIOUS
<1>2. \A k \in 1..Len(seq) : 1..k \in SUBSET DOMAIN seq /\ k \in 0..Len(seq) /\ k - 1 \in 0..Len(seq)
  BY <1>1
<1>3. \A k \in 1..Len(seq) : 1..k # {} /\ Max(1..k) = k /\ (1..k) \ {k} = 1..(k - 1)
  <2> SUFFICES ASSUME NEW k \in 1..Len(seq)
               PROVE  1..k # {} /\ Max(1..k) = k /\ (1..k) \ {k} = 1..(k - 1)
    OBVIOUS
  <2> QED
    BY <1>1, OneTo
<1> QED
  BY <1>1, <1>2, <1>3

\* The greatest of some of a list's indices is an index of it.
LEMMA LastOf ==
  ASSUME NEW E, NEW seq \in Seq(E), NEW s \in SUBSET DOMAIN seq, s # {}
  PROVE  Max(s) \in DOMAIN seq /\ seq[Max(s)] \in E /\ s \ {Max(s)} \in SUBSET DOMAIN seq
<1>1. Len(seq) \in Nat /\ s \subseteq 1..Len(seq)
  OBVIOUS
<1>2. Max(s) \in s
  BY <1>1, MaxOf
<1> QED
  BY <1>2

-----------------------------------------------------------------------------
(* The loops of the merges.                                                *)

\* A function on 1..n into E is a list.
LEMMA ListOf ==
  ASSUME NEW E, NEW n \in Nat, NEW f \in [1..n -> E]
  PROVE  f \in Seq(E) /\ Len(f) = n
OBVIOUS

\* A step of the loop of mergeByName keeps the type of its list.
LEMMA SetByNameType ==
  ASSUME NEW E, NEW list \in Seq(E), NEW e \in E
  PROVE  SetByName(list, e) \in Seq(E)
<1>1. CASE e.name \in NamesOf(list)
  <2> DEFINE f == [i \in DOMAIN list |-> IF list[i].name = e.name THEN e ELSE list[i]]
  <2>1. f \in [1..Len(list) -> E] /\ Len(list) \in Nat
    OBVIOUS
  <2>2. f \in Seq(E)
    BY <2>1, ListOf
  <2> QED
    BY <1>1, <2>2 DEF SetByName
<1>2. CASE e.name \notin NamesOf(list)
  BY <1>2 DEF SetByName
<1> QED
  BY <1>1, <1>2

\* A step of the loop of SetMounts keeps the type of its list.
LEMMA SetMountType ==
  ASSUME NEW E, NEW list \in Seq(E), NEW e \in E
  PROVE  SetMount(list, e) \in Seq(E)
<1>1. CASE \E x \in ToSet(list) : SameMount(x, e)
  <2> DEFINE f == [i \in DOMAIN list |-> IF SameMount(list[i], e) THEN e ELSE list[i]]
  <2>1. f \in [1..Len(list) -> E] /\ Len(list) \in Nat
    OBVIOUS
  <2>2. f \in Seq(E)
    BY <2>1, ListOf
  <2> QED
    BY <1>1, <2>2 DEF SetMount
<1>2. CASE ~ \E x \in ToSet(list) : SameMount(x, e)
  BY <1>2 DEF SetMount
<1> QED
  BY <1>1, <1>2

\* mergeByName has the intermediate results of a loop over the override.
LEMMA SetByNameLoop ==
  ASSUME NEW E, NEW base \in Seq(E), NEW seq \in Seq(E)
  PROVE  \E f : /\ f[0] = base /\ f[Len(seq)] = mergeByName(base, seq)
                /\ \A k \in 1..Len(seq) : f[k] = SetByName(f[k - 1], seq[k])
<1> DEFINE X == Seq(E)
           F == [p \in X \X E |-> SetByName(p[1], p[2])]
           Is(iter) == iter = [s \in SUBSET DOMAIN seq |->
                         IF s = {} THEN base ELSE SetByName(iter[s \ {Max(s)}], seq[Max(s)])]
           it == CHOOSE iter : Is(iter)
           f == [k \in 0..Len(seq) |-> it[1..k]]
<1>1. F \in [X \X E -> X]
  BY SetByNameType
<1>2. \A p \in X \X E : F[p] = SetByName(p[1], p[2])
  OBVIOUS
<1> HIDE DEF X, F
<1>3. PICK g \in [SUBSET DOMAIN seq -> X] : Iterates(g, base, seq, F)
  <2>1. base \in X
    BY DEF X
  <2> QED
    BY <1>1, <2>1, IterExists
<1>4. Is(g)
  <2>1. \A s \in SUBSET DOMAIN seq : s # {} =>
          g[s \ {Max(s)}] \in X /\ seq[Max(s)] \in E
    BY LastOf
  <2> QED
    BY <1>2, <1>3, <2>1 DEF Iterates
<1>5. Is(it)
  BY <1>4
<1>6. mergeByName(base, seq) = it[DOMAIN seq]
  BY DEF mergeByName, FoldLeft, MapThenFoldSet
<1> HIDE DEF it
<1>7. /\ DOMAIN seq = 1..Len(seq) /\ 1..0 = {} /\ 0 \in 0..Len(seq) /\ Len(seq) \in 0..Len(seq)
      /\ \A k \in 1..Len(seq) :
           /\ 1..k \in SUBSET DOMAIN seq /\ 1..k # {} /\ Max(1..k) = k
           /\ (1..k) \ {k} = 1..(k - 1) /\ k \in 0..Len(seq) /\ k - 1 \in 0..Len(seq)
  BY OneToIn
<1>8. \A k \in 1..Len(seq) : it[1..k] = SetByName(it[1..(k - 1)], seq[k])
  <2> SUFFICES ASSUME NEW k \in 1..Len(seq) PROVE it[1..k] = SetByName(it[1..(k - 1)], seq[k])
    OBVIOUS
  <2> HIDE DEF f
  <2> QED
    BY <1>5, <1>7
<1>9. it[{}] = base
  BY <1>5
<1>10. f[0] = base /\ f[Len(seq)] = it[DOMAIN seq]
  BY <1>7, <1>9
<1>11. \A k \in 1..Len(seq) : f[k] = SetByName(f[k - 1], seq[k])
  BY <1>7, <1>8
<1> QED
  BY <1>6, <1>10, <1>11

\* AppendAllNew has the intermediate results of a loop over the new strings.
LEMMA AppendNewLoop ==
  ASSUME NEW E, NEW base \in Seq(E), NEW seq \in Seq(E)
  PROVE  \E f : /\ f[0] = base /\ f[Len(seq)] = AppendAllNew(base, seq)
                /\ \A k \in 1..Len(seq) : f[k] = AppendNew(f[k - 1], seq[k])
<1> DEFINE X == Seq(E)
           F == [p \in X \X E |-> AppendNew(p[1], p[2])]
           Is(iter) == iter = [s \in SUBSET DOMAIN seq |->
                         IF s = {} THEN base ELSE AppendNew(iter[s \ {Max(s)}], seq[Max(s)])]
           it == CHOOSE iter : Is(iter)
           f == [k \in 0..Len(seq) |-> it[1..k]]
<1>1. F \in [X \X E -> X]
  BY DEF AppendNew
<1>2. \A p \in X \X E : F[p] = AppendNew(p[1], p[2])
  OBVIOUS
<1> HIDE DEF X, F
<1>3. PICK g \in [SUBSET DOMAIN seq -> X] : Iterates(g, base, seq, F)
  <2>1. base \in X
    BY DEF X
  <2> QED
    BY <1>1, <2>1, IterExists
<1>4. Is(g)
  <2>1. \A s \in SUBSET DOMAIN seq : s # {} =>
          g[s \ {Max(s)}] \in X /\ seq[Max(s)] \in E
    BY LastOf
  <2> QED
    BY <1>2, <1>3, <2>1 DEF Iterates
<1>5. Is(it)
  BY <1>4
<1>6. AppendAllNew(base, seq) = it[DOMAIN seq]
  BY DEF AppendAllNew, FoldLeft, MapThenFoldSet
<1> HIDE DEF it
<1>7. /\ DOMAIN seq = 1..Len(seq) /\ 1..0 = {} /\ 0 \in 0..Len(seq) /\ Len(seq) \in 0..Len(seq)
      /\ \A k \in 1..Len(seq) :
           /\ 1..k \in SUBSET DOMAIN seq /\ 1..k # {} /\ Max(1..k) = k
           /\ (1..k) \ {k} = 1..(k - 1) /\ k \in 0..Len(seq) /\ k - 1 \in 0..Len(seq)
  BY OneToIn
<1>8. \A k \in 1..Len(seq) : it[1..k] = AppendNew(it[1..(k - 1)], seq[k])
  <2> SUFFICES ASSUME NEW k \in 1..Len(seq) PROVE it[1..k] = AppendNew(it[1..(k - 1)], seq[k])
    OBVIOUS
  <2> HIDE DEF f
  <2> QED
    BY <1>5, <1>7
<1>9. it[{}] = base
  BY <1>5
<1>10. f[0] = base /\ f[Len(seq)] = it[DOMAIN seq]
  BY <1>7, <1>9
<1>11. \A k \in 1..Len(seq) : f[k] = AppendNew(f[k - 1], seq[k])
  BY <1>7, <1>8
<1> QED
  BY <1>6, <1>10, <1>11

\* AppendMounts has the intermediate results of a loop over the mounts.
LEMMA AppendMountLoop ==
  ASSUME NEW E, NEW base \in Seq(E), NEW seq \in Seq(E)
  PROVE  \E f : /\ f[0] = base /\ f[Len(seq)] = AppendMounts(base, seq)
                /\ \A k \in 1..Len(seq) : f[k] = AppendMount(f[k - 1], seq[k])
<1> DEFINE X == Seq(E)
           F == [p \in X \X E |-> AppendMount(p[1], p[2])]
           Is(iter) == iter = [s \in SUBSET DOMAIN seq |->
                         IF s = {} THEN base ELSE AppendMount(iter[s \ {Max(s)}], seq[Max(s)])]
           it == CHOOSE iter : Is(iter)
           f == [k \in 0..Len(seq) |-> it[1..k]]
<1>1. F \in [X \X E -> X]
  BY DEF AppendMount
<1>2. \A p \in X \X E : F[p] = AppendMount(p[1], p[2])
  OBVIOUS
<1> HIDE DEF X, F
<1>3. PICK g \in [SUBSET DOMAIN seq -> X] : Iterates(g, base, seq, F)
  <2>1. base \in X
    BY DEF X
  <2> QED
    BY <1>1, <2>1, IterExists
<1>4. Is(g)
  <2>1. \A s \in SUBSET DOMAIN seq : s # {} =>
          g[s \ {Max(s)}] \in X /\ seq[Max(s)] \in E
    BY LastOf
  <2> QED
    BY <1>2, <1>3, <2>1 DEF Iterates
<1>5. Is(it)
  BY <1>4
<1>6. AppendMounts(base, seq) = it[DOMAIN seq]
  BY DEF AppendMounts, FoldLeft, MapThenFoldSet
<1> HIDE DEF it
<1>7. /\ DOMAIN seq = 1..Len(seq) /\ 1..0 = {} /\ 0 \in 0..Len(seq) /\ Len(seq) \in 0..Len(seq)
      /\ \A k \in 1..Len(seq) :
           /\ 1..k \in SUBSET DOMAIN seq /\ 1..k # {} /\ Max(1..k) = k
           /\ (1..k) \ {k} = 1..(k - 1) /\ k \in 0..Len(seq) /\ k - 1 \in 0..Len(seq)
  BY OneToIn
<1>8. \A k \in 1..Len(seq) : it[1..k] = AppendMount(it[1..(k - 1)], seq[k])
  <2> SUFFICES ASSUME NEW k \in 1..Len(seq) PROVE it[1..k] = AppendMount(it[1..(k - 1)], seq[k])
    OBVIOUS
  <2> HIDE DEF f
  <2> QED
    BY <1>5, <1>7
<1>9. it[{}] = base
  BY <1>5
<1>10. f[0] = base /\ f[Len(seq)] = it[DOMAIN seq]
  BY <1>7, <1>9
<1>11. \A k \in 1..Len(seq) : f[k] = AppendMount(f[k - 1], seq[k])
  BY <1>7, <1>8
<1> QED
  BY <1>6, <1>10, <1>11

\* SetMounts has the intermediate results of a loop over the mounts.
LEMMA SetMountLoop ==
  ASSUME NEW E, NEW base \in Seq(E), NEW seq \in Seq(E)
  PROVE  \E f : /\ f[0] = base /\ f[Len(seq)] = SetMounts(base, seq)
                /\ \A k \in 1..Len(seq) : f[k] = SetMount(f[k - 1], seq[k])
<1> DEFINE X == Seq(E)
           F == [p \in X \X E |-> SetMount(p[1], p[2])]
           Is(iter) == iter = [s \in SUBSET DOMAIN seq |->
                         IF s = {} THEN base ELSE SetMount(iter[s \ {Max(s)}], seq[Max(s)])]
           it == CHOOSE iter : Is(iter)
           f == [k \in 0..Len(seq) |-> it[1..k]]
<1>1. F \in [X \X E -> X]
  BY SetMountType
<1>2. \A p \in X \X E : F[p] = SetMount(p[1], p[2])
  OBVIOUS
<1> HIDE DEF X, F
<1>3. PICK g \in [SUBSET DOMAIN seq -> X] : Iterates(g, base, seq, F)
  <2>1. base \in X
    BY DEF X
  <2> QED
    BY <1>1, <2>1, IterExists
<1>4. Is(g)
  <2>1. \A s \in SUBSET DOMAIN seq : s # {} =>
          g[s \ {Max(s)}] \in X /\ seq[Max(s)] \in E
    BY LastOf
  <2> QED
    BY <1>2, <1>3, <2>1 DEF Iterates
<1>5. Is(it)
  BY <1>4
<1>6. SetMounts(base, seq) = it[DOMAIN seq]
  BY DEF SetMounts, FoldLeft, MapThenFoldSet
<1> HIDE DEF it
<1>7. /\ DOMAIN seq = 1..Len(seq) /\ 1..0 = {} /\ 0 \in 0..Len(seq) /\ Len(seq) \in 0..Len(seq)
      /\ \A k \in 1..Len(seq) :
           /\ 1..k \in SUBSET DOMAIN seq /\ 1..k # {} /\ Max(1..k) = k
           /\ (1..k) \ {k} = 1..(k - 1) /\ k \in 0..Len(seq) /\ k - 1 \in 0..Len(seq)
  BY OneToIn
<1>8. \A k \in 1..Len(seq) : it[1..k] = SetMount(it[1..(k - 1)], seq[k])
  <2> SUFFICES ASSUME NEW k \in 1..Len(seq) PROVE it[1..k] = SetMount(it[1..(k - 1)], seq[k])
    OBVIOUS
  <2> HIDE DEF f
  <2> QED
    BY <1>5, <1>7
<1>9. it[{}] = base
  BY <1>5
<1>10. f[0] = base /\ f[Len(seq)] = it[DOMAIN seq]
  BY <1>7, <1>9
<1>11. \A k \in 1..Len(seq) : f[k] = SetMount(f[k - 1], seq[k])
  BY <1>7, <1>8
<1> QED
  BY <1>6, <1>10, <1>11

\* Unclaimed has the intermediate results of a loop over the list.
LEMMA UnclaimedLoop ==
  ASSUME NEW E, NEW seq \in Seq(E), NEW names
  PROVE  \E f : /\ f[0] = <<>> /\ f[Len(seq)] = Unclaimed(seq, names)
                /\ \A k \in 1..Len(seq) :
                     f[k] = IF seq[k].name \in names THEN f[k - 1] ELSE Append(f[k - 1], seq[k])
<1> DEFINE X == Seq(E)
           F == [p \in X \X E |-> (IF p[2].name \in names THEN p[1] ELSE Append(p[1], p[2]))]
           Is(iter) == iter = [s \in SUBSET DOMAIN seq |->
                         IF s = {} THEN <<>>
                         ELSE IF seq[Max(s)].name \in names THEN iter[s \ {Max(s)}]
                              ELSE Append(iter[s \ {Max(s)}], seq[Max(s)])]
           it == CHOOSE iter : Is(iter)
           f == [k \in 0..Len(seq) |-> it[1..k]]
<1>1. F \in [X \X E -> X]
  OBVIOUS
<1>2. \A p \in X \X E : F[p] = (IF p[2].name \in names THEN p[1] ELSE Append(p[1], p[2]))
  OBVIOUS
<1> HIDE DEF X, F
<1>3. PICK g \in [SUBSET DOMAIN seq -> X] : Iterates(g, <<>>, seq, F)
  <2>1. <<>> \in X
    BY DEF X
  <2> QED
    BY <1>1, <2>1, IterExists
<1>4. Is(g)
  <2>1. \A s \in SUBSET DOMAIN seq : s # {} =>
          g[s \ {Max(s)}] \in X /\ seq[Max(s)] \in E
    BY LastOf
  <2> QED
    BY <1>2, <1>3, <2>1 DEF Iterates
<1>5. Is(it)
  BY <1>4
<1>6. Unclaimed(seq, names) = it[DOMAIN seq]
  BY DEF Unclaimed, FoldLeft, MapThenFoldSet
<1> HIDE DEF it
<1>7. /\ DOMAIN seq = 1..Len(seq) /\ 1..0 = {} /\ 0 \in 0..Len(seq) /\ Len(seq) \in 0..Len(seq)
      /\ \A k \in 1..Len(seq) :
           /\ 1..k \in SUBSET DOMAIN seq /\ 1..k # {} /\ Max(1..k) = k
           /\ (1..k) \ {k} = 1..(k - 1) /\ k \in 0..Len(seq) /\ k - 1 \in 0..Len(seq)
  BY OneToIn
<1>8. \A k \in 1..Len(seq) :
        it[1..k] = IF seq[k].name \in names THEN it[1..(k - 1)]
                   ELSE Append(it[1..(k - 1)], seq[k])
  <2> SUFFICES ASSUME NEW k \in 1..Len(seq)
               PROVE  it[1..k] = IF seq[k].name \in names THEN it[1..(k - 1)]
                                 ELSE Append(it[1..(k - 1)], seq[k])
    OBVIOUS
  <2> HIDE DEF f
  <2> QED
    BY <1>5, <1>7
<1>9. it[{}] = <<>>
  BY <1>5
<1>10. f[0] = <<>> /\ f[Len(seq)] = it[DOMAIN seq]
  BY <1>7, <1>9
<1>11. \A k \in 1..Len(seq) :
         f[k] = IF seq[k].name \in names THEN f[k - 1] ELSE Append(f[k - 1], seq[k])
  BY <1>7, <1>8
<1> QED
  BY <1>6, <1>10, <1>11

-----------------------------------------------------------------------------
(* What the merges of two lists return.                                    *)

\* A sequence over any set is a list, over what it contains.
LEMMA ListIs ==
  ASSUME NEW E, NEW list \in Seq(E)
  PROVE  /\ Len(list) \in Nat /\ DOMAIN list = 1..Len(list) /\ list \in [1..Len(list) -> E]
         /\ ToSet(list) \subseteq E /\ IsList(list)
         /\ \A i \in DOMAIN list : list[i] \in ToSet(list)
         /\ \A x \in ToSet(list) : \E i \in DOMAIN list : list[i] = x
<1>1. /\ Len(list) \in Nat /\ DOMAIN list = 1..Len(list) /\ list \in [1..Len(list) -> E]
  OBVIOUS
<1>2. /\ ToSet(list) \subseteq E /\ \A i \in DOMAIN list : list[i] \in ToSet(list)
      /\ \A x \in ToSet(list) : \E i \in DOMAIN list : list[i] = x
  BY <1>1 DEF ToSet
<1>3. list \in [1..Len(list) -> ToSet(list)]
  BY <1>1, <1>2
<1>4. IsList(list)
  BY <1>1, <1>3, ListOf DEF IsList
<1> QED
  BY <1>1, <1>2, <1>4

\* What Append returns, and contains.
LEMMA Appended ==
  ASSUME NEW E, NEW list \in Seq(E), NEW e \in E
  PROVE  LET r == Append(list, e)
         IN /\ r \in Seq(E) /\ Len(r) = Len(list) + 1 /\ r[Len(list) + 1] = e
            /\ DOMAIN r = 1..(Len(list) + 1) /\ \A i \in DOMAIN list : r[i] = list[i]
            /\ ToSet(r) = ToSet(list) \cup {e}
<1> DEFINE r == Append(list, e)
<1>1. /\ r \in Seq(E) /\ Len(r) = Len(list) + 1 /\ r[Len(list) + 1] = e
      /\ DOMAIN r = 1..(Len(list) + 1) /\ \A i \in DOMAIN list : r[i] = list[i]
      /\ Len(list) \in Nat /\ DOMAIN list = 1..Len(list)
  OBVIOUS
<1>2. DOMAIN r = DOMAIN list \cup {Len(list) + 1}
  BY <1>1
<1> HIDE DEF r
<1>3. ToSet(r) = ToSet(list) \cup {e}
  BY <1>1, <1>2 DEF ToSet
<1> QED
  BY <1>1, <1>3 DEF r

\* A step of mergeByName's loop: the entry replaces the one of its name where that
\* stands, or is appended.
LEMMA SetByNameStep ==
  ASSUME NEW E, NEW list \in Seq(E), NEW e \in E
  PROVE  LET r == SetByName(list, e)
         IN /\ r \in Seq(E) /\ NamesOf(r) = NamesOf(list) \cup {e.name}
            /\ NoRepeat(list) => NoRepeat(r)
            /\ \A x \in ToSet(r) : x = e \/ (x \in ToSet(list) /\ x.name # e.name)
<1> DEFINE r == SetByName(list, e)
<1>1. r \in Seq(E)
  BY SetByNameType
<1>2. CASE e.name \in NamesOf(list)
  <2>1. r = [i \in DOMAIN list |-> IF list[i].name = e.name THEN e ELSE list[i]]
    BY <1>2 DEF SetByName
  <2> HIDE DEF r
  <2>2. \A i \in DOMAIN list : r[i].name = list[i].name
    BY <2>1
  <2>3. NamesOf(r) = NamesOf(list) \cup {e.name}
    BY <1>2, <2>1, <2>2 DEF NamesOf
  <2>4. NoRepeat(list) => NoRepeat(r)
    BY <2>1, <2>2 DEF NoRepeat
  <2>5. \A x \in ToSet(r) : x = e \/ (x \in ToSet(list) /\ x.name # e.name)
    BY <2>1 DEF ToSet
  <2> QED
    BY <1>1, <2>3, <2>4, <2>5 DEF r
<1>3. CASE e.name \notin NamesOf(list)
  <2>1. r = Append(list, e)
    BY <1>3 DEF SetByName
  <2> HIDE DEF r
  <2>2. /\ DOMAIN r = 1..(Len(list) + 1) /\ r[Len(list) + 1] = e
        /\ \A i \in DOMAIN list : r[i] = list[i]
        /\ ToSet(r) = ToSet(list) \cup {e}
    BY <2>1, Appended
  <2>3. Len(list) \in Nat /\ DOMAIN list = 1..Len(list)
    OBVIOUS
  <2>4. \A i \in DOMAIN r : i \in DOMAIN list \/ i = Len(list) + 1
    BY <2>2, <2>3
  <2>5. \A i \in DOMAIN list : list[i].name # e.name /\ i \in DOMAIN r
    BY <1>3, <2>2, <2>3 DEF NamesOf
  <2>6. Len(list) + 1 \in DOMAIN r
    BY <2>2, <2>3
  <2>7. NamesOf(r) = NamesOf(list) \cup {e.name}
    BY <2>2, <2>4, <2>5, <2>6 DEF NamesOf
  <2>8. NoRepeat(list) => NoRepeat(r)
    BY <2>2, <2>4, <2>5 DEF NoRepeat
  <2>9. \A x \in ToSet(r) : x = e \/ (x \in ToSet(list) /\ x.name # e.name)
    BY <2>2, <2>5 DEF ToSet
  <2> QED
    BY <1>1, <2>7, <2>8, <2>9 DEF r
<1> QED
  BY <1>2, <1>3

\* The merge of two lists by name (merger.go, mergeEnvironment, mergeMCPCommands and
\* mergeMCPServers): no name is lost or listed twice, and every entry is of the
\* override, or of the base if the override has none of its name.
THEOREM ByName ==
  ASSUME NEW E, NEW base \in Seq(E), NEW override \in Seq(E)
  PROVE  LET r == mergeByName(base, override)
         IN /\ r \in Seq(E) /\ NamesOf(r) = NamesOf(base) \cup NamesOf(override)
            /\ NoRepeat(base) => NoRepeat(r)
            /\ \A x \in ToSet(r) : \/ x \in ToSet(override)
                                   \/ x \in ToSet(base) /\ x.name \notin NamesOf(override)
<1> DEFINE N == Len(override)
           Seen(k) == {override[i].name : i \in 1..k}
           Inv(l, k) ==
             /\ l \in Seq(E) /\ NamesOf(l) = NamesOf(base) \cup Seen(k)
             /\ NoRepeat(base) => NoRepeat(l)
             /\ \A x \in ToSet(l) : \/ x \in ToSet(override)
                                    \/ x \in ToSet(base) /\ x.name \notin Seen(k)
<1>1. PICK f : /\ f[0] = base /\ f[N] = mergeByName(base, override)
               /\ \A k \in 1..N : f[k] = SetByName(f[k - 1], override[k])
  BY SetByNameLoop
<1>2. N \in Nat /\ DOMAIN override = 1..N /\ \A k \in 1..N : override[k] \in E
  OBVIOUS
<1> DEFINE S == {k \in 0..N : Inv(f[k], k)}
<1>3. 0 \in S
  <2>1. Seen(0) = {}
    OBVIOUS
  <2> QED
    BY <1>1, <1>2, <2>1
<1>4. ASSUME NEW k \in 1..N, k - 1 \in S PROVE k \in S
  <2> DEFINE e == override[k]
             l == f[k - 1]
  <2>1. Inv(l, k - 1) /\ e \in E /\ f[k] = SetByName(l, e)
    BY <1>1, <1>2, <1>4
  <2>2. Seen(k) = Seen(k - 1) \cup {e.name}
    BY <1>2
  <2>3. e \in ToSet(override)
    BY <1>2 DEF ToSet
  <2> HIDE DEF e, l, Seen
  <2>4. /\ f[k] \in Seq(E) /\ NamesOf(f[k]) = NamesOf(l) \cup {e.name}
        /\ NoRepeat(l) => NoRepeat(f[k])
        /\ \A x \in ToSet(f[k]) : x = e \/ (x \in ToSet(l) /\ x.name # e.name)
    <3>1. l \in Seq(E)
      BY <2>1
    <3>2. LET r == SetByName(l, e)
          IN /\ r \in Seq(E) /\ NamesOf(r) = NamesOf(l) \cup {e.name}
             /\ NoRepeat(l) => NoRepeat(r)
             /\ \A x \in ToSet(r) : x = e \/ (x \in ToSet(l) /\ x.name # e.name)
      BY <2>1, <3>1, SetByNameStep
    <3> QED
      BY <2>1, <3>2
  <2>5. Inv(f[k], k)
    BY <2>1, <2>2, <2>3, <2>4
  <2>6. k \in 0..N
    BY <1>2
  <2> QED
    BY <2>5, <2>6
<1> HIDE DEF S
<1>5. N \in S
  <2>1. 0..N \subseteq S
    BY <1>2, <1>3, <1>4, Upward
  <2> QED
    BY <1>2, <2>1
<1>6. Seen(N) = NamesOf(override)
  BY <1>2 DEF NamesOf
<1> QED
  BY <1>1, <1>5, <1>6 DEF S, mergeByName

\* x is in the list, and y is not before it.
Earlier(list, x, y) ==
  \E i \in DOMAIN list : list[i] = x /\ \A j \in 1..i : list[j] # y

\* What is appended comes after everything that is there.
LEMMA AppendEarlier ==
  ASSUME NEW E, NEW list \in Seq(E), NEW e \in E
  PROVE  \A x, y : Earlier(Append(list, e), x, y) <=>
                     Earlier(list, x, y) \/ (x = e /\ x # y /\ y \notin ToSet(list))
<1> DEFINE r == Append(list, e)
           N == Len(list)
<1>1. /\ N \in Nat /\ DOMAIN list = 1..N /\ DOMAIN r = 1..(N + 1)
      /\ r[N + 1] = e /\ \A i \in 1..N : r[i] = list[i]
  OBVIOUS
<1>2. ToSet(list) = {list[i] : i \in 1..N}
  BY <1>1 DEF ToSet
<1> HIDE DEF r, N
<1> SUFFICES ASSUME NEW x, NEW y
             PROVE  Earlier(r, x, y) <=>
                      Earlier(list, x, y) \/ (x = e /\ x # y /\ y \notin ToSet(list))
  BY DEF r
<1>3. ASSUME Earlier(r, x, y)
      PROVE  Earlier(list, x, y) \/ (x = e /\ x # y /\ y \notin ToSet(list))
  <2>1. PICK i \in 1..(N + 1) : r[i] = x /\ \A j \in 1..i : r[j] # y
    BY <1>1, <1>3 DEF Earlier
  <2>2. CASE i \in 1..N
    BY <1>1, <2>1, <2>2 DEF Earlier
  <2>3. CASE i = N + 1
    <3>1. \A j \in 1..N : j \in 1..i /\ list[j] # y
      BY <1>1, <2>1, <2>3
    <3>2. i \in 1..i
      BY <1>1, <2>3
    <3> QED
      BY <1>1, <1>2, <2>1, <2>3, <3>1, <3>2
  <2> QED
    BY <1>1, <2>2, <2>3
<1>4. ASSUME Earlier(list, x, y) PROVE Earlier(r, x, y)
  <2>1. PICK i \in 1..N : list[i] = x /\ \A j \in 1..i : list[j] # y
    BY <1>1, <1>4 DEF Earlier
  <2>2. i \in DOMAIN r /\ r[i] = x /\ \A j \in 1..i : r[j] # y
    BY <1>1, <2>1
  <2> QED
    BY <2>2 DEF Earlier
<1>5. ASSUME x = e, x # y, y \notin ToSet(list) PROVE Earlier(r, x, y)
  <2>1. \A j \in 1..(N + 1) : r[j] # y
    BY <1>1, <1>2, <1>5
  <2>2. N + 1 \in DOMAIN r /\ r[N + 1] = x
    BY <1>1, <1>5
  <2> QED
    BY <2>1, <2>2 DEF Earlier
<1> QED
  BY <1>3, <1>4, <1>5

\* A step of AppendAllNew's loop: an item that is there is not appended.
LEMMA AppendNewStep ==
  ASSUME NEW E, NEW list \in Seq(E), NEW e \in E
  PROVE  LET r == AppendNew(list, e)
         IN /\ r \in Seq(E) /\ ToSet(r) = ToSet(list) \cup {e}
            /\ IsInjective(list) => IsInjective(r)
            /\ \A x, y : Earlier(r, x, y) <=>
                           Earlier(list, x, y) \/ (x = e /\ x # y /\ y \notin ToSet(list))
<1> DEFINE r == AppendNew(list, e)
<1>1. CASE e \in ToSet(list)
  <2>1. r = list
    BY <1>1 DEF AppendNew
  <2> HIDE DEF r
  <2>2. \A y : y \notin ToSet(list) => Earlier(list, e, y)
    <3> SUFFICES ASSUME NEW y, y \notin ToSet(list) PROVE Earlier(list, e, y)
      OBVIOUS
    <3>1. PICK i \in DOMAIN list : list[i] = e
      BY <1>1 DEF ToSet
    <3>2. \A j \in 1..i : list[j] # y
      <4>1. \A j \in 1..i : j \in DOMAIN list
        OBVIOUS
      <4> QED
        BY <4>1 DEF ToSet
    <3> QED
      BY <3>1, <3>2 DEF Earlier
  <2> QED
    BY <1>1, <2>1, <2>2 DEF r
<1>2. CASE e \notin ToSet(list)
  <2>1. r = Append(list, e)
    BY <1>2 DEF AppendNew
  <2> HIDE DEF r
  <2>2. /\ r \in Seq(E) /\ DOMAIN r = 1..(Len(list) + 1) /\ r[Len(list) + 1] = e
        /\ \A i \in DOMAIN list : r[i] = list[i]
        /\ ToSet(r) = ToSet(list) \cup {e}
    BY <2>1, Appended
  <2>3. \A i \in DOMAIN r : i \in DOMAIN list \/ i = Len(list) + 1
    BY <2>2
  <2>4. \A i \in DOMAIN list : list[i] # e
    BY <1>2 DEF ToSet
  <2>5. IsInjective(list) => IsInjective(r)
    BY <2>2, <2>3, <2>4 DEF IsInjective
  <2>6. \A x, y : Earlier(r, x, y) <=>
                    Earlier(list, x, y) \/ (x = e /\ x # y /\ y \notin ToSet(list))
    BY <2>1, AppendEarlier
  <2> QED
    BY <2>2, <2>5, <2>6 DEF r
<1> QED
  BY <1>1, <1>2

\* Nothing is lost or listed twice, and what comes first stays first.
LEMMA Unique ==
  ASSUME NEW E, NEW list \in Seq(E)
  PROVE  LET r == AppendAllNew(<<>>, list)
         IN /\ r \in Seq(E) /\ ToSet(r) = ToSet(list) /\ IsInjective(r)
            /\ \A x, y : Earlier(r, x, y) <=> Earlier(list, x, y)
<1> DEFINE N == Len(list)
           Seen(k) == {list[i] : i \in 1..k}
           Leads(k, x, y) == \E i \in 1..k : list[i] = x /\ \A j \in 1..i : list[j] # y
           Inv(l, k) ==
             /\ l \in Seq(E) /\ ToSet(l) = Seen(k) /\ IsInjective(l)
             /\ \A x, y : Earlier(l, x, y) <=> Leads(k, x, y)
<1>1. PICK f : /\ f[0] = <<>> /\ f[N] = AppendAllNew(<<>>, list)
               /\ \A k \in 1..N : f[k] = AppendNew(f[k - 1], list[k])
  <2> DEFINE base == <<>>
  <2>1. base \in Seq(E)
    OBVIOUS
  <2> HIDE DEF base, Inv, Seen, Leads
  <2>2. \E f : /\ f[0] = base /\ f[N] = AppendAllNew(base, list)
              /\ \A k \in 1..N : f[k] = AppendNew(f[k - 1], list[k])
    BY <2>1, AppendNewLoop
  <2> QED
    BY <2>2 DEF base
<1>2. N \in Nat /\ DOMAIN list = 1..N /\ \A k \in 1..N : list[k] \in E
  OBVIOUS
<1> DEFINE S == {k \in 0..N : Inv(f[k], k)}
<1>3. 0 \in S
  <2>1. Seen(0) = {} /\ ToSet(<<>>) = {} /\ <<>> \in Seq(E) /\ IsInjective(<<>>)
    BY DEF ToSet, IsInjective
  <2>2. \A x, y : ~Earlier(<<>>, x, y) /\ ~Leads(0, x, y)
    BY DEF Earlier
  <2>3. 0 \in 0..N /\ f[0] = <<>>
    BY <1>1, <1>2
  <2> HIDE DEF Seen, Leads
  <2>4. Inv(f[0], 0)
    BY <2>1, <2>2, <2>3
  <2> QED
    BY <2>3, <2>4
<1>4. ASSUME NEW k \in 1..N, k - 1 \in S PROVE k \in S
  <2> DEFINE e == list[k]
             l == f[k - 1]
  <2>1. Inv(l, k - 1) /\ e \in E /\ f[k] = AppendNew(l, e)
    BY <1>1, <1>2, <1>4
  <2>2. Seen(k) = Seen(k - 1) \cup {e}
    BY <1>2
  <2>3. \A x, y : Leads(k, x, y) <=>
                    Leads(k - 1, x, y) \/ (x = e /\ x # y /\ y \notin Seen(k - 1))
    BY <1>2
  <2> HIDE DEF e, l, Seen, Leads
  <2>4. l \in Seq(E)
    BY <2>1
  <2>5. LET r == AppendNew(l, e)
        IN /\ r \in Seq(E) /\ ToSet(r) = ToSet(l) \cup {e}
           /\ IsInjective(l) => IsInjective(r)
           /\ \A x, y : Earlier(r, x, y) <=>
                          Earlier(l, x, y) \/ (x = e /\ x # y /\ y \notin ToSet(l))
    BY <2>1, <2>4, AppendNewStep
  <2>6. Inv(f[k], k)
    BY <2>1, <2>2, <2>3, <2>5
  <2>7. k \in 0..N
    BY <1>2
  <2> QED
    BY <2>6, <2>7
<1> HIDE DEF S
<1>5. N \in S
  <2>1. 0..N \subseteq S
    BY <1>2, <1>3, <1>4, Upward
  <2> QED
    BY <1>2, <2>1
<1>6. Seen(N) = ToSet(list) /\ \A x, y : Leads(N, x, y) <=> Earlier(list, x, y)
  BY <1>2 DEF ToSet, Earlier
<1>7. Inv(f[N], N)
  BY <1>5 DEF S
<1> HIDE DEF Seen, Leads
<1> QED
  BY <1>1, <1>6, <1>7

\* Of two lists joined, the first comes first.
LEMMA JoinedEarlier ==
  ASSUME NEW E, NEW a \in Seq(E), NEW b \in Seq(E)
  PROVE  /\ a \o b \in Seq(E) /\ ToSet(a \o b) = ToSet(a) \cup ToSet(b)
         /\ \A x, y : Earlier(a \o b, x, y) <=>
                        Earlier(a, x, y) \/ (y \notin ToSet(a) /\ Earlier(b, x, y))
<1> DEFINE r == a \o b
           M == Len(a)
           N == Len(b)
<1>1. /\ M \in Nat /\ N \in Nat /\ DOMAIN a = 1..M /\ DOMAIN b = 1..N /\ DOMAIN r = 1..(M + N)
      /\ r \in Seq(E)
      /\ \A i \in 1..M : r[i] = a[i]
      /\ \A i \in 1..N : r[M + i] = b[i]
  OBVIOUS
<1> HIDE DEF r, M, N
<1>2. /\ \A i \in 1..M : i \in 1..(M + N)
      /\ \A i \in 1..N : M + i \in 1..(M + N)
      /\ \A i \in 1..(M + N) : i \in 1..M \/ \E k \in 1..N : i = M + k
  <2>1. ASSUME NEW i \in 1..(M + N), i \notin 1..M PROVE \E k \in 1..N : i = M + k
    <3>1. i - M \in 1..N /\ i = M + (i - M)
      BY <1>1, <2>1
    <3> QED
      BY <3>1
  <2>2. \A i \in 1..M : i \in 1..(M + N)
    BY <1>1
  <2>3. \A i \in 1..N : M + i \in 1..(M + N)
    BY <1>1
  <2> QED
    BY <2>1, <2>2, <2>3
<1>3. ToSet(r) = ToSet(a) \cup ToSet(b)
  <2>1. ASSUME NEW i \in 1..(M + N) PROVE r[i] \in ToSet(a) \cup ToSet(b)
    BY <1>1, <1>2 DEF ToSet
  <2>2. \A i \in 1..M : a[i] \in ToSet(r)
    BY <1>1, <1>2 DEF ToSet
  <2>3. \A i \in 1..N : b[i] \in ToSet(r)
    BY <1>1, <1>2 DEF ToSet
  <2> QED
    BY <1>1, <2>1, <2>2, <2>3 DEF ToSet
<1> SUFFICES ASSUME NEW x, NEW y
             PROVE  Earlier(r, x, y) <=>
                      Earlier(a, x, y) \/ (y \notin ToSet(a) /\ Earlier(b, x, y))
  BY <1>1, <1>3 DEF r
<1>4. ASSUME Earlier(r, x, y)
      PROVE  Earlier(a, x, y) \/ (y \notin ToSet(a) /\ Earlier(b, x, y))
  <2>1. PICK i \in 1..(M + N) : r[i] = x /\ \A j \in 1..i : r[j] # y
    BY <1>1, <1>4 DEF Earlier
  <2>2. CASE i \in 1..M
    BY <1>1, <2>1, <2>2 DEF Earlier
  <2>3. ASSUME NEW k \in 1..N, i = M + k PROVE y \notin ToSet(a) /\ Earlier(b, x, y)
    <3>1. \A j \in 1..M : j \in 1..i /\ a[j] # y
      BY <1>1, <2>1, <2>3
    <3>2. \A j \in 1..k : M + j \in 1..i /\ b[j] # y
      BY <1>1, <2>1, <2>3
    <3> QED
      BY <1>1, <2>1, <2>3, <3>1, <3>2 DEF Earlier, ToSet
  <2> QED
    BY <1>2, <2>2, <2>3
<1>5. ASSUME Earlier(a, x, y) PROVE Earlier(r, x, y)
  <2>1. PICK i \in 1..M : a[i] = x /\ \A j \in 1..i : a[j] # y
    BY <1>1, <1>5 DEF Earlier
  <2>2. i \in DOMAIN r /\ r[i] = x /\ \A j \in 1..i : r[j] # y
    BY <1>1, <2>1
  <2> QED
    BY <2>2 DEF Earlier
<1>6. ASSUME y \notin ToSet(a), Earlier(b, x, y) PROVE Earlier(r, x, y)
  <2>1. PICK k \in 1..N : b[k] = x /\ \A j \in 1..k : b[j] # y
    BY <1>1, <1>6 DEF Earlier
  <2>2. M + k \in DOMAIN r /\ r[M + k] = x
    BY <1>1, <1>2, <2>1
  <2>3. ASSUME NEW j \in 1..(M + k) PROVE r[j] # y
    <3>1. CASE j \in 1..M
      BY <1>1, <1>6, <3>1 DEF ToSet
    <3>2. CASE j \notin 1..M
      <4>1. j - M \in 1..k /\ j - M \in 1..N /\ j = M + (j - M)
        BY <1>1, <3>2
      <4> QED
        BY <1>1, <2>1, <4>1
    <3> QED
      BY <3>1, <3>2
  <2> QED
    BY <2>2, <2>3 DEF Earlier
<1> QED
  BY <1>4, <1>5, <1>6

\* The merge of hosts, ports, secrets and skills (merger.go, mergeStringSlices):
\* every item of either list once, in the order of the two lists joined.
THEOREM Slices ==
  ASSUME NEW E, NEW base \in Seq(E), NEW override \in Seq(E)
  PROVE  LET r == mergeStringSlices(base, override)
         IN /\ r \in Seq(E) /\ ToSet(r) = ToSet(base) \cup ToSet(override) /\ IsInjective(r)
            /\ \A x, y : Earlier(r, x, y) <=>
                 Earlier(base, x, y) \/ (y \notin ToSet(base) /\ Earlier(override, x, y))
<1>1. /\ base \o override \in Seq(E)
      /\ ToSet(base \o override) = ToSet(base) \cup ToSet(override)
      /\ \A x, y : Earlier(base \o override, x, y) <=>
           Earlier(base, x, y) \/ (y \notin ToSet(base) /\ Earlier(override, x, y))
  BY JoinedEarlier
<1> QED
  BY <1>1, Unique DEF mergeStringSlices

PairOf(m) == [host |-> m.host, target |-> m.target]

PairsOf(list) == {PairOf(m) : m \in ToSet(list)}

\* No (host, target) pair twice.
MountedOnce(list) == \A i, j \in DOMAIN list : SameMount(list[i], list[j]) => i = j

\* Two mounts are the same if they have one (host, target) pair.
LEMMA SamePair ==
  \A m, n : PairOf(m) = PairOf(n) <=> SameMount(m, n)
BY DEF PairOf, SameMount

\* A list has a mount of that pair.
LEMMA PairIn ==
  \A list, m : PairOf(m) \in PairsOf(list) <=> \E x \in ToSet(list) : SameMount(x, m)
BY SamePair DEF PairsOf

\* A mount whose pair is new leaves each pair mounted once.
LEMMA MountAppended ==
  ASSUME NEW E, NEW list \in Seq(E), NEW m \in E, ~ \E x \in ToSet(list) : SameMount(x, m)
  PROVE  LET r == Append(list, m)
         IN /\ r \in Seq(E) /\ PairsOf(r) = PairsOf(list) \cup {PairOf(m)}
            /\ MountedOnce(list) => MountedOnce(r)
            /\ ToSet(r) = ToSet(list) \cup {m}
<1> DEFINE r == Append(list, m)
<1>1. /\ r \in Seq(E) /\ DOMAIN r = 1..(Len(list) + 1) /\ r[Len(list) + 1] = m
      /\ \A i \in DOMAIN list : r[i] = list[i]
      /\ ToSet(r) = ToSet(list) \cup {m}
  BY Appended
<1>2. Len(list) \in Nat /\ DOMAIN list = 1..Len(list)
  OBVIOUS
<1> HIDE DEF r
<1>3. \A i \in DOMAIN r : i \in DOMAIN list \/ i = Len(list) + 1
  BY <1>1, <1>2
<1>4. \A i \in DOMAIN list : ~SameMount(list[i], m) /\ ~SameMount(m, list[i])
  BY DEF SameMount, ToSet
<1>5. MountedOnce(list) => MountedOnce(r)
  BY <1>1, <1>3, <1>4 DEF MountedOnce
<1>6. PairsOf(r) = PairsOf(list) \cup {PairOf(m)}
  BY <1>1 DEF PairsOf
<1> QED
  BY <1>1, <1>5, <1>6 DEF r

\* A step of AppendMounts' loop.
LEMMA AppendMountStep ==
  ASSUME NEW E, NEW list \in Seq(E), NEW m \in E
  PROVE  LET r == AppendMount(list, m)
         IN /\ r \in Seq(E) /\ PairsOf(r) = PairsOf(list) \cup {PairOf(m)}
            /\ MountedOnce(list) => MountedOnce(r)
            /\ ToSet(r) \subseteq ToSet(list) \cup {m}
<1>1. CASE \E x \in ToSet(list) : SameMount(x, m)
  BY <1>1, PairIn DEF AppendMount
<1>2. CASE ~ \E x \in ToSet(list) : SameMount(x, m)
  <2>1. AppendMount(list, m) = Append(list, m)
    BY <1>2 DEF AppendMount
  <2> QED
    BY <1>2, <2>1, MountAppended
<1> QED
  BY <1>1, <1>2

\* A step of SetMounts' loop: the mount replaces the one of its pair.
LEMMA SetMountStep ==
  ASSUME NEW E, NEW list \in Seq(E), NEW m \in E
  PROVE  LET r == SetMount(list, m)
         IN /\ r \in Seq(E) /\ PairsOf(r) = PairsOf(list) \cup {PairOf(m)}
            /\ MountedOnce(list) => MountedOnce(r)
            /\ \A x \in ToSet(r) : x = m \/ (x \in ToSet(list) /\ ~SameMount(x, m))
<1> DEFINE r == SetMount(list, m)
<1>1. CASE \E x \in ToSet(list) : SameMount(x, m)
  <2>1. r = [i \in DOMAIN list |-> IF SameMount(list[i], m) THEN m ELSE list[i]]
    BY <1>1 DEF SetMount
  <2>2. r \in Seq(E)
    BY SetMountType
  <2> HIDE DEF r
  <2>3. \A i \in DOMAIN list : SameMount(r[i], list[i])
    BY <2>1 DEF SameMount
  <2>4. \A i \in DOMAIN list : PairOf(r[i]) = PairOf(list[i])
    BY <2>3, SamePair
  <2>5. PairsOf(r) = PairsOf(list)
    BY <2>1, <2>4 DEF PairsOf, ToSet
  <2>6. MountedOnce(list) => MountedOnce(r)
    BY <2>1, <2>3 DEF MountedOnce, SameMount
  <2>7. \A x \in ToSet(r) : x = m \/ (x \in ToSet(list) /\ ~SameMount(x, m))
    BY <2>1 DEF ToSet
  <2>8. PairOf(m) \in PairsOf(list)
    BY <1>1, PairIn
  <2> QED
    BY <2>2, <2>5, <2>6, <2>7, <2>8 DEF r
<1>2. CASE ~ \E x \in ToSet(list) : SameMount(x, m)
  <2>1. r = Append(list, m)
    BY <1>2 DEF SetMount
  <2> QED
    BY <1>2, <2>1, MountAppended
<1> QED
  BY <1>1, <1>2

\* AppendMounts: the pairs of the list, each mounted once.
LEMMA UniqueMounts ==
  ASSUME NEW E, NEW list \in Seq(E)
  PROVE  LET r == AppendMounts(<<>>, list)
         IN /\ r \in Seq(E) /\ ToSet(r) \subseteq ToSet(list) /\ MountedOnce(r)
            /\ PairsOf(r) = PairsOf(list)
<1> DEFINE N == Len(list)
           Seen(k) == {PairOf(list[i]) : i \in 1..k}
           Inv(l, k) ==
             /\ l \in Seq(E) /\ ToSet(l) \subseteq ToSet(list) /\ MountedOnce(l)
             /\ PairsOf(l) = Seen(k)
<1>1. PICK f : /\ f[0] = <<>> /\ f[N] = AppendMounts(<<>>, list)
               /\ \A k \in 1..N : f[k] = AppendMount(f[k - 1], list[k])
  <2> DEFINE base == <<>>
  <2>1. base \in Seq(E)
    OBVIOUS
  <2> HIDE DEF base, Inv, Seen
  <2>2. \E f : /\ f[0] = base /\ f[N] = AppendMounts(base, list)
               /\ \A k \in 1..N : f[k] = AppendMount(f[k - 1], list[k])
    BY <2>1, AppendMountLoop
  <2> QED
    BY <2>2 DEF base
<1>2. N \in Nat /\ DOMAIN list = 1..N /\ \A k \in 1..N : list[k] \in E /\ list[k] \in ToSet(list)
  BY DEF ToSet
<1> DEFINE S == {k \in 0..N : Inv(f[k], k)}
<1>3. 0 \in S
  <2>1. Seen(0) = {} /\ PairsOf(<<>>) = {} /\ ToSet(<<>>) = {} /\ <<>> \in Seq(E) /\ MountedOnce(<<>>)
    BY DEF ToSet, MountedOnce, PairsOf
  <2>2. 0 \in 0..N /\ f[0] = <<>>
    BY <1>1, <1>2
  <2> HIDE DEF Seen
  <2>3. Inv(f[0], 0)
    BY <2>1, <2>2
  <2> QED
    BY <2>2, <2>3
<1>4. ASSUME NEW k \in 1..N, k - 1 \in S PROVE k \in S
  <2> DEFINE m == list[k]
             l == f[k - 1]
  <2>1. Inv(l, k - 1) /\ m \in E /\ m \in ToSet(list) /\ f[k] = AppendMount(l, m)
    BY <1>1, <1>2, <1>4
  <2>2. Seen(k) = Seen(k - 1) \cup {PairOf(m)}
    BY <1>2
  <2> HIDE DEF m, l, Seen
  <2>3. l \in Seq(E)
    BY <2>1
  <2>4. LET r == AppendMount(l, m)
        IN /\ r \in Seq(E) /\ PairsOf(r) = PairsOf(l) \cup {PairOf(m)}
           /\ MountedOnce(l) => MountedOnce(r)
           /\ ToSet(r) \subseteq ToSet(l) \cup {m}
    BY <2>1, <2>3, AppendMountStep
  <2>5. Inv(f[k], k)
    BY <2>1, <2>2, <2>4
  <2>6. k \in 0..N
    BY <1>2
  <2> QED
    BY <2>5, <2>6
<1> HIDE DEF S
<1>5. N \in S
  <2>1. 0..N \subseteq S
    BY <1>2, <1>3, <1>4, Upward
  <2> QED
    BY <1>2, <2>1
<1>6. Seen(N) = PairsOf(list)
  BY <1>2 DEF PairsOf, ToSet
<1>7. Inv(f[N], N)
  BY <1>5 DEF S
<1> HIDE DEF Seen
<1> QED
  BY <1>1, <1>6, <1>7

\* The merge of mounts (merger.go, mergeMounts): every (host, target) pair of either
\* list once, as the override has it, or as the base does if the override has none
\* of that pair.
THEOREM Mounts ==
  ASSUME NEW E, NEW base \in Seq(E), NEW override \in Seq(E)
  PROVE  LET r == mergeMounts(base, override)
         IN /\ r \in Seq(E) /\ PairsOf(r) = PairsOf(base) \cup PairsOf(override) /\ MountedOnce(r)
            /\ \A x \in ToSet(r) : \/ x \in ToSet(override)
                                   \/ x \in ToSet(base) /\ PairOf(x) \notin PairsOf(override)
<1> DEFINE N == Len(override)
           b == AppendMounts(<<>>, base)
           Seen(k) == {PairOf(override[i]) : i \in 1..k}
           Inv(l, k) ==
             /\ l \in Seq(E) /\ PairsOf(l) = PairsOf(base) \cup Seen(k) /\ MountedOnce(l)
             /\ \A x \in ToSet(l) : \/ x \in ToSet(override)
                                    \/ x \in ToSet(base) /\ PairOf(x) \notin Seen(k)
<1>1. b \in Seq(E) /\ ToSet(b) \subseteq ToSet(base) /\ MountedOnce(b) /\ PairsOf(b) = PairsOf(base)
  BY UniqueMounts
<1>2. mergeMounts(base, override) = SetMounts(b, override)
  BY DEF mergeMounts
<1> HIDE DEF b
<1>3. PICK f : /\ f[0] = b /\ f[N] = SetMounts(b, override)
               /\ \A k \in 1..N : f[k] = SetMount(f[k - 1], override[k])
  <2> HIDE DEF Inv, Seen
  <2> QED
    BY <1>1, SetMountLoop
<1>4. N \in Nat /\ DOMAIN override = 1..N
  OBVIOUS
<1>5. \A k \in 1..N : override[k] \in E /\ override[k] \in ToSet(override)
  BY <1>4 DEF ToSet
<1> DEFINE S == {k \in 0..N : Inv(f[k], k)}
<1>6. 0 \in S
  <2>1. Seen(0) = {}
    OBVIOUS
  <2>2. 0 \in 0..N /\ f[0] = b
    BY <1>3, <1>4
  <2> HIDE DEF Seen
  <2>3. Inv(f[0], 0)
    BY <1>1, <2>1, <2>2
  <2> QED
    BY <2>2, <2>3
<1>7. ASSUME NEW k \in 1..N, k - 1 \in S PROVE k \in S
  <2> DEFINE m == override[k]
             l == f[k - 1]
  <2>1. Inv(l, k - 1) /\ m \in E /\ m \in ToSet(override) /\ f[k] = SetMount(l, m)
    BY <1>3, <1>4, <1>5, <1>7
  <2>2. Seen(k) = Seen(k - 1) \cup {PairOf(m)}
    BY <1>4
  <2> HIDE DEF m, l, Seen
  <2>3. l \in Seq(E)
    BY <2>1
  <2>4. LET r == SetMount(l, m)
        IN /\ r \in Seq(E) /\ PairsOf(r) = PairsOf(l) \cup {PairOf(m)}
           /\ MountedOnce(l) => MountedOnce(r)
           /\ \A x \in ToSet(r) : x = m \/ (x \in ToSet(l) /\ ~SameMount(x, m))
    BY <2>1, <2>3, SetMountStep
  <2>5. Inv(f[k], k)
    BY <2>1, <2>2, <2>4, SamePair
  <2>6. k \in 0..N
    BY <1>4
  <2> QED
    BY <2>5, <2>6
<1> HIDE DEF S
<1>8. N \in S
  <2>1. 0..N \subseteq S
    BY <1>4, <1>6, <1>7, Upward
  <2> QED
    BY <1>4, <2>1
<1>9. Seen(N) = PairsOf(override)
  BY <1>4 DEF PairsOf, ToSet
<1>10. Inv(f[N], N)
  BY <1>8 DEF S
<1> HIDE DEF Seen
<1> QED
  BY <1>2, <1>3, <1>9, <1>10

\* Unclaimed drops the entries of the names, and no others.
LEMMA Unclaims ==
  ASSUME NEW E, NEW list \in Seq(E), NEW names
  PROVE  LET r == Unclaimed(list, names)
         IN /\ r \in Seq(E)
            /\ NoRepeat(list) => NoRepeat(r)
            /\ ToSet(r) = {e \in ToSet(list) : e.name \notin names}
<1> DEFINE N == Len(list)
           Seen(k) == {list[i] : i \in 1..k}
           Inv(l, k) ==
             /\ l \in Seq(E) /\ ToSet(l) = {e \in Seen(k) : e.name \notin names}
             /\ NoRepeat(list) => NoRepeat(l)
<1>1. PICK f : /\ f[0] = <<>> /\ f[N] = Unclaimed(list, names)
               /\ \A k \in 1..N : f[k] = (IF list[k].name \in names THEN f[k - 1]
                                          ELSE Append(f[k - 1], list[k]))
  <2> HIDE DEF Inv, Seen
  <2> QED
    BY UnclaimedLoop
<1>2. N \in Nat /\ DOMAIN list = 1..N /\ \A k \in 1..N : list[k] \in E
  OBVIOUS
<1> DEFINE S == {k \in 0..N : Inv(f[k], k)}
<1>3. 0 \in S
  <2>1. Seen(0) = {} /\ ToSet(<<>>) = {} /\ <<>> \in Seq(E) /\ NoRepeat(<<>>)
    BY DEF ToSet, NoRepeat
  <2>2. 0 \in 0..N /\ f[0] = <<>>
    BY <1>1, <1>2
  <2> HIDE DEF Seen
  <2>3. Inv(f[0], 0)
    BY <2>1, <2>2
  <2> QED
    BY <2>2, <2>3
<1>4. ASSUME NEW k \in 1..N, k - 1 \in S PROVE k \in S
  <2> DEFINE e == list[k]
             l == f[k - 1]
  <2>1. Inv(l, k - 1) /\ e \in E /\ f[k] = (IF e.name \in names THEN l ELSE Append(l, e))
    BY <1>1, <1>2, <1>4
  <2>2. Seen(k) = Seen(k - 1) \cup {e}
    BY <1>2
  <2>3. NoRepeat(list) => \A x \in Seen(k - 1) : x.name # e.name
    BY <1>2 DEF NoRepeat
  <2> HIDE DEF e, l, Seen
  <2>4. k \in 0..N
    BY <1>2
  <2>5. CASE e.name \in names
    <3>1. Inv(f[k], k)
      BY <2>1, <2>2, <2>5
    <3> QED
      BY <2>4, <3>1
  <2>6. CASE e.name \notin names
    <3> DEFINE r == Append(l, e)
    <3>0. l \in Seq(E)
      BY <2>1
    <3>1. /\ r \in Seq(E) /\ DOMAIN r = 1..(Len(l) + 1) /\ r[Len(l) + 1] = e
          /\ \A i \in DOMAIN l : r[i] = l[i]
          /\ ToSet(r) = ToSet(l) \cup {e}
      BY <2>1, <3>0, Appended
    <3>2. DOMAIN l = 1..Len(l) /\ Len(l) \in Nat
      BY <3>0
    <3> HIDE DEF r
    <3>3. \A i \in DOMAIN r : i \in DOMAIN l \/ i = Len(l) + 1
      BY <3>1, <3>2
    <3>4. \A i \in DOMAIN l : l[i] \in Seen(k - 1)
      BY <2>1 DEF ToSet
    <3>5. NoRepeat(list) => NoRepeat(r)
      BY <2>1, <2>3, <3>1, <3>3, <3>4 DEF NoRepeat
    <3>6. Inv(r, k)
      BY <2>1, <2>2, <2>6, <3>1, <3>5
    <3>7. f[k] = r
      BY <2>1, <2>6 DEF r
    <3> QED
      BY <2>4, <3>6, <3>7
  <2> QED
    BY <2>5, <2>6
<1> HIDE DEF S
<1>5. N \in S
  <2>1. 0..N \subseteq S
    BY <1>2, <1>3, <1>4, Upward
  <2> QED
    BY <1>2, <2>1
<1>6. Seen(N) = ToSet(list)
  BY <1>2 DEF ToSet
<1>7. Inv(f[N], N)
  BY <1>5 DEF S
<1> HIDE DEF Seen
<1> QED
  BY <1>1, <1>6, <1>7

-----------------------------------------------------------------------------
(* The merge of two configurations.                                        *)

\* A list is a sequence over any set that has its items.
LEMMA Wider ==
  ASSUME NEW list, IsList(list), NEW E, ToSet(list) \subseteq E
  PROVE  list \in Seq(E)
<1>1. Len(list) \in Nat /\ list \in [1..Len(list) -> ToSet(list)]
  BY DEF IsList
<1>2. list \in [1..Len(list) -> E]
  BY <1>1
<1> QED
  BY <1>1, <1>2, ListOf

\* Two lists are sequences over one set.
LEMMA Common ==
  ASSUME NEW a, NEW b, IsList(a), IsList(b)
  PROVE  \E E : a \in Seq(E) /\ b \in Seq(E)
<1> DEFINE E == ToSet(a) \cup ToSet(b)
<1>1. a \in Seq(E) /\ b \in Seq(E)
  BY Wider
<1> QED
  BY <1>1

\* Two lists joined.
LEMMA Joined ==
  ASSUME NEW a, NEW b, IsList(a), IsList(b)
  PROVE  IsList(a \o b) /\ ToSet(a \o b) = ToSet(a) \cup ToSet(b)
<1>1. PICK E : a \in Seq(E) /\ b \in Seq(E)
  BY Common
<1>2. a \o b \in Seq(E) /\ ToSet(a \o b) = ToSet(a) \cup ToSet(b)
  BY <1>1, JoinedEarlier
<1> QED
  BY <1>2, ListIs

\* The names of a list are those of its items.
LEMMA NamesAre ==
  \A list : NamesOf(list) = {e.name : e \in ToSet(list)}
BY DEF NamesOf, ToSet

\* Two lists without a name in common.
LEMMA ApartIs ==
  ASSUME NEW a, NEW b, IsList(a), IsList(b)
  PROVE  NoRepeat(a \o b) <=>
           NoRepeat(a) /\ NoRepeat(b) /\ NamesOf(a) \cap NamesOf(b) = {}
<1> DEFINE r == a \o b
           M == Len(a)
           N == Len(b)
<1>1. /\ M \in Nat /\ N \in Nat /\ DOMAIN a = 1..M /\ DOMAIN b = 1..N /\ DOMAIN r = 1..(M + N)
      /\ \A i \in 1..M : r[i] = a[i]
      /\ \A i \in 1..N : r[M + i] = b[i]
  BY DEF IsList
<1> HIDE DEF r, M, N
<1>2. /\ \A i \in 1..M : i \in 1..(M + N)
      /\ \A i \in 1..N : M + i \in 1..(M + N) /\ M + i \notin 1..M
      /\ \A i, j \in 1..N : M + i = M + j => i = j
  BY <1>1
<1>3. ASSUME NEW i \in 1..(M + N), i \notin 1..M PROVE \E k \in 1..N : i = M + k
  <2>1. i - M \in 1..N /\ i = M + (i - M)
    BY <1>1, <1>3
  <2> QED
    BY <2>1
<1>4. ASSUME NoRepeat(r) PROVE NoRepeat(a) /\ NoRepeat(b) /\ NamesOf(a) \cap NamesOf(b) = {}
  <2>1. \A i, j \in 1..(M + N) : i # j => r[i].name # r[j].name
    BY <1>1, <1>4 DEF NoRepeat
  <2>2. NoRepeat(a)
    BY <1>1, <1>2, <2>1 DEF NoRepeat
  <2>3. NoRepeat(b)
    <3> SUFFICES ASSUME NEW i \in 1..N, NEW j \in 1..N, i # j PROVE b[i].name # b[j].name
      BY <1>1 DEF NoRepeat
    <3>1. M + i # M + j /\ M + i \in 1..(M + N) /\ M + j \in 1..(M + N)
      BY <1>2
    <3> QED
      BY <1>1, <2>1, <3>1
  <2>4. ASSUME NEW i \in 1..M, NEW j \in 1..N PROVE a[i].name # b[j].name
    <3>1. i # M + j /\ i \in 1..(M + N) /\ M + j \in 1..(M + N)
      BY <1>2
    <3> QED
      BY <1>1, <2>1, <3>1
  <2> QED
    BY <1>1, <2>2, <2>3, <2>4 DEF NamesOf
<1>5. ASSUME NoRepeat(a), NoRepeat(b), NamesOf(a) \cap NamesOf(b) = {} PROVE NoRepeat(r)
  <2>1. \A i \in 1..M, j \in 1..N : a[i].name # b[j].name
    BY <1>1, <1>5 DEF NamesOf
  <2>2. \A i, j \in 1..M : i # j => a[i].name # a[j].name
    BY <1>1, <1>5 DEF NoRepeat
  <2>3. \A i, j \in 1..N : i # j => b[i].name # b[j].name
    BY <1>1, <1>5 DEF NoRepeat
  <2> SUFFICES ASSUME NEW i \in 1..(M + N), NEW j \in 1..(M + N), i # j
               PROVE  r[i].name # r[j].name
    BY <1>1 DEF NoRepeat
  <2>4. CASE i \in 1..M /\ j \in 1..M
    BY <1>1, <2>2, <2>4
  <2>5. CASE i \in 1..M /\ j \notin 1..M
    BY <1>1, <1>3, <2>1, <2>5
  <2>6. CASE i \notin 1..M /\ j \in 1..M
    <3>1. PICK k \in 1..N : i = M + k
      BY <1>3, <2>6
    <3>2. a[j].name # b[k].name
      BY <2>1, <2>6
    <3> QED
      BY <1>1, <2>6, <3>1, <3>2
  <2>7. CASE i \notin 1..M /\ j \notin 1..M
    <3>1. PICK k \in 1..N : i = M + k
      BY <1>3, <2>7
    <3>2. PICK l \in 1..N : j = M + l
      BY <1>3, <2>7
    <3>3. b[k].name # b[l].name
      BY <2>3, <3>1, <3>2
    <3> QED
      BY <1>1, <3>1, <3>2, <3>3
  <2> QED
    BY <2>4, <2>5, <2>6, <2>7
<1> QED
  BY <1>4, <1>5 DEF r

\* What the merge of two lists of named entries is, in terms of the two.
Overrides(r, base, override) ==
  /\ IsList(r) /\ NamesOf(r) = NamesOf(base) \cup NamesOf(override)
  /\ NoRepeat(base) => NoRepeat(r)
  /\ \A x \in ToSet(r) : \/ x \in ToSet(override)
                         \/ x \in ToSet(base) /\ x.name \notin NamesOf(override)

\* ByName, for lists.
LEMMA ByNameIs ==
  ASSUME NEW base, NEW override, IsList(base), IsList(override)
  PROVE  Overrides(mergeByName(base, override), base, override)
<1>1. PICK E : base \in Seq(E) /\ override \in Seq(E)
  BY Common
<1> DEFINE r == mergeByName(base, override)
<1>2. /\ r \in Seq(E) /\ NamesOf(r) = NamesOf(base) \cup NamesOf(override)
      /\ NoRepeat(base) => NoRepeat(r)
      /\ \A x \in ToSet(r) : \/ x \in ToSet(override)
                             \/ x \in ToSet(base) /\ x.name \notin NamesOf(override)
  BY <1>1, ByName
<1> HIDE DEF r
<1>3. IsList(r)
  BY <1>2, ListIs
<1> QED
  BY <1>2, <1>3 DEF Overrides, r

Joins(r, base, override) ==
  /\ IsList(r) /\ ToSet(r) = ToSet(base) \cup ToSet(override) /\ IsInjective(r)
  /\ \A x, y : Earlier(r, x, y) <=>
                 Earlier(base, x, y) \/ (y \notin ToSet(base) /\ Earlier(override, x, y))

\* Slices, for lists.
LEMMA SlicesAre ==
  ASSUME NEW base, NEW override, IsList(base), IsList(override)
  PROVE  Joins(mergeStringSlices(base, override), base, override)
<1>1. PICK E : base \in Seq(E) /\ override \in Seq(E)
  BY Common
<1> DEFINE r == mergeStringSlices(base, override)
<1>2. /\ r \in Seq(E) /\ ToSet(r) = ToSet(base) \cup ToSet(override) /\ IsInjective(r)
      /\ \A x, y : Earlier(r, x, y) <=>
           Earlier(base, x, y) \/ (y \notin ToSet(base) /\ Earlier(override, x, y))
  BY <1>1, Slices
<1> HIDE DEF r
<1>3. IsList(r)
  BY <1>2, ListIs
<1> QED
  BY <1>2, <1>3 DEF Joins, r

\* Mounts, for lists.
LEMMA MountsAre ==
  ASSUME NEW base, NEW override, IsList(base), IsList(override)
  PROVE  LET r == mergeMounts(base, override)
         IN /\ IsList(r) /\ PairsOf(r) = PairsOf(base) \cup PairsOf(override) /\ MountedOnce(r)
            /\ \A x \in ToSet(r) : \/ x \in ToSet(override)
                                   \/ x \in ToSet(base) /\ PairOf(x) \notin PairsOf(override)
<1>1. PICK E : base \in Seq(E) /\ override \in Seq(E)
  BY Common
<1> DEFINE r == mergeMounts(base, override)
<1>2. /\ r \in Seq(E) /\ PairsOf(r) = PairsOf(base) \cup PairsOf(override) /\ MountedOnce(r)
      /\ \A x \in ToSet(r) : \/ x \in ToSet(override)
                             \/ x \in ToSet(base) /\ PairOf(x) \notin PairsOf(override)
  BY <1>1, Mounts
<1> HIDE DEF r
<1>3. IsList(r)
  BY <1>2, ListIs
<1> QED
  BY <1>2, <1>3 DEF r

\* The commands of a merge, and by symmetry the servers: claimed are the names
\* the override has as the other kind.
LEMMA KindIs ==
  ASSUME NEW base, NEW override, NEW claimed, IsList(base), IsList(override)
  PROVE  LET r == Unclaimed(mergeByName(base, override), claimed)
         IN /\ IsList(r)
            /\ NoRepeat(base) => NoRepeat(r)
            /\ NamesOf(r) = (NamesOf(base) \cup NamesOf(override)) \ claimed
            /\ \A x \in ToSet(r) :
                 /\ x.name \notin claimed
                 /\ \/ x \in ToSet(override)
                    \/ x \in ToSet(base) /\ x.name \notin NamesOf(override)
<1> DEFINE m == mergeByName(base, override)
           r == Unclaimed(m, claimed)
<1>1. Overrides(m, base, override)
  BY ByNameIs
<1> HIDE DEF m
<1>2. m \in Seq(ToSet(m))
  BY <1>1 DEF Overrides, IsList
<1>3. /\ r \in Seq(ToSet(m))
      /\ NoRepeat(m) => NoRepeat(r)
      /\ ToSet(r) = {e \in ToSet(m) : e.name \notin claimed}
  BY <1>2, Unclaims
<1> HIDE DEF r
<1>4. IsList(r)
  BY <1>3, ListIs
<1>5. NamesOf(r) = NamesOf(m) \ claimed
  BY <1>3, NamesAre
<1> QED
  BY <1>1, <1>3, <1>4, <1>5 DEF Overrides, m, r

IsEntry(e) == e = [name |-> e.name, val |-> e.val] /\ e.val \in URLs \cup {NoURL}

\* What Merge returns has the shape of a configuration.
LEMMA MergeIsConfig ==
  ASSUME NEW a, NEW b, IsConfig(a), IsConfig(b)
  PROVE  IsConfig(Merge(a, b))
<1> DEFINE c == Merge(a, b)
<1>1. /\ c.env = mergeByName(a.env, b.env)
      /\ c.mounts = mergeMounts(a.mounts, b.mounts)
      /\ c.skills = mergeStringSlices(a.skills, b.skills)
      /\ c.secrets = mergeStringSlices(a.secrets, b.secrets)
      /\ c.hosts = mergeStringSlices(a.hosts, b.hosts)
      /\ c.ports = mergeStringSlices(a.ports, b.ports)
      /\ c.cmds = Unclaimed(mergeByName(a.cmds, b.cmds), NamesOf(b.srvs))
      /\ c.srvs = Unclaimed(mergeByName(a.srvs, b.srvs), NamesOf(b.cmds))
  BY DEF Merge, mergeEnvironment, mergeSkills, mergeSecrets, mergePorts, mergeNetwork,
     mergeMCP,
         mergeMCPCommands, mergeMCPServers
<1>2. c = [env |-> c.env, mounts |-> c.mounts, skills |-> c.skills, secrets |-> c.secrets,
           cmds |-> c.cmds, srvs |-> c.srvs, mode |-> c.mode, hosts |-> c.hosts,
           ports |-> c.ports, features |-> c.features]
  BY DEF Merge
<1> HIDE DEF c
<1>3. /\ IsList(a.env) /\ IsList(a.mounts) /\ IsList(a.skills) /\ IsList(a.secrets)
      /\ IsList(a.cmds) /\ IsList(a.srvs) /\ IsList(a.hosts) /\ IsList(a.ports)
      /\ \A e \in ToSet(a.cmds) \cup ToSet(a.srvs) : IsEntry(e)
  BY DEF IsConfig, IsEntry
<1>4. /\ IsList(b.env) /\ IsList(b.mounts) /\ IsList(b.skills) /\ IsList(b.secrets)
      /\ IsList(b.cmds) /\ IsList(b.srvs) /\ IsList(b.hosts) /\ IsList(b.ports)
      /\ \A e \in ToSet(b.cmds) \cup ToSet(b.srvs) : IsEntry(e)
  BY DEF IsConfig, IsEntry
<1>5. IsList(c.env)
  BY <1>1, <1>3, <1>4, ByNameIs DEF Overrides
<1>6. IsList(c.mounts)
  BY <1>1, <1>3, <1>4, MountsAre
<1>7. IsList(c.skills) /\ IsList(c.secrets) /\ IsList(c.hosts) /\ IsList(c.ports)
  BY <1>1, <1>3, <1>4, SlicesAre DEF Joins
<1>8. IsList(c.cmds) /\ ToSet(c.cmds) \subseteq ToSet(a.cmds) \cup ToSet(b.cmds)
  BY <1>1, <1>3, <1>4, KindIs
<1>9. IsList(c.srvs) /\ ToSet(c.srvs) \subseteq ToSet(a.srvs) \cup ToSet(b.srvs)
  BY <1>1, <1>3, <1>4, KindIs
<1>10. \A e \in ToSet(c.cmds) \cup ToSet(c.srvs) : IsEntry(e)
  BY <1>3, <1>4, <1>8, <1>9
<1> QED
  BY <1>2, <1>5, <1>6, <1>7, <1>8, <1>9, <1>10 DEF IsConfig, IsEntry, c

ValidMCPIs(c) ==
  /\ NoRepeat(c.cmds) /\ NoRepeat(c.srvs) /\ NamesOf(c.cmds) \cap NamesOf(c.srvs) = {}
  /\ \A e \in ToSet(c.cmds) \cup ToSet(c.srvs) : e.name # "" /\ e.val # NoURL

\* ValidMCP of a configuration, part by part.
LEMMA ValidMCPParts ==
  ASSUME NEW c, IsList(c.cmds), IsList(c.srvs)
  PROVE  ValidMCP(c.cmds, c.srvs) <=> ValidMCPIs(c)
BY ApartIs, Joined DEF ValidMCP, ValidMCPIs

\* Two valid configurations make a valid one (merger.go, Merge; config.go, validate):
\* no name twice, no name both a command and a server, though they are merged
\* apart.
THEOREM MergeIsValid ==
  ASSUME NEW a, NEW b, IsConfig(a), IsConfig(b), validate(a), validate(b)
  PROVE  validate(Merge(a, b))
<1> DEFINE c == Merge(a, b)
<1>1. /\ c.env = mergeByName(a.env, b.env)
      /\ c.mounts = mergeMounts(a.mounts, b.mounts)
      /\ c.skills = mergeStringSlices(a.skills, b.skills)
      /\ c.secrets = mergeStringSlices(a.secrets, b.secrets)
      /\ c.hosts = mergeStringSlices(a.hosts, b.hosts)
      /\ c.cmds = Unclaimed(mergeByName(a.cmds, b.cmds), NamesOf(b.srvs))
      /\ c.srvs = Unclaimed(mergeByName(a.srvs, b.srvs), NamesOf(b.cmds))
      /\ c.mode \in {a.mode, b.mode}
  BY DEF Merge, mergeEnvironment, mergeSkills, mergeSecrets, mergeNetwork, mergeMCP,
         mergeMCPCommands, mergeMCPServers
<1>2. IsConfig(c)
  BY MergeIsConfig
<1> HIDE DEF c
<1>3. /\ IsList(a.env) /\ IsList(a.mounts) /\ IsList(a.skills) /\ IsList(a.secrets)
      /\ IsList(a.cmds) /\ IsList(a.srvs) /\ IsList(a.hosts)
  BY DEF IsConfig
<1>4. /\ IsList(b.env) /\ IsList(b.mounts) /\ IsList(b.skills) /\ IsList(b.secrets)
      /\ IsList(b.cmds) /\ IsList(b.srvs) /\ IsList(b.hosts)
  BY DEF IsConfig
<1>5. ValidEnvironment(c.env)
  <2>1. Overrides(c.env, a.env, b.env)
    BY <1>1, <1>3, <1>4, ByNameIs
  <2>2. ToSet(c.env) \subseteq ToSet(a.env) \cup ToSet(b.env)
    BY <2>1 DEF Overrides
  <2> QED
    BY <2>1, <2>2 DEF Overrides, ValidEnvironment, validate
<1>6. ValidMCP(c.cmds, c.srvs)
  <2>1. ValidMCPIs(a) /\ ValidMCPIs(b)
    BY <1>3, <1>4, ValidMCPParts DEF validate
  <2>2. /\ NoRepeat(a.cmds) => NoRepeat(c.cmds)
        /\ NamesOf(c.cmds) = (NamesOf(a.cmds) \cup NamesOf(b.cmds)) \ NamesOf(b.srvs)
        /\ ToSet(c.cmds) \subseteq ToSet(a.cmds) \cup ToSet(b.cmds)
    BY <1>1, <1>3, <1>4, KindIs
  <2>3. /\ NoRepeat(a.srvs) => NoRepeat(c.srvs)
        /\ NamesOf(c.srvs) = (NamesOf(a.srvs) \cup NamesOf(b.srvs)) \ NamesOf(b.cmds)
        /\ ToSet(c.srvs) \subseteq ToSet(a.srvs) \cup ToSet(b.srvs)
    BY <1>1, <1>3, <1>4, KindIs
  <2>4. ValidMCPIs(c)
    BY <2>1, <2>2, <2>3 DEF ValidMCPIs
  <2>5. IsList(c.cmds) /\ IsList(c.srvs)
    BY <1>2 DEF IsConfig
  <2> QED
    BY <2>4, <2>5, ValidMCPParts
<1>7. ValidMounts(c.mounts)
  <2>1. ToSet(c.mounts) \subseteq ToSet(a.mounts) \cup ToSet(b.mounts)
    BY <1>1, <1>3, <1>4, MountsAre
  <2> QED
    BY <2>1 DEF ValidMounts, validate
<1>8. /\ ToSet(c.secrets) = ToSet(a.secrets) \cup ToSet(b.secrets) /\ IsInjective(c.secrets)
      /\ ToSet(c.hosts) = ToSet(a.hosts) \cup ToSet(b.hosts)
      /\ ToSet(c.skills) = ToSet(a.skills) \cup ToSet(b.skills)
  BY <1>1, <1>3, <1>4, SlicesAre DEF Joins
<1> QED
  BY <1>1, <1>5, <1>6, <1>7, <1>8 DEF validate, c

-----------------------------------------------------------------------------
(* The configuration is valid at every step.                               *)

WorldInv ==
  /\ DOMAIN world = WorldParts \cup {"edited"}
  /\ \A part \in WorldParts : IsPart(part, world[part])
  /\ IsList(edits)
  /\ \A e \in ToSet(edits) : e.part \in WorldParts /\ IsPart(e.part, e.value)

BeforeLoaded == {"start", "workspace", "project", "failed"}

ConfigInv ==
  \/ cfg = NoConfig /\ pc \in BeforeLoaded
  \/ IsConfig(cfg) /\ validate(cfg)

Inv == WorldInv /\ ConfigInv

\* The empty configuration is valid.
LEMMA EmptyIsValid ==
  IsConfig(EmptyConfig) /\ validate(EmptyConfig)
<1> DEFINE c == EmptyConfig
<1>1. /\ c = [env |-> c.env, mounts |-> c.mounts, skills |-> c.skills, secrets |-> c.secrets,
              cmds |-> c.cmds, srvs |-> c.srvs, mode |-> c.mode, hosts |-> c.hosts,
              ports |-> c.ports, features |-> c.features]
      /\ c.env = <<>> /\ c.mounts = <<>> /\ c.skills = <<>> /\ c.secrets = <<>>
      /\ c.cmds = <<>> /\ c.srvs = <<>> /\ c.hosts = <<>> /\ c.ports = <<>> /\ c.mode = "unset"
  BY DEF EmptyConfig
<1> HIDE DEF c
<1>2. ToSet(<<>>) = {} /\ IsList(<<>>) /\ IsInjective(<<>>) /\ NoRepeat(<<>>) /\ <<>> \o <<>> = <<>>
  BY DEF ToSet, IsList, IsInjective, NoRepeat
<1>3. IsConfig(c)
  BY <1>1, <1>2 DEF IsConfig
<1>4. validate(c)
  BY <1>1, <1>2 DEF validate, ValidEnvironment, ValidMCP, ValidMounts
<1> QED
  BY <1>3, <1>4 DEF c

\* A list of two is that of its two items.
LEMMA PairIs ==
  ASSUME NEW S
  PROVE  \A u \in Seq(S) : Len(u) = 2 => u = <<u[1], u[2]>>
OBVIOUS

\* Two lists of one item, joined.
LEMMA PairConcat ==
  ASSUME NEW x, NEW y
  PROVE  <<x>> \o <<y>> = <<x, y>>
<1> DEFINE S == {x, y}
           a == <<x>>
           u == Append(a, y)
<1>1. a \in Seq(S) /\ Len(a) = 1 /\ a[1] = x /\ y \in S /\ 1 \in DOMAIN a
  OBVIOUS
<1>2. a \o <<y>> = u
  OBVIOUS
<1> HIDE DEF a, S
<1>3. u \in Seq(S) /\ Len(u) = Len(a) + 1 /\ u[Len(a) + 1] = y /\ \A i \in DOMAIN a : u[i] = a[i]
  BY <1>1, Appended
<1> HIDE DEF u
<1>4. Len(u) = 2 /\ u[1] = x /\ u[2] = y
  BY <1>1, <1>3
<1>5. u = <<u[1], u[2]>>
  BY <1>3, <1>4, PairIs
<1> QED
  BY <1>2, <1>4, <1>5 DEF a

\* The levels of one file.
LEMMA TwoLevels ==
  ASSUME NEW file, NEW a, NEW b
  PROVE  Level(file, a) \o Level(file, b) =
           IF a \in DOMAIN file
           THEN IF b \in DOMAIN file THEN <<file[a], file[b]>> ELSE <<file[a]>>
           ELSE IF b \in DOMAIN file THEN <<file[b]>> ELSE <<>>
<1>1. \A x : <<x>> \o <<>> = <<x>> /\ <<>> \o <<x>> = <<x>>
  OBVIOUS
<1>2. <<>> \o <<>> = <<>>
  OBVIOUS
<1> QED
  BY <1>1, <1>2, PairConcat DEF Level

\* The level of a project is empty, that of the global entry, that of the project's
\* entry, or the merge of the two (projects.go, Load).
LEMMA ProjectIs ==
  ASSUME NEW file, NEW project
  PROVE  LoadProject(file, project) =
           IF "" \in DOMAIN file
           THEN IF project \in DOMAIN file THEN Merge(file[""], file[project]) ELSE file[""]
           ELSE IF project \in DOMAIN file THEN file[project] ELSE EmptyConfig
<1>1. \A x : <<x>> # <<>> /\ Len(<<x>>) = 1 /\ <<x>>[1] = x
  OBVIOUS
<1>2. \A x, y : /\ <<x, y>> # <<>> /\ Len(<<x, y>>) # 1
                /\ <<x, y>>[1] = x /\ <<x, y>>[2] = y
  OBVIOUS
<1> DEFINE levels_ == Level(file, "") \o Level(file, project)
<1>3. LoadProject(file, project) =
        CASE levels_ = <<>> -> EmptyConfig
          [] Len(levels_) = 1 -> levels_[1]
          [] OTHER -> Merge(levels_[1], levels_[2])
  BY DEF LoadProject
<1> HIDE DEF levels_
<1>4. levels_ = IF "" \in DOMAIN file
                 THEN IF project \in DOMAIN file THEN <<file[""], file[project]>> ELSE <<file[""]>>
                 ELSE IF project \in DOMAIN file THEN <<file[project]>> ELSE <<>>
  BY TwoLevels DEF levels_
<1>5. CASE "" \in DOMAIN file /\ project \in DOMAIN file
  <2>1. levels_ = <<file[""], file[project]>>
    BY <1>4, <1>5
  <2> QED
    BY <1>2, <1>3, <1>5, <2>1
<1>6. CASE "" \in DOMAIN file /\ project \notin DOMAIN file
  <2>1. levels_ = <<file[""]>>
    BY <1>4, <1>6
  <2> QED
    BY <1>1, <1>3, <1>6, <2>1
<1>7. CASE "" \notin DOMAIN file /\ project \in DOMAIN file
  <2>1. levels_ = <<file[project]>>
    BY <1>4, <1>7
  <2> QED
    BY <1>1, <1>3, <1>7, <2>1
<1>8. CASE "" \notin DOMAIN file /\ project \notin DOMAIN file
  <2>1. levels_ = <<>>
    BY <1>4, <1>8
  <2>2. Len(levels_) # 1
    BY <2>1
  <2> QED
    BY <1>3, <1>8, <2>1, <2>2
<1> QED
  BY <1>5, <1>6, <1>7, <1>8

\* A project level that loads is valid.
LEMMA ProjectIsValid ==
  ASSUME NEW file, NEW project, ProjectLoads(file, project),
         \A k \in DOMAIN file : IsConfig(file[k])
  PROVE  IsConfig(LoadProject(file, project)) /\ validate(LoadProject(file, project))
<1>1. "" \in DOMAIN file => IsConfig(file[""]) /\ validate(file[""])
  BY DEF ProjectLoads
<1>2. project \in DOMAIN file => IsConfig(file[project]) /\ validate(file[project])
  BY DEF ProjectLoads
<1> QED
  BY <1>1, <1>2, ProjectIs, MergeIsConfig, MergeIsValid, EmptyIsValid

\* A level over a valid configuration or none.
LEMMA NextIsValid ==
  ASSUME NEW c, NEW level, c = NoConfig \/ (IsConfig(c) /\ validate(c)),
         IsConfig(level), validate(level)
  PROVE  IsConfig(NextLevel(c, level)) /\ validate(NextLevel(c, level))
BY MergeIsConfig, MergeIsValid DEF NextLevel

\* The rewriting of the commands' URLs.
LEMMA TransformIsValid ==
  ASSUME NEW c, IsConfig(c), validate(c)
  PROVE  IsConfig(TransformConfig(c)) /\ validate(TransformConfig(c))
<1> DEFINE t == TransformConfig(c)
           h == ContainerHostname
<1>1. h \in ContainerHosts
  BY DEF ContainerHostname, ContainerHosts
<1> HIDE DEF h
<1>2. /\ t = [env |-> t.env, mounts |-> t.mounts, skills |-> t.skills, secrets |-> t.secrets,
              cmds |-> t.cmds, srvs |-> t.srvs, mode |-> t.mode, hosts |-> t.hosts,
              ports |-> t.ports, features |-> t.features]
      /\ t.env = c.env /\ t.mounts = c.mounts /\ t.skills = c.skills /\ t.secrets = c.secrets
      /\ t.srvs = c.srvs /\ t.mode = c.mode /\ t.hosts = c.hosts /\ t.ports = c.ports
      /\ t.cmds = RewriteArgs(c.cmds, h)
  BY DEF TransformConfig, IsConfig, h
<1> HIDE DEF t
<1>3. IsList(c.cmds) /\ IsList(c.srvs) /\ ValidMCPIs(c)
  BY ValidMCPParts DEF IsConfig, validate
<1>4. \A e \in ToSet(c.cmds) : IsEntry(e)
  BY DEF IsConfig, IsEntry
<1>5. /\ DOMAIN t.cmds = DOMAIN c.cmds
      /\ \A i \in DOMAIN c.cmds :
           /\ IsEntry(t.cmds[i]) /\ t.cmds[i].name = c.cmds[i].name
           /\ c.cmds[i].val # NoURL => t.cmds[i].val # NoURL
  <2>1. t.cmds = [i \in DOMAIN c.cmds |->
                    [c.cmds[i] EXCEPT !.val = RewriteURLWithHost(c.cmds[i].val, h)]]
    BY <1>2 DEF RewriteArgs
  <2> SUFFICES ASSUME NEW i \in DOMAIN c.cmds
               PROVE  /\ IsEntry(t.cmds[i]) /\ t.cmds[i].name = c.cmds[i].name
                      /\ c.cmds[i].val # NoURL => t.cmds[i].val # NoURL
    BY <2>1
  <2> DEFINE e == c.cmds[i]
             u == RewriteURLWithHost(e.val, h)
  <2>2. IsEntry(e)
    BY <1>4 DEF ToSet
  <2>3. u \in URLs \cup {NoURL} /\ (e.val # NoURL => u # NoURL)
    <3> HIDE DEF e
    <3>1. CASE e.val = NoURL
      BY <3>1 DEF RewriteURLWithHost
    <3>2. CASE e.val # NoURL
      <4>1. e.val \in URLs
        BY <2>2, <3>2 DEF IsEntry
      <4>2. u \in URLs
        BY <1>1, <4>1 DEF RewriteURLWithHost, URLs
      <4> QED
        BY <4>2, NoURLAssumption DEF URLs
    <3> QED
      BY <3>1, <3>2
  <2> HIDE DEF u
  <2>4. t.cmds[i] = [e EXCEPT !.val = u]
    BY <2>1 DEF u
  <2>5. t.cmds[i] = [name |-> e.name, val |-> u]
    BY <2>2, <2>4 DEF IsEntry
  <2> QED
    BY <2>3, <2>5 DEF IsEntry
<1>6. IsList(t.cmds)
  <2>1. Len(c.cmds) \in Nat /\ DOMAIN c.cmds = 1..Len(c.cmds)
    BY <1>3 DEF IsList
  <2>2. t.cmds \in [1..Len(c.cmds) -> ToSet(t.cmds)]
    BY <1>2, <1>5, <2>1 DEF ToSet, RewriteArgs
  <2> QED
    BY <2>1, <2>2, ListOf DEF IsList
<1>7. \A e \in ToSet(t.cmds) : IsEntry(e)
  BY <1>5 DEF ToSet
<1>8. IsConfig(t)
  BY <1>2, <1>4, <1>6, <1>7 DEF IsConfig, IsEntry
<1>9. NamesOf(t.cmds) = NamesOf(c.cmds)
  BY <1>5 DEF NamesOf
<1>10. NoRepeat(t.cmds)
  BY <1>3, <1>5 DEF NoRepeat, ValidMCPIs
<1>11. \A e \in ToSet(t.cmds) : e.name # "" /\ e.val # NoURL
  <2>1. \A i \in DOMAIN c.cmds : c.cmds[i].name # "" /\ c.cmds[i].val # NoURL
    BY <1>3 DEF ValidMCPIs, ToSet
  <2> QED
    BY <1>5, <2>1 DEF ToSet
<1>12. ValidMCPIs(t)
  BY <1>2, <1>3, <1>9, <1>10, <1>11 DEF ValidMCPIs
<1>13. ValidMCP(t.cmds, t.srvs)
  BY <1>2, <1>3, <1>6, <1>12, ValidMCPParts
<1> QED
  BY <1>2, <1>8, <1>13 DEF validate, t

\* A list without one item.
LEMMA Removed ==
  ASSUME NEW list, IsList(list), NEW i \in DOMAIN list
  PROVE  IsList(RemoveAt(list, i)) /\ ToSet(RemoveAt(list, i)) \subseteq ToSet(list)
<1> DEFINE E == ToSet(list)
           N == Len(list)
           a == SubSeq(list, 1, i - 1)
           b == SubSeq(list, i + 1, N)
<1>1. list \in Seq(E)
  BY DEF IsList
<1> HIDE DEF E
<1>2. N \in Nat /\ DOMAIN list = 1..N /\ i \in 1..N
  BY <1>1
<1>3. a \in Seq(E)
  BY <1>1, <1>2
<1>4. b \in Seq(E)
  BY <1>1, <1>2
<1> HIDE DEF a, b
<1>5. a \o b \in Seq(E)
  BY <1>3, <1>4
<1>6. RemoveAt(list, i) = a \o b
  BY DEF RemoveAt, a, b
<1> QED
  BY <1>5, <1>6, ListIs DEF E

\* SetToSeq lists a finite set.
LEMMA Enumerated ==
  ASSUME NEW S, IsFiniteSet(S)
  PROVE  IsList(SetToSeq(S)) /\ ToSet(SetToSeq(S)) = S
<1> DEFINE n == Cardinality(S)
           s == SetToSeq(S)
<1>1. n \in Nat /\ \E f \in [1..n -> S] : IsInjective(f)
  BY FS_CardinalityType DEF ExistsBijection, Bijection, Injection
<1>2. s \in [1..n -> S] /\ IsInjective(s)
  BY <1>1 DEF SetToSeq
<1> HIDE DEF s
<1>3. s \in Injection(1..n, S)
  BY <1>2 DEF Injection
<1>4. Cardinality(1..n) = n
  <2>1. 1 \in Int /\ n \in Int
    BY <1>1
  <2>2. Cardinality(1..n) = IF 1 > n THEN 0 ELSE n - 1 + 1
    BY <2>1, FS_Interval
  <2> QED
    BY <1>1, <2>2
<1>5. s \in Surjection(1..n, S)
  BY <1>3, <1>4, FS_Injection
<1>6. \A t \in S : \E i \in 1..n : s[i] = t
  BY <1>5 DEF Surjection
<1>7. ToSet(s) = S
  BY <1>2, <1>6 DEF ToSet
<1>8. IsList(s)
  BY <1>1, <1>2, <1>7, ListOf DEF IsList
<1> QED
  BY <1>7, <1>8 DEF s

\* A configuration that differs in a list only.
LEMMA OtherMounts ==
  ASSUME NEW c, NEW list, IsConfig(c), validate(c), IsList(list), ValidMounts(list)
  PROVE  IsConfig([c EXCEPT !.mounts = list]) /\ validate([c EXCEPT !.mounts = list])
<1> DEFINE t == [c EXCEPT !.mounts = list]
<1>1. /\ t = [env |-> t.env, mounts |-> t.mounts, skills |-> t.skills, secrets |-> t.secrets,
              cmds |-> t.cmds, srvs |-> t.srvs, mode |-> t.mode, hosts |-> t.hosts,
              ports |-> t.ports, features |-> t.features]
      /\ t.env = c.env /\ t.mounts = list /\ t.skills = c.skills /\ t.secrets = c.secrets
      /\ t.cmds = c.cmds /\ t.srvs = c.srvs /\ t.mode = c.mode /\ t.hosts = c.hosts
      /\ t.ports = c.ports
  BY DEF IsConfig
<1> HIDE DEF t
<1>2. IsConfig(t)
  BY <1>1 DEF IsConfig
<1>3. validate(t)
  BY <1>1 DEF validate
<1> QED
  BY <1>2, <1>3 DEF t

\* The fields of a configuration with other hosts.
LEMMA HostsField ==
  ASSUME NEW c, NEW list, IsConfig(c)
  PROVE  LET t == [c EXCEPT !.hosts = list]
         IN t = [env |-> t.env, mounts |-> t.mounts, skills |-> t.skills, secrets |-> t.secrets,
                 cmds |-> t.cmds, srvs |-> t.srvs, mode |-> t.mode, hosts |-> t.hosts,
                 ports |-> t.ports, features |-> t.features]
<1>1. /\ DOMAIN c = {"env", "mounts", "skills", "secrets", "cmds", "srvs", "mode", "hosts",
                    "ports", "features"}
      /\ c = [f \in DOMAIN c |-> c[f]]
  BY DEF IsConfig
<1> QED
  BY <1>1

\* Other hosts, none of them empty, leave a configuration valid.
LEMMA OtherHosts ==
  ASSUME NEW c, NEW list, IsConfig(c), validate(c), IsList(list), "" \notin ToSet(list)
  PROVE  IsConfig([c EXCEPT !.hosts = list]) /\ validate([c EXCEPT !.hosts = list])
<1> DEFINE t == [c EXCEPT !.hosts = list]
<1>1. t = [env |-> t.env, mounts |-> t.mounts, skills |-> t.skills, secrets |-> t.secrets,
           cmds |-> t.cmds, srvs |-> t.srvs, mode |-> t.mode, hosts |-> t.hosts,
           ports |-> t.ports, features |-> t.features]
  BY HostsField
<1>2. /\ t.env = c.env /\ t.mounts = c.mounts /\ t.skills = c.skills /\ t.secrets = c.secrets
      /\ t.cmds = c.cmds /\ t.srvs = c.srvs /\ t.mode = c.mode /\ t.hosts = list
      /\ t.ports = c.ports
  BY DEF IsConfig
<1> HIDE DEF t
<1>3. IsConfig(t)
  BY <1>1, <1>2 DEF IsConfig
<1>4. validate(t)
  BY <1>2 DEF validate
<1> QED
  BY <1>3, <1>4 DEF t

\* A skill may be mounted wherever it may be.
LEMMA SkillsAreMounted ==
  ASSUME IsConfig(cfg), validate(cfg)
  PROVE  LET c == [cfg EXCEPT !.mounts = @ \o SkillMounts] IN IsConfig(c) /\ validate(c)
<1>1. IsList(cfg.mounts) /\ IsList(cfg.skills) /\ ValidMounts(cfg.mounts)
  BY DEF IsConfig, validate
<1>2. \A i \in DOMAIN cfg.skills : isValidHostPath(cfg.skills[i], {"HOME"})
  BY DEF validate, ToSet
<1> DEFINE M(i) == [host |-> cfg.skills[i], target |-> SkillTarget(cfg.skills[i]), ro |-> TRUE]
           s == SkillMounts
<1>3. Len(cfg.skills) \in Nat /\ DOMAIN cfg.skills = 1..Len(cfg.skills)
  BY <1>1 DEF IsList
<1>4. DOMAIN s = DOMAIN cfg.skills /\ \A i \in DOMAIN cfg.skills : s[i] = M(i)
  BY DEF SkillMounts
<1>5. s = [i \in DOMAIN cfg.skills |-> s[i]]
  BY DEF SkillMounts
<1> HIDE DEF s
<1>6. IsList(s)
  <2>1. s \in [1..Len(cfg.skills) -> ToSet(s)]
    BY <1>3, <1>4, <1>5 DEF ToSet
  <2> QED
    BY <1>3, <2>1, ListOf DEF IsList
<1>7. ValidMounts(s)
  <2> SUFFICES ASSUME NEW i \in DOMAIN cfg.skills
               PROVE  /\ isValidHostPath(s[i].host, {"SOURCES", "HOME"})
                      /\ isValidTargetPath(s[i].target)
                      /\ checkTargetEscape(s[i].target)
    BY <1>4 DEF ValidMounts, ToSet
  <2>1. SkillTarget(cfg.skills[i]).root = "HOME" /\ SkillTarget(cfg.skills[i]).up = 0
    BY DEF SkillTarget
  <2>2. s[i] = M(i)
    BY <1>4
  <2>3. s[i].host = cfg.skills[i] /\ s[i].target = SkillTarget(cfg.skills[i])
    BY <2>2
  <2> QED
    BY <1>2, <2>1, <2>3 DEF isValidHostPath, isValidTargetPath, checkTargetEscape
<1>8. IsList(cfg.mounts \o s) /\ ToSet(cfg.mounts \o s) = ToSet(cfg.mounts) \cup ToSet(s)
  BY <1>1, <1>6, Joined
<1>9. ValidMounts(cfg.mounts \o s)
  BY <1>1, <1>7, <1>8 DEF ValidMounts
<1>10. /\ IsConfig([cfg EXCEPT !.mounts = cfg.mounts \o s])
       /\ validate([cfg EXCEPT !.mounts = cfg.mounts \o s])
  BY <1>8, <1>9, OtherMounts
<1> QED
  BY <1>10 DEF s

\* A detected credential has a mount of the configuration.
LEMMA FoundMount ==
  ASSUME IsList(cfg.mounts), NEW c, Found(c) # <<>>
  PROVE  \E i \in DOMAIN cfg.mounts : Head(Found(c)).mount = cfg.mounts[i]
<1> DEFINE k == Detect(c, cfg.mounts, world.files)
<1>1. k # 0 /\ Head(Found(c)).mount = cfg.mounts[k]
  BY DEF Found
<1>2. k \in DOMAIN cfg.mounts
  <2> DEFINE usable == IF c = "gcloud" THEN Candidates(c, cfg.mounts)
                       ELSE {i \in Candidates(c, cfg.mounts) :
                               loads(world.files, CandidateFile(c, cfg.mounts[i]))}
             first == CHOOSE i \in usable : \A j \in usable : i <= j
  <2>1. usable \subseteq DOMAIN cfg.mounts
    BY DEF Candidates
  <2>2. k \in {0, first} /\ (usable = {} => k = 0)
    BY DEF Detect
  <2> HIDE DEF usable, k
  <2>3. usable # {}
    BY <1>1, <2>2
  <2>4. Len(cfg.mounts) \in Nat /\ DOMAIN cfg.mounts = 1..Len(cfg.mounts)
    BY DEF IsList
  <2>5. Min(usable) \in usable /\ \A j \in usable : Min(usable) <= j
    BY <2>1, <2>3, <2>4, MinOf
  <2>6. first \in usable
    BY <2>5
  <2> QED
    BY <1>1, <2>1, <2>2, <2>6
<1> QED
  BY <1>1, <1>2

\* A credential that is intercepted loses its mount: what is left is valid.
LEMMA RemovedIsValid ==
  ASSUME IsConfig(cfg), validate(cfg), NEW c, Found(c) # <<>>
  PROVE  LET t == removeMountFromConfig(cfg, Head(Found(c)).mount) IN IsConfig(t) /\ validate(t)
<1> DEFINE m == Head(Found(c)).mount
           i == CHOOSE i \in DOMAIN cfg.mounts : cfg.mounts[i] = m
           l == RemoveAt(cfg.mounts, i)
<1>1. IsList(cfg.mounts) /\ ValidMounts(cfg.mounts)
  BY DEF IsConfig, validate
<1>2. \E x \in DOMAIN cfg.mounts : cfg.mounts[x] = m
  BY <1>1, FoundMount
<1> HIDE DEF m
<1>3. i \in DOMAIN cfg.mounts
  BY <1>2
<1>4. removeMountFromConfig(cfg, m) = [cfg EXCEPT !.mounts = l]
  BY DEF removeMountFromConfig
<1> HIDE DEF i
<1>5. IsList(l) /\ ToSet(l) \subseteq ToSet(cfg.mounts)
  BY <1>1, <1>3, Removed
<1>6. ValidMounts(l)
  BY <1>1, <1>5 DEF ValidMounts
<1> HIDE DEF l
<1> QED
  BY <1>4, <1>5, <1>6, OtherMounts DEF m

\* A set of two is finite.
LEMMA TwoIsFinite ==
  ASSUME NEW x, NEW y
  PROVE  IsFiniteSet({x, y})
<1>1. IsFiniteSet({x}) /\ IsFiniteSet({y})
  BY FS_Singleton
<1>2. IsFiniteSet({x} \cup {y})
  BY <1>1, FS_Union
<1>3. {x} \cup {y} = {x, y}
  OBVIOUS
<1> QED
  BY <1>2, <1>3

\* A set of three is finite.
LEMMA ThreeIsFinite ==
  ASSUME NEW x, NEW y, NEW z
  PROVE  IsFiniteSet({x, y, z})
<1>1. IsFiniteSet({x, y}) /\ IsFiniteSet({z})
  BY TwoIsFinite, FS_Singleton
<1>2. IsFiniteSet({x, y} \cup {z})
  BY <1>1, FS_Union
<1>3. {x, y} \cup {z} = {x, y, z}
  OBVIOUS
<1> QED
  BY <1>2, <1>3

\* The hosts of a credential, spelled out.
LEMMA HostsAreFinite ==
  ASSUME NEW d, NEW files, NEW path
  PROVE  LET hosts == expandVertexAIWildcards(HostPatterns(d, files, path))
         IN IsFiniteSet(hosts) /\ "" \notin hosts
<1> DEFINE p == HostPatterns(d, files, path)
           hosts == expandVertexAIWildcards(p)
<1>1. IsFiniteSet(p) /\ "" \notin p
  <2>1. IsFiniteSet(vertexAIHosts) /\ "" \notin vertexAIHosts
    BY ThreeIsFinite DEF vertexAIHosts
  <2>2. \A x : IsFiniteSet({x} \ {""}) /\ IsFiniteSet({})
    BY FS_EmptySet, FS_Singleton, FS_Difference
  <2> QED
    BY <2>1, <2>2 DEF HostPatterns
<1> HIDE DEF p
<1>2. IsFiniteSet(hosts) /\ "" \notin hosts
  <2>1. IsFiniteSet(RegionHosts) /\ "" \notin RegionHosts
    BY TwoIsFinite DEF RegionHosts
  <2>2. IsFiniteSet(extraVertexAIHosts) /\ "" \notin extraVertexAIHosts
    BY FS_Singleton DEF extraVertexAIHosts
  <2>3. \A x : IsFiniteSet(p \ {x})
    BY <1>1, FS_Singleton, FS_Difference
  <2> DEFINE q == p \ {"*-aiplatform.googleapis.com"}
  <2>4. IsFiniteSet(q \cup RegionHosts)
    BY <2>1, <2>3, FS_Union
  <2>5. IsFiniteSet((q \cup RegionHosts) \cup extraVertexAIHosts)
    BY <2>2, <2>4, FS_Union
  <2> QED
    BY <1>1, <2>1, <2>2, <2>5 DEF expandVertexAIWildcards
<1> QED
  BY <1>2 DEF p

\* The hosts of a credential are added to the network: the configuration is valid.
LEMMA HostsAreValid ==
  ASSUME IsConfig(cfg), validate(cfg), NEW d, NEW files, NEW path
  PROVE  LET hosts == expandVertexAIWildcards(HostPatterns(d, files, path))
             t == addHostsToNetworkConfig(cfg, hosts)
         IN IsConfig(t) /\ validate(t)
<1> DEFINE p == HostPatterns(d, files, path)
           hosts == expandVertexAIWildcards(p)
           new == hosts \ ToSet(cfg.hosts)
           l == cfg.hosts \o SetToSeq(new)
<1>2. IsFiniteSet(hosts) /\ "" \notin hosts
  BY HostsAreFinite
<1> HIDE DEF hosts, p
<1>3. IsFiniteSet(new) /\ "" \notin new
  BY <1>2, FS_Subset
<1>4. IsList(SetToSeq(new)) /\ ToSet(SetToSeq(new)) \subseteq new
  BY <1>3, Enumerated
<1>5. IsList(cfg.hosts) /\ "" \notin ToSet(cfg.hosts)
  BY DEF IsConfig, validate
<1>6. addHostsToNetworkConfig(cfg, hosts) = [cfg EXCEPT !.hosts = l]
  BY DEF addHostsToNetworkConfig
<1> HIDE DEF new
<1>7. IsList(l) /\ ToSet(l) = ToSet(cfg.hosts) \cup ToSet(SetToSeq(new))
  BY <1>4, <1>5, Joined
<1> HIDE DEF l
<1> QED
  BY <1>3, <1>4, <1>5, <1>6, <1>7, OtherHosts DEF hosts, p

\* What a part may hold.
LEMMA PartsAre ==
  ASSUME WorldInv
  PROVE  /\ world["workspace"] \in {Broken, NoConfig} \/ IsConfig(world["workspace"])
         /\ world["projects"] = Broken
              \/ \A k \in DOMAIN world["projects"] : IsConfig(world["projects"][k])
         /\ world["agents"] = Broken
              \/ \A k \in DOMAIN world["agents"] : IsConfig(world["agents"][k])
<1>1. /\ IsPart("workspace", world["workspace"]) /\ IsPart("projects", world["projects"])
      /\ IsPart("agents", world["agents"])
  BY DEF WorldInv, WorldParts
<1> QED
  BY <1>1 DEF IsPart, IsDocument

\* No condition is on podman's images and on the providers.
LEMMA OtherParts ==
  ASSUME NEW value
  PROVE  IsPart("images", value) /\ IsPart("providers", value)
BY DEF IsPart

\* The command starts without a configuration, in one of the Scenarios.
LEMMA InitInv ==
  ASSUME CreationInit
  PROVE  Inv
<1>1. PICK i \in DOMAIN Scenarios : world = Scenarios[i].world /\ edits = Scenarios[i].edits
  BY DEF CreationInit, Init
<1>2. WorldInv
  BY <1>1, ScenariosAssumption DEF WorldInv
<1>3. ConfigInv
  BY DEF CreationInit, Init, ConfigInv, BeforeLoaded
<1> QED
  BY <1>2, <1>3 DEF Inv

\* Others replace a file by one of the schema.
LEMMA EditInv ==
  ASSUME Inv, EditWorld
  PROVE  Inv'
<1> DEFINE e == Head(edits)
<1>1. edits # <<>> /\ IsList(edits) /\ edits' = Tail(edits)
  BY DEF EditWorld, Inv, WorldInv
<1>2. edits \in Seq(ToSet(edits))
  BY <1>1 DEF IsList
<1>3. e \in ToSet(edits) /\ edits' \in Seq(ToSet(edits))
  BY <1>1, <1>2
<1>4. IsList(edits') /\ ToSet(edits') \subseteq ToSet(edits)
  BY <1>3, ListIs
<1>5. e.part \in WorldParts /\ IsPart(e.part, e.value)
  BY <1>3 DEF Inv, WorldInv
<1>6. world' = [world EXCEPT ![e.part] = e.value, !["edited"] = world["edited"] \cup {e.part}]
  BY DEF EditWorld, WorldParts
<1>7. "edited" \notin WorldParts
  BY DEF WorldParts
<1> HIDE DEF e
<1>8. DOMAIN world = WorldParts \cup {"edited"}
  BY DEF Inv, WorldInv
<1>9. /\ DOMAIN world' = WorldParts \cup {"edited"}
      /\ \A part \in WorldParts : world'[part] = IF part = e.part THEN e.value ELSE world[part]
  BY <1>5, <1>6, <1>7, <1>8
<1>10. WorldInv'
  BY <1>4, <1>5, <1>9 DEF Inv, WorldInv
<1>11. ConfigInv'
  BY DEF EditWorld, Inv, ConfigInv
<1> QED
  BY <1>10, <1>11 DEF Inv

\* A step that changes only podman's images or the providers.
LEMMA PartInv ==
  ASSUME WorldInv, NEW part \in {"images", "providers"}, NEW value,
         world' = [world EXCEPT ![part] = value], edits' = edits
  PROVE  WorldInv'
<1>1. DOMAIN world = WorldParts \cup {"edited"}
  BY DEF WorldInv
<1>2. /\ DOMAIN world' = WorldParts \cup {"edited"}
      /\ \A p \in WorldParts : world'[p] = IF p = part THEN value ELSE world[p]
  BY <1>1
<1>3. \A p \in WorldParts : IsPart(p, world'[p])
  BY <1>2, OtherParts DEF WorldInv
<1> QED
  BY <1>2, <1>3 DEF WorldInv

\* A step that changes neither the files nor what others will change.
LEMMA SameWorld ==
  ASSUME WorldInv, UNCHANGED <<world, edits>>
  PROVE  WorldInv'
BY DEF WorldInv

\* A step that keeps the configuration, and does not go on without one.
LEMMA SameConfig ==
  ASSUME ConfigInv, UNCHANGED cfg,
         pc \notin BeforeLoaded \/ pc' \in BeforeLoaded
  PROVE  ConfigInv'
BY DEF ConfigInv

\* Each step of kdn init up to the runtime.
LEMMA AddInv ==
  ASSUME Inv, AddNext
  PROVE  Inv'
<1>0. WorldInv /\ ConfigInv
  BY DEF Inv
<1>1. CASE EditWorld
  BY <1>1, EditInv
<1>2. CASE RegisterRuntimes
  <2>1. WorldInv'
    BY <1>0, <1>2, PartInv DEF RegisterRuntimes
  <2>2. ConfigInv'
    BY <1>0, <1>2, SameConfig DEF RegisterRuntimes, Step, BeforeLoaded
  <2> QED
    BY <2>1, <2>2 DEF Inv
<1>3. CASE LoadWorkspace
  <2>1. WorldInv'
    BY <1>0, <1>3, SameWorld DEF LoadWorkspace
  <2>2. cfg' = world["workspace"] /\ pc' = "project" /\ WorkspaceLoads(world["workspace"])
    BY <1>3 DEF LoadWorkspace, Step
  <2>3. cfg' = NoConfig \/ (IsConfig(cfg') /\ validate(cfg'))
    BY <1>0, <2>2, PartsAre DEF WorkspaceLoads
  <2> QED
    BY <2>1, <2>2, <2>3 DEF Inv, ConfigInv, BeforeLoaded
<1>4. CASE LoadProjectConfig
  <2>1. WorldInv'
    BY <1>0, <1>4, SameWorld DEF LoadProjectConfig
  <2> DEFINE level == LoadProject(world["projects"], req.project)
  <2>2. cfg' = NextLevel(cfg, level) /\ ProjectLoads(world["projects"], req.project)
    BY <1>4 DEF LoadProjectConfig
  <2>3. IsConfig(level) /\ validate(level)
    BY <1>0, <2>2, PartsAre, ProjectIsValid DEF ProjectLoads
  <2> HIDE DEF level
  <2>4. IsConfig(cfg') /\ validate(cfg')
    BY <1>0, <2>2, <2>3, NextIsValid DEF ConfigInv
  <2> QED
    BY <2>1, <2>4 DEF Inv, ConfigInv
<1>5. CASE LoadAgentConfig
  <2>1. WorldInv'
    BY <1>0, <1>5, SameWorld DEF LoadAgentConfig
  <2> DEFINE level == LoadAgent(world["agents"], req.agent)
             merged == NextLevel(cfg, level)
  <2>2. /\ cfg' \in {merged, TransformConfig(merged)}
        /\ AgentLoads(world["agents"], req.agent)
    BY <1>5 DEF LoadAgentConfig
  <2>3. IsConfig(level) /\ validate(level)
    BY <1>0, <2>2, PartsAre, EmptyIsValid DEF AgentLoads, LoadAgent
  <2> HIDE DEF level
  <2>4. IsConfig(merged) /\ validate(merged)
    BY <1>0, <2>3, NextIsValid DEF ConfigInv
  <2> HIDE DEF merged
  <2>5. IsConfig(cfg') /\ validate(cfg')
    BY <2>2, <2>4, TransformIsValid
  <2> QED
    BY <2>1, <2>5 DEF Inv, ConfigInv
<1>6. CASE MapSecret
  <2>1. UNCHANGED <<world, edits, pc, cfg>>
    BY <1>6 DEF MapSecret
  <2> QED
    BY <1>0, <2>1, SameWorld, SameConfig DEF Inv
<1>7. CASE ReadAgentSettings
  <2>1. UNCHANGED <<world, edits, cfg>> /\ pc = "secrets"
    BY <1>7 DEF ReadAgentSettings, Step
  <2> QED
    BY <1>0, <2>1, SameWorld, SameConfig DEF Inv, BeforeLoaded
<1>8. CASE SetUpAgent
  <2>1. WorldInv'
    BY <1>0, <1>8, SameWorld DEF SetUpAgent
  <2>2. pc = "setup"
    BY <1>8 DEF SetUpAgent, Step
  <2>3. IsConfig(cfg) /\ validate(cfg)
    BY <1>0, <2>2 DEF ConfigInv, BeforeLoaded
  <2>4. cfg' = cfg \/ cfg' = [cfg EXCEPT !.mounts = @ \o SkillMounts]
    BY <1>8 DEF SetUpAgent
  <2>5. IsConfig(cfg') /\ validate(cfg')
    BY <2>3, <2>4, SkillsAreMounted
  <2> QED
    BY <2>1, <2>5 DEF Inv, ConfigInv
<1>9. CASE AddFails
  <2>1. UNCHANGED <<world, edits, cfg>> /\ pc' = "failed"
    BY <1>9 DEF AddFails
  <2> QED
    BY <1>0, <2>1, SameWorld, SameConfig DEF Inv, BeforeLoaded
<1> QED
  BY <1>1, <1>2, <1>3, <1>4, <1>5, <1>6, <1>7, <1>8, <1>9 DEF AddNext

\* Podman's steps leave the configuration alone.
LEMMA PodmanInv ==
  ASSUME Inv, PodmanNext
  PROVE  Inv'
<1>1. UNCHANGED <<world, edits, cfg>>
  BY DEF PodmanNext, PodmanLoadConfig, PrepareFeatures, MergeFeatureOptions,
     BuildImage, KubePlay,
         DetectCredential, FakeCredential, SetupOnecli, ConfigureCredential, CreateContainer,
         PodmanFails, PodmanUnchanged
<1>2. pc \notin BeforeLoaded \/ pc' = "failed"
  BY DEF PodmanNext, PodmanLoadConfig, PrepareFeatures, MergeFeatureOptions,
     BuildImage, KubePlay,
         DetectCredential, FakeCredential, SetupOnecli, ConfigureCredential, CreateContainer,
         PodmanFails, PodmanStep, Step, BeforeLoaded
<1> QED
  BY <1>1, <1>2, SameWorld, SameConfig DEF Inv, BeforeLoaded

\* OpenShell's take mounts out and add hosts.
LEMMA SandboxInv ==
  ASSUME Inv, SandboxNext
  PROVE  Inv'
<1>0. WorldInv /\ ConfigInv
  BY DEF Inv
<1>1. CASE InterceptCredential
  <2>1. WorldInv'
    BY <1>0, <1>1, SameWorld DEF InterceptCredential, SandboxUnchanged
  <2>2. IsConfig(cfg) /\ validate(cfg)
    BY <1>0, <1>1 DEF InterceptCredential, ConfigInv, BeforeLoaded
  <2>3. \/ cfg' = cfg
        \/ /\ Found(Head(pending)) # <<>>
           /\ cfg' = removeMountFromConfig(cfg, Head(Found(Head(pending))).mount)
    BY <1>1 DEF InterceptCredential
  <2>4. IsConfig(cfg') /\ validate(cfg')
    BY <2>2, <2>3, RemovedIsValid
  <2> QED
    BY <2>1, <2>4 DEF Inv, ConfigInv
<1>2. CASE AddCredentialHosts
  <2>1. WorldInv'
    BY <1>0, <1>2, SameWorld DEF AddCredentialHosts, SandboxUnchanged
  <2>2. IsConfig(cfg) /\ validate(cfg)
    BY <1>0, <1>2 DEF AddCredentialHosts, SandboxStep, Step, ConfigInv, BeforeLoaded
  <2> DEFINE d == Head(detected)
  <2>3. cfg' = addHostsToNetworkConfig(cfg,
                 expandVertexAIWildcards(HostPatterns(d.cred, world.files, d.path)))
    BY <1>2 DEF AddCredentialHosts
  <2> HIDE DEF d
  <2>4. IsConfig(cfg') /\ validate(cfg')
    BY <2>2, <2>3, HostsAreValid
  <2> QED
    BY <2>1, <2>4 DEF Inv, ConfigInv
<1>3. CASE EnsureProvider
  <2>1. edits' = edits /\ cfg' = cfg /\ pc = "providers"
    BY <1>3 DEF EnsureProvider, SandboxUnchanged, SandboxStep, Step
  <2>2. world' = world \/ \E value : world' = [world EXCEPT !["providers"] = value]
    BY <1>3 DEF EnsureProvider
  <2>3. WorldInv'
    BY <1>0, <2>1, <2>2, SameWorld, PartInv
  <2>4. ConfigInv'
    BY <1>0, <2>1, SameConfig DEF BeforeLoaded
  <2> QED
    BY <2>3, <2>4 DEF Inv
<1>4. CASE \/ SandboxGateway \/ ListProviders \/ CreateSandbox \/ UploadCredential
           \/ WriteSandboxFiles \/ ApplyNetworkPolicy \/ SandboxFails
  <2>1. UNCHANGED <<world, edits, cfg>>
    BY <1>4 DEF SandboxGateway, ListProviders, CreateSandbox, UploadCredential,
                WriteSandboxFiles, ApplyNetworkPolicy, SandboxFails, SandboxUnchanged
  <2>2. pc \notin BeforeLoaded \/ pc' = "failed"
    BY <1>4 DEF SandboxGateway, ListProviders, CreateSandbox, UploadCredential,
                WriteSandboxFiles, ApplyNetworkPolicy, SandboxFails, SandboxStep, Step, BeforeLoaded
  <2> QED
    BY <1>0, <2>1, <2>2, SameWorld, SameConfig DEF Inv, BeforeLoaded
<1> QED
  BY <1>1, <1>2, <1>3, <1>4 DEF SandboxNext

\* Every step.
LEMMA NextInv ==
  ASSUME Inv, [Next]_vars
  PROVE  Inv'
<1>1. CASE UNCHANGED vars
  <2>1. UNCHANGED <<world, edits, pc, cfg>>
    BY <1>1 DEF vars, addVars
  <2> QED
    BY <2>1, SameWorld, SameConfig DEF Inv
<1> QED
  BY <1>1, AddInv, PodmanInv, SandboxInv DEF Next

\* The files hold documents of the schema or are broken, whatever others make of
\* them, and once the command has a configuration it is one of the schema and
\* valid (merger.go, Merge; projects.go and agents.go, Load; manager.go, Add).
THEOREM Invariance == Spec => []Inv
<1>1. CreationInit => Inv
  BY InitInv
<1>2. Inv /\ [Next]_vars => Inv'
  BY NextInv
<1> QED
  BY <1>1, <1>2, PTL DEF Spec

\* Whatever is loaded, merged, transformed, mounted and intercepted, the
\* configuration is one that would be accepted from a file (pkg/config's
\* validate), although it never is validated again.
THEOREM MergedValid == Spec => []MergedIsValid
<1>1. Inv => MergedIsValid
  BY DEF Inv, ConfigInv, MergedIsValid
<1> QED
  BY <1>1, Invariance, PTL

-----------------------------------------------------------------------------
(* What several levels say of a key.  Items are pairs of a key and a value. *)

Keys(items) == {p[1] : p \in items}

\* The keys of several levels.
AllKeys(n, T) == UNION {Keys(T[i]) : i \in 1..n}

\* What is a key of several levels.
LEMMA AllKeysAre ==
  ASSUME NEW n, NEW T, NEW k
  PROVE  k \in AllKeys(n, T) <=> \E i \in 1..n : k \in Keys(T[i])
BY DEF AllKeys

\* The items of the highest level that has one of their key, for each key of a
\* level; T[i] are the items of the i-th of n levels.
Stands(items, n, T) ==
  /\ Keys(items) = AllKeys(n, T)
  /\ \A p \in items : \E i \in 1..n :
       p \in T[i] /\ \A j \in 1..n : j > i => p[1] \notin Keys(T[j])

\* One level stands for itself.
LEMMA StandsAlone ==
  ASSUME NEW items, NEW T, T[1] = items
  PROVE  Stands(items, 1, T)
<1>1. \A i : i \in 1..1 <=> i = 1
  OBVIOUS
<1>2. \A k : k \in AllKeys(1, T) <=> k \in Keys(items)
  BY <1>1, AllKeysAre
<1>3. Keys(items) = AllKeys(1, T)
  BY <1>2
<1> QED
  BY <1>1, <1>3 DEF Stands

\* Without a level there is no item.
LEMMA StandsForNone ==
  ASSUME NEW T
  PROVE  Stands({}, 0, T)
BY AllKeysAre DEF Stands, Keys

\* Items that stand for m levels, overridden by items that stand for n others.
LEMMA StandsForAll ==
  ASSUME NEW m \in Nat, NEW n \in Nat, NEW T1, NEW T2, NEW T,
         \A i \in 1..m : T[i] = T1[i], \A i \in 1..n : T[m + i] = T2[i],
         NEW base, NEW override, NEW items,
         Stands(base, m, T1), Stands(override, n, T2),
         Keys(items) = Keys(base) \cup Keys(override),
         \A p \in items : p \in override \/ (p \in base /\ p[1] \notin Keys(override))
  PROVE  Stands(items, m + n, T)
<1>1. \A i \in 1..(m + n) : i \in 1..m \/ \E k \in 1..n : i = m + k
  <2>1. ASSUME NEW i \in 1..(m + n), i \notin 1..m PROVE i - m \in 1..n /\ i = m + (i - m)
    BY <2>1
  <2> QED
    BY <2>1
<1>2. \A i \in 1..m : i \in 1..(m + n)
  OBVIOUS
<1>3. \A k \in 1..n : m + k \in 1..(m + n)
  OBVIOUS
<1>4. AllKeys(m + n, T) = AllKeys(m, T1) \cup AllKeys(n, T2)
  <2>1. ASSUME NEW k, NEW i \in 1..(m + n), k \in Keys(T[i])
        PROVE  (\E l \in 1..m : k \in Keys(T1[l])) \/ (\E l \in 1..n : k \in Keys(T2[l]))
    BY <1>1, <2>1
  <2>2. ASSUME NEW k, NEW i \in 1..m, k \in Keys(T1[i])
        PROVE  \E l \in 1..(m + n) : k \in Keys(T[l])
    BY <1>2, <2>2
  <2>3. ASSUME NEW k, NEW i \in 1..n, k \in Keys(T2[i])
        PROVE  \E l \in 1..(m + n) : k \in Keys(T[l])
    BY <1>3, <2>3
  <2> QED
    BY <2>1, <2>2, <2>3, AllKeysAre
<1>5. ASSUME NEW p \in items
      PROVE  \E i \in 1..(m + n) :
               p \in T[i] /\ \A j \in 1..(m + n) : j > i => p[1] \notin Keys(T[j])
  <2>1. CASE p \in override
    <3>1. PICK i \in 1..n : p \in T2[i] /\ \A j \in 1..n : j > i => p[1] \notin Keys(T2[j])
      BY <2>1 DEF Stands
    <3>2. ASSUME NEW j \in 1..(m + n), j > m + i PROVE p[1] \notin Keys(T[j])
      <4>1. PICK k \in 1..n : j = m + k
        BY <1>1, <3>2
      <4> QED
        BY <3>1, <3>2, <4>1
    <3> QED
      BY <1>3, <3>1, <3>2
  <2>2. CASE p \in base /\ p[1] \notin Keys(override)
    <3>1. PICK i \in 1..m : p \in T1[i] /\ \A j \in 1..m : j > i => p[1] \notin Keys(T1[j])
      BY <2>2 DEF Stands
    <3>2. \A j \in 1..n : p[1] \notin Keys(T2[j])
      BY <2>2, AllKeysAre DEF Stands
    <3>3. ASSUME NEW j \in 1..(m + n), j > i PROVE p[1] \notin Keys(T[j])
      BY <1>1, <3>1, <3>2, <3>3
    <3> QED
      BY <1>2, <3>1, <3>3
  <2> QED
    BY <2>1, <2>2
<1>6. Keys(items) = AllKeys(m + n, T)
  BY <1>4 DEF Stands
<1> QED
  BY <1>5, <1>6 DEF Stands

-----------------------------------------------------------------------------
(* What several levels list.                                               *)

AllOf(n, T) == UNION {ToSet(T[i]) : i \in 1..n}

\* What several levels list.
LEMMA AllOfAre ==
  ASSUME NEW n, NEW T, NEW x
  PROVE  x \in AllOf(n, T) <=> \E i \in 1..n : x \in ToSet(T[i])
BY DEF AllOf

\* Some level lists x and neither it before nor any lower one at all lists y.
EarlierIn(n, T, x, y) ==
  \E i \in 1..n : Earlier(T[i], x, y) /\ \A j \in 1..n : j < i => y \notin ToSet(T[j])

\* The list of what n levels list, in their order.
JoinOf(list, n, T) ==
  /\ ToSet(list) = AllOf(n, T)
  /\ \A x, y : Earlier(list, x, y) <=> EarlierIn(n, T, x, y)

\* One level's list.
LEMMA JoinAlone ==
  ASSUME NEW list, NEW T, T[1] = list
  PROVE  JoinOf(list, 1, T)
<1>1. \A i : i \in 1..1 <=> i = 1
  OBVIOUS
<1>2. ToSet(list) = AllOf(1, T)
  <2>1. \A x : x \in AllOf(1, T) <=> x \in ToSet(list)
    BY <1>1, AllOfAre
  <2> QED
    BY <2>1
<1>3. ASSUME NEW x, NEW y PROVE Earlier(list, x, y) <=> EarlierIn(1, T, x, y)
  <2>1. \A j \in 1..1 : ~(j < 1)
    OBVIOUS
  <2> QED
    BY <1>1, <2>1 DEF EarlierIn
<1> QED
  BY <1>2, <1>3 DEF JoinOf

\* No level, no items.
LEMMA JoinOfNone ==
  ASSUME NEW T
  PROVE  JoinOf(<<>>, 0, T)
<1>1. AllOf(0, T) = {} /\ ToSet(<<>>) = {}
  BY DEF AllOf, ToSet
<1>2. \A x, y : ~Earlier(<<>>, x, y) /\ ~EarlierIn(0, T, x, y)
  BY DEF Earlier, EarlierIn
<1> QED
  BY <1>1, <1>2 DEF JoinOf

\* The lists of m levels and of n others.
LEMMA JoinOfAll ==
  ASSUME NEW m \in Nat, NEW n \in Nat, NEW T1, NEW T2, NEW T,
         \A i \in 1..m : T[i] = T1[i], \A i \in 1..n : T[m + i] = T2[i],
         NEW base, NEW override, NEW r,
         JoinOf(base, m, T1), JoinOf(override, n, T2),
         ToSet(r) = ToSet(base) \cup ToSet(override),
         \A x, y : Earlier(r, x, y) <=>
                     Earlier(base, x, y) \/ (y \notin ToSet(base) /\ Earlier(override, x, y))
  PROVE  JoinOf(r, m + n, T)
<1>1. \A i \in 1..(m + n) : i \in 1..m \/ \E k \in 1..n : i = m + k
  <2>1. ASSUME NEW i \in 1..(m + n), i \notin 1..m PROVE i - m \in 1..n /\ i = m + (i - m)
    BY <2>1
  <2> QED
    BY <2>1
<1>2. \A i \in 1..m : i \in 1..(m + n)
  OBVIOUS
<1>3. \A k \in 1..n : m + k \in 1..(m + n)
  OBVIOUS
<1>4. AllOf(m + n, T) = AllOf(m, T1) \cup AllOf(n, T2)
  <2>1. ASSUME NEW k, NEW i \in 1..(m + n), k \in ToSet(T[i])
        PROVE  (\E l \in 1..m : k \in ToSet(T1[l])) \/ (\E l \in 1..n : k \in ToSet(T2[l]))
    BY <1>1, <2>1
  <2>2. ASSUME NEW k, NEW i \in 1..m, k \in ToSet(T1[i])
        PROVE  \E l \in 1..(m + n) : k \in ToSet(T[l])
    BY <1>2, <2>2
  <2>3. ASSUME NEW k, NEW i \in 1..n, k \in ToSet(T2[i])
        PROVE  \E l \in 1..(m + n) : k \in ToSet(T[l])
    BY <1>3, <2>3
  <2> QED
    BY <2>1, <2>2, <2>3, AllOfAre
<1>5. ToSet(r) = AllOf(m + n, T)
  BY <1>4 DEF JoinOf
<1> SUFFICES ASSUME NEW x, NEW y PROVE Earlier(r, x, y) <=> EarlierIn(m + n, T, x, y)
  BY <1>5 DEF JoinOf
<1>6. y \notin ToSet(base) <=> \A j \in 1..m : y \notin ToSet(T1[j])
  BY AllOfAre DEF JoinOf
<1>7. ASSUME EarlierIn(m, T1, x, y) PROVE EarlierIn(m + n, T, x, y)
  <2>1. PICK i \in 1..m : Earlier(T1[i], x, y) /\ \A j \in 1..m : j < i => y \notin ToSet(T1[j])
    BY <1>7 DEF EarlierIn
  <2>2. ASSUME NEW j \in 1..(m + n), j < i PROVE y \notin ToSet(T[j])
    <3>1. j \in 1..m
      BY <2>2
    <3> QED
      BY <2>1, <2>2, <3>1
  <2> QED
    BY <1>2, <2>1, <2>2 DEF EarlierIn
<1>8. ASSUME y \notin ToSet(base), EarlierIn(n, T2, x, y) PROVE EarlierIn(m + n, T, x, y)
  <2>1. PICK i \in 1..n : Earlier(T2[i], x, y) /\ \A j \in 1..n : j < i => y \notin ToSet(T2[j])
    BY <1>8 DEF EarlierIn
  <2>2. ASSUME NEW j \in 1..(m + n), j < m + i PROVE y \notin ToSet(T[j])
    <3>1. CASE j \in 1..m
      BY <1>6, <1>8, <3>1
    <3>2. ASSUME NEW k \in 1..n, j = m + k PROVE y \notin ToSet(T[j])
      BY <2>1, <2>2, <3>2
    <3> QED
      BY <1>1, <3>1, <3>2
  <2>3. m + i \in 1..(m + n) /\ Earlier(T[m + i], x, y)
    BY <1>3, <2>1
  <2> QED
    BY <2>2, <2>3 DEF EarlierIn
<1>9. ASSUME EarlierIn(m + n, T, x, y)
      PROVE  EarlierIn(m, T1, x, y) \/ (y \notin ToSet(base) /\ EarlierIn(n, T2, x, y))
  <2>1. PICK i \in 1..(m + n) :
          Earlier(T[i], x, y) /\ \A j \in 1..(m + n) : j < i => y \notin ToSet(T[j])
    BY <1>9 DEF EarlierIn
  <2>2. CASE i \in 1..m
    BY <1>2, <2>1, <2>2 DEF EarlierIn
  <2>3. ASSUME NEW k \in 1..n, i = m + k PROVE y \notin ToSet(base) /\ EarlierIn(n, T2, x, y)
    <3>1. \A j \in 1..m : j < i /\ y \notin ToSet(T1[j])
      BY <1>2, <2>1, <2>3
    <3>2. \A j \in 1..n : j < k => m + j < i /\ y \notin ToSet(T2[j])
      BY <1>3, <2>1, <2>3
    <3> QED
      BY <1>6, <2>1, <2>3, <3>1, <3>2 DEF EarlierIn
  <2> QED
    BY <1>1, <2>2, <2>3
<1>10. /\ Earlier(base, x, y) <=> EarlierIn(m, T1, x, y)
       /\ Earlier(override, x, y) <=> EarlierIn(n, T2, x, y)
  BY DEF JoinOf
<1> QED
  BY <1>7, <1>8, <1>9, <1>10

-----------------------------------------------------------------------------
(* What a configuration says.                                              *)

\* A variable, a mount's pair, an MCP name, a feature and the mode are said by one
\* level.  Of a command only the name: its URL is rewritten.
ItemsOf(c, field) ==
  CASE field = "env" -> {<<e.name, e>> : e \in ToSet(c.env)}
    [] field = "mounts" -> {<<PairOf(m), m>> : m \in ToSet(c.mounts)}
    [] field = "mcp" -> {<<n, <<"command", n>>>> : n \in NamesOf(c.cmds)}
                          \cup {<<e.name, <<"server", e>>>> : e \in ToSet(c.srvs)}
    [] field = "features" -> {<<f, c.features[f]>> : f \in DOMAIN c.features}
    [] field = "mode" -> IF c.mode = "unset" THEN {} ELSE {<<"mode", c.mode>>}

ItemFields == {"env", "mounts", "mcp", "features", "mode"}

ListFields == {"skills", "secrets", "hosts", "ports"}

\* c says what the levels say together.
StandsFor(c, L) ==
  /\ \A f \in ItemFields : Stands(ItemsOf(c, f), Len(L), [i \in 1..Len(L) |-> ItemsOf(L[i], f)])
  /\ \A f \in ListFields : JoinOf(c[f], Len(L), [i \in 1..Len(L) |-> L[i][f]])

\* The items of a configuration, kind by kind: the variables,
LEMMA EnvItems ==
  ASSUME NEW c, NEW p
  PROVE  p \in ItemsOf(c, "env") <=> \E e \in ToSet(c.env) : p = <<e.name, e>>
BY DEF ItemsOf

\* the mounts,
LEMMA MountItems ==
  ASSUME NEW c, NEW p
  PROVE  p \in ItemsOf(c, "mounts") <=> \E m \in ToSet(c.mounts) : p = <<PairOf(m), m>>
BY DEF ItemsOf

\* the MCP commands and servers,
LEMMA MCPItems ==
  ASSUME NEW c, NEW p
  PROVE  p \in ItemsOf(c, "mcp") <=>
            \/ \E n \in NamesOf(c.cmds) : p = <<n, <<"command", n>>>>
            \/ \E e \in ToSet(c.srvs) : p = <<e.name, <<"server", e>>>>
BY DEF ItemsOf

\* the features
LEMMA FeatureItems ==
  ASSUME NEW c, NEW p
  PROVE  p \in ItemsOf(c, "features") <=> \E f \in DOMAIN c.features : p = <<f, c.features[f]>>
BY DEF ItemsOf

\* and the mode.
LEMMA ModeItems ==
  ASSUME NEW c, NEW p
  PROVE  p \in ItemsOf(c, "mode") <=> c.mode # "unset" /\ p = <<"mode", c.mode>>
BY DEF ItemsOf

\* The keys of items that have just these.
LEMMA KeysOf ==
  ASSUME NEW items, NEW S, \A k \in S : \E p \in items : p[1] = k, \A p \in items : p[1] \in S
  PROVE  Keys(items) = S
<1>1. \A k : k \in Keys(items) <=> k \in S
  BY DEF Keys
<1> QED
  BY <1>1

\* The keys are the names, pairs and features.
LEMMA KeysAre ==
  ASSUME NEW c
  PROVE  /\ Keys(ItemsOf(c, "env")) = NamesOf(c.env)
         /\ Keys(ItemsOf(c, "mounts")) = PairsOf(c.mounts)
         /\ Keys(ItemsOf(c, "mcp")) = NamesOf(c.cmds) \cup NamesOf(c.srvs)
         /\ Keys(ItemsOf(c, "features")) = DOMAIN c.features
         /\ Keys(ItemsOf(c, "mode")) = IF c.mode = "unset" THEN {} ELSE {"mode"}
<1>1. \A x, y : <<x, y>>[1] = x
  OBVIOUS
<1>2. Keys(ItemsOf(c, "env")) = NamesOf(c.env)
  <2>1. ASSUME NEW k \in NamesOf(c.env) PROVE \E p \in ItemsOf(c, "env") : p[1] = k
    <3>1. PICK e \in ToSet(c.env) : k = e.name
      BY NamesAre
    <3>2. <<e.name, e>> \in ItemsOf(c, "env")
      BY EnvItems
    <3> QED
      BY <1>1, <3>1, <3>2
  <2>2. ASSUME NEW p \in ItemsOf(c, "env") PROVE p[1] \in NamesOf(c.env)
    <3>1. PICK e \in ToSet(c.env) : p = <<e.name, e>>
      BY EnvItems
    <3> QED
      BY <3>1, NamesAre
  <2> QED
    BY <2>1, <2>2, KeysOf
<1>3. Keys(ItemsOf(c, "mounts")) = PairsOf(c.mounts)
  <2>1. ASSUME NEW k \in PairsOf(c.mounts) PROVE \E p \in ItemsOf(c, "mounts") : p[1] = k
    <3>1. PICK m \in ToSet(c.mounts) : k = PairOf(m)
      BY DEF PairsOf
    <3>2. <<PairOf(m), m>> \in ItemsOf(c, "mounts")
      BY MountItems
    <3> QED
      BY <1>1, <3>1, <3>2
  <2>2. ASSUME NEW p \in ItemsOf(c, "mounts") PROVE p[1] \in PairsOf(c.mounts)
    <3>1. PICK m \in ToSet(c.mounts) : p = <<PairOf(m), m>>
      BY MountItems
    <3> QED
      BY <3>1 DEF PairsOf
  <2> QED
    BY <2>1, <2>2, KeysOf
<1>4. Keys(ItemsOf(c, "mcp")) = NamesOf(c.cmds) \cup NamesOf(c.srvs)
  <2>1. ASSUME NEW k \in NamesOf(c.cmds) PROVE \E p \in ItemsOf(c, "mcp") : p[1] = k
    <3>1. <<k, <<"command", k>>>> \in ItemsOf(c, "mcp")
      BY MCPItems
    <3> QED
      BY <1>1, <3>1
  <2>2. ASSUME NEW k \in NamesOf(c.srvs) PROVE \E p \in ItemsOf(c, "mcp") : p[1] = k
    <3>1. PICK e \in ToSet(c.srvs) : k = e.name
      BY NamesAre
    <3>2. <<e.name, <<"server", e>>>> \in ItemsOf(c, "mcp")
      BY MCPItems
    <3> QED
      BY <1>1, <3>1, <3>2
  <2>3. ASSUME NEW p \in ItemsOf(c, "mcp") PROVE p[1] \in NamesOf(c.cmds) \cup NamesOf(c.srvs)
    <3>1. CASE \E n \in NamesOf(c.cmds) : p = <<n, <<"command", n>>>>
      BY <3>1
    <3>2. CASE \E e \in ToSet(c.srvs) : p = <<e.name, <<"server", e>>>>
      BY <3>2, NamesAre
    <3>3. \/ \E n \in NamesOf(c.cmds) : p = <<n, <<"command", n>>>>
          \/ \E e \in ToSet(c.srvs) : p = <<e.name, <<"server", e>>>>
      BY MCPItems
    <3> QED
      BY <3>1, <3>2, <3>3
  <2> QED
    BY <2>1, <2>2, <2>3, KeysOf
<1>5. Keys(ItemsOf(c, "features")) = DOMAIN c.features
  <2>1. ASSUME NEW k \in DOMAIN c.features PROVE \E p \in ItemsOf(c, "features") : p[1] = k
    <3>1. <<k, c.features[k]>> \in ItemsOf(c, "features")
      BY FeatureItems
    <3> QED
      BY <1>1, <3>1
  <2>2. ASSUME NEW p \in ItemsOf(c, "features") PROVE p[1] \in DOMAIN c.features
    <3>1. PICK f \in DOMAIN c.features : p = <<f, c.features[f]>>
      BY FeatureItems
    <3> QED
      BY <3>1
  <2> QED
    BY <2>1, <2>2, KeysOf
<1>6. Keys(ItemsOf(c, "mode")) = IF c.mode = "unset" THEN {} ELSE {"mode"}
  <2>1. CASE c.mode = "unset"
    BY <2>1, ModeItems, KeysOf
  <2>2. CASE c.mode # "unset"
    <3>1. <<"mode", c.mode>> \in ItemsOf(c, "mode") /\ <<"mode", c.mode>>[1] = "mode"
      BY <2>2, ModeItems
    <3>2. \A p \in ItemsOf(c, "mode") : p[1] \in {"mode"}
      BY ModeItems
    <3>3. Keys(ItemsOf(c, "mode")) = {"mode"}
      BY <3>1, <3>2, KeysOf
    <3> QED
      BY <2>2, <3>3
  <2> QED
    BY <2>1, <2>2
<1> QED
  BY <1>2, <1>3, <1>4, <1>5, <1>6

\* A configuration stands for itself.
LEMMA OneStands ==
  ASSUME NEW c
  PROVE  StandsFor(c, <<c>>)
<1>1. Len(<<c>>) = 1 /\ <<c>>[1] = c
  OBVIOUS
<1>2. ASSUME NEW f \in ItemFields
      PROVE  Stands(ItemsOf(c, f), 1, [i \in 1..1 |-> ItemsOf(<<c>>[i], f)])
  BY <1>1, StandsAlone
<1>3. ASSUME NEW f \in ListFields
      PROVE  JoinOf(c[f], 1, [i \in 1..1 |-> <<c>>[i][f]])
  BY <1>1, JoinAlone
<1> QED
  BY <1>1, <1>2, <1>3 DEF StandsFor

\* The empty configuration stands for no level.
LEMMA EmptyStands ==
  StandsFor(EmptyConfig, <<>>)
<1> DEFINE c == EmptyConfig
<1>1. /\ c.env = <<>> /\ c.mounts = <<>> /\ c.skills = <<>> /\ c.secrets = <<>>
      /\ c.cmds = <<>> /\ c.srvs = <<>> /\ c.hosts = <<>> /\ c.ports = <<>> /\ c.mode = "unset"
      /\ c.features = <<>>
  BY DEF EmptyConfig
<1> HIDE DEF c
<1>2. Len(<<>>) = 0 /\ ToSet(<<>>) = {} /\ NamesOf(<<>>) = {} /\ DOMAIN <<>> = {}
  BY DEF ToSet, NamesOf
<1>3. \A f \in ItemFields : ItemsOf(c, f) = {}
  BY <1>1, <1>2, EnvItems, MountItems, MCPItems, FeatureItems, ModeItems DEF ItemFields
<1>4. \A f \in ListFields : c[f] = <<>>
  BY <1>1 DEF ListFields
<1> QED
  BY <1>2, <1>3, <1>4, StandsForNone, JoinOfNone DEF StandsFor, c

\* Two of them joined.
LEMMA LevelsJoined ==
  ASSUME NEW A, NEW B, IsList(A), IsList(B)
  PROVE  /\ IsList(A \o B) /\ Len(A) \in Nat /\ Len(B) \in Nat /\ Len(A \o B) = Len(A) + Len(B)
         /\ \A i \in 1..Len(A) : (A \o B)[i] = A[i] /\ i \in 1..(Len(A) + Len(B))
         /\ \A i \in 1..Len(B) : /\ (A \o B)[Len(A) + i] = B[i]
                                 /\ Len(A) + i \in 1..(Len(A) + Len(B))
<1>1. PICK E : A \in Seq(E) /\ B \in Seq(E)
  BY Common
<1>2. IsList(A \o B)
  BY Joined
<1> QED
  BY <1>1, <1>2

\* The merge says what the override says, and of the base what the override does
\* not say.
LEMMA MergeOverrides ==
  ASSUME NEW a, NEW b, IsConfig(a), IsConfig(b), validate(b)
  PROVE  LET c == Merge(a, b)
         IN \A f \in ItemFields :
              /\ Keys(ItemsOf(c, f)) = Keys(ItemsOf(a, f)) \cup Keys(ItemsOf(b, f))
              /\ \A p \in ItemsOf(c, f) :
                   \/ p \in ItemsOf(b, f)
                   \/ p \in ItemsOf(a, f) /\ p[1] \notin Keys(ItemsOf(b, f))
<1> DEFINE c == Merge(a, b)
           Wins(f) ==
              /\ Keys(ItemsOf(c, f)) = Keys(ItemsOf(a, f)) \cup Keys(ItemsOf(b, f))
              /\ \A p \in ItemsOf(c, f) :
                   \/ p \in ItemsOf(b, f)
                   \/ p \in ItemsOf(a, f) /\ p[1] \notin Keys(ItemsOf(b, f))
<1>1. /\ c.env = mergeByName(a.env, b.env)
      /\ c.mounts = mergeMounts(a.mounts, b.mounts)
      /\ c.cmds = Unclaimed(mergeByName(a.cmds, b.cmds), NamesOf(b.srvs))
      /\ c.srvs = Unclaimed(mergeByName(a.srvs, b.srvs), NamesOf(b.cmds))
      /\ c.mode = IF b.mode # "unset" THEN b.mode ELSE a.mode
      /\ c.features = mergeFeatures(a.features, b.features)
  BY DEF Merge, mergeEnvironment, mergeNetwork, mergeMCP, mergeMCPCommands,
     mergeMCPServers
<1> HIDE DEF c
<1>2. /\ IsList(a.env) /\ IsList(a.mounts) /\ IsList(a.cmds) /\ IsList(a.srvs)
      /\ IsList(b.env) /\ IsList(b.mounts) /\ IsList(b.cmds) /\ IsList(b.srvs)
  BY DEF IsConfig
<1>3. Wins("env")
  <2>1. Overrides(c.env, a.env, b.env)
    BY <1>1, <1>2, ByNameIs
  <2>2. Keys(ItemsOf(c, "env")) = Keys(ItemsOf(a, "env")) \cup Keys(ItemsOf(b, "env"))
    BY <2>1, KeysAre DEF Overrides
  <2>3. ASSUME NEW p \in ItemsOf(c, "env")
        PROVE  \/ p \in ItemsOf(b, "env")
               \/ p \in ItemsOf(a, "env") /\ p[1] \notin Keys(ItemsOf(b, "env"))
    <3>1. PICK e \in ToSet(c.env) : p = <<e.name, e>>
      BY EnvItems
    <3>2. CASE e \in ToSet(b.env)
      BY <3>1, <3>2, EnvItems
    <3>3. CASE e \in ToSet(a.env) /\ e.name \notin NamesOf(b.env)
      <4>1. p \in ItemsOf(a, "env")
        BY <3>1, <3>3, EnvItems
      <4> QED
        BY <3>1, <3>3, <4>1, KeysAre
    <3> QED
      BY <2>1, <3>2, <3>3 DEF Overrides
  <2> QED
    BY <2>2, <2>3
<1>4. Wins("mounts")
  <2>1. /\ PairsOf(c.mounts) = PairsOf(a.mounts) \cup PairsOf(b.mounts)
        /\ \A x \in ToSet(c.mounts) : \/ x \in ToSet(b.mounts)
                                      \/ x \in ToSet(a.mounts) /\ PairOf(x) \notin PairsOf(b.mounts)
    BY <1>1, <1>2, MountsAre
  <2>2. Keys(ItemsOf(c, "mounts")) = Keys(ItemsOf(a, "mounts")) \cup Keys(ItemsOf(b, "mounts"))
    BY <2>1, KeysAre
  <2>3. ASSUME NEW p \in ItemsOf(c, "mounts")
        PROVE  \/ p \in ItemsOf(b, "mounts")
               \/ p \in ItemsOf(a, "mounts") /\ p[1] \notin Keys(ItemsOf(b, "mounts"))
    <3>1. PICK m \in ToSet(c.mounts) : p = <<PairOf(m), m>>
      BY MountItems
    <3>2. CASE m \in ToSet(b.mounts)
      BY <3>1, <3>2, MountItems
    <3>3. CASE m \in ToSet(a.mounts) /\ PairOf(m) \notin PairsOf(b.mounts)
      <4>1. p \in ItemsOf(a, "mounts")
        BY <3>1, <3>3, MountItems
      <4> QED
        BY <3>1, <3>3, <4>1, KeysAre
    <3> QED
      BY <2>1, <3>2, <3>3
  <2> QED
    BY <2>2, <2>3
<1>5. Wins("mcp")
  <2>1. /\ NamesOf(c.cmds) = (NamesOf(a.cmds) \cup NamesOf(b.cmds)) \ NamesOf(b.srvs)
        /\ \A x \in ToSet(c.cmds) : \/ x \in ToSet(b.cmds)
                                    \/ x \in ToSet(a.cmds) /\ x.name \notin NamesOf(b.cmds)
    BY <1>1, <1>2, KindIs
  <2>2. /\ NamesOf(c.srvs) = (NamesOf(a.srvs) \cup NamesOf(b.srvs)) \ NamesOf(b.cmds)
        /\ \A x \in ToSet(c.srvs) : \/ x \in ToSet(b.srvs)
                                    \/ x \in ToSet(a.srvs) /\ x.name \notin NamesOf(b.srvs)
    BY <1>1, <1>2, KindIs
  <2>3. NamesOf(b.cmds) \cap NamesOf(b.srvs) = {}
    BY <1>2, ValidMCPParts DEF validate, ValidMCPIs
  <2>4. Keys(ItemsOf(c, "mcp")) = Keys(ItemsOf(a, "mcp")) \cup Keys(ItemsOf(b, "mcp"))
    BY <2>1, <2>2, <2>3, KeysAre
  <2>5. ASSUME NEW p \in ItemsOf(c, "mcp")
        PROVE  \/ p \in ItemsOf(b, "mcp")
               \/ p \in ItemsOf(a, "mcp") /\ p[1] \notin Keys(ItemsOf(b, "mcp"))
    <3>1. ASSUME NEW n \in NamesOf(c.cmds), p = <<n, <<"command", n>>>>
          PROVE  \/ p \in ItemsOf(b, "mcp")
                 \/ p \in ItemsOf(a, "mcp") /\ p[1] \notin Keys(ItemsOf(b, "mcp"))
      <4>1. CASE n \in NamesOf(b.cmds)
        BY <3>1, <4>1, MCPItems
      <4>2. CASE n \notin NamesOf(b.cmds)
        <5>1. n \in NamesOf(a.cmds) /\ n \notin NamesOf(b.srvs)
          BY <2>1, <4>2
        <5>2. p \in ItemsOf(a, "mcp")
          BY <3>1, <5>1, MCPItems
        <5> QED
          BY <3>1, <4>2, <5>1, <5>2, KeysAre
      <4> QED
        BY <4>1, <4>2
    <3>2. ASSUME NEW e \in ToSet(c.srvs), p = <<e.name, <<"server", e>>>>
          PROVE  \/ p \in ItemsOf(b, "mcp")
                 \/ p \in ItemsOf(a, "mcp") /\ p[1] \notin Keys(ItemsOf(b, "mcp"))
      <4>1. CASE e \in ToSet(b.srvs)
        BY <3>2, <4>1, MCPItems
      <4>2. CASE e \in ToSet(a.srvs) /\ e.name \notin NamesOf(b.srvs)
        <5>1. e.name \notin NamesOf(b.cmds)
          BY <2>2, NamesAre
        <5>2. p \in ItemsOf(a, "mcp")
          BY <3>2, <4>2, MCPItems
        <5> QED
          BY <3>2, <4>2, <5>1, <5>2, KeysAre
      <4> QED
        BY <2>2, <4>1, <4>2
    <3> QED
      BY <3>1, <3>2, MCPItems
  <2> QED
    BY <2>4, <2>5
<1>6. Wins("features")
  <2>1. /\ DOMAIN c.features = DOMAIN a.features \cup DOMAIN b.features
        /\ \A f \in DOMAIN c.features :
             c.features[f] = IF f \in DOMAIN b.features THEN b.features[f] ELSE a.features[f]
    BY <1>1 DEF mergeFeatures, Over
  <2>2. Keys(ItemsOf(c, "features")) = Keys(ItemsOf(a, "features")) \cup Keys(ItemsOf(b, "features"))
    BY <2>1, KeysAre
  <2>3. ASSUME NEW p \in ItemsOf(c, "features")
        PROVE  \/ p \in ItemsOf(b, "features")
               \/ p \in ItemsOf(a, "features") /\ p[1] \notin Keys(ItemsOf(b, "features"))
    <3>1. PICK f \in DOMAIN c.features : p = <<f, c.features[f]>>
      BY FeatureItems
    <3>2. CASE f \in DOMAIN b.features
      BY <2>1, <3>1, <3>2, FeatureItems
    <3>3. CASE f \notin DOMAIN b.features
      <4>1. f \in DOMAIN a.features /\ p = <<f, a.features[f]>>
        BY <2>1, <3>1, <3>3
      <4>2. p \in ItemsOf(a, "features")
        BY <4>1, FeatureItems
      <4> QED
        BY <3>3, <4>1, <4>2, KeysAre
    <3> QED
      BY <3>2, <3>3
  <2> QED
    BY <2>2, <2>3
<1>7. Wins("mode")
  <2>1. CASE b.mode # "unset"
    <3>1. ItemsOf(c, "mode") = ItemsOf(b, "mode") /\ Keys(ItemsOf(b, "mode")) = {"mode"}
      BY <1>1, <2>1, ModeItems, KeysAre
    <3>2. Keys(ItemsOf(a, "mode")) \subseteq {"mode"}
      BY KeysAre
    <3> QED
      BY <3>1, <3>2
  <2>2. CASE b.mode = "unset"
    <3>1. ItemsOf(c, "mode") = ItemsOf(a, "mode") /\ Keys(ItemsOf(b, "mode")) = {}
      BY <1>1, <2>2, ModeItems, KeysAre
    <3> QED
      BY <3>1
  <2> QED
    BY <2>1, <2>2
<1> QED
  BY <1>3, <1>4, <1>5, <1>6, <1>7 DEF ItemFields, c

\* A merge says what the levels of the base and then those of the override say
\* together (merger.go, Merge): of each variable, pair, MCP name and feature, and
\* of the mode, what the highest of them says, and of the lists all, in order.  So
\* merging pair by pair is merging all levels at once.
THEOREM MergeStands ==
  ASSUME NEW a, NEW b, NEW A, NEW B, IsConfig(a), IsConfig(b), validate(b),
         IsList(A), IsList(B), StandsFor(a, A), StandsFor(b, B)
  PROVE  StandsFor(Merge(a, b), A \o B)
<1> DEFINE c == Merge(a, b)
           L == A \o B
           m == Len(A)
           n == Len(B)
<1>1. /\ m \in Nat /\ n \in Nat /\ Len(L) = m + n
      /\ \A i \in 1..m : L[i] = A[i] /\ i \in 1..(m + n)
      /\ \A i \in 1..n : L[m + i] = B[i] /\ m + i \in 1..(m + n)
  BY LevelsJoined
<1>2. \A f \in ItemFields :
        /\ Keys(ItemsOf(c, f)) = Keys(ItemsOf(a, f)) \cup Keys(ItemsOf(b, f))
        /\ \A p \in ItemsOf(c, f) :
             \/ p \in ItemsOf(b, f)
             \/ p \in ItemsOf(a, f) /\ p[1] \notin Keys(ItemsOf(b, f))
  BY MergeOverrides
<1>3. \A f \in ListFields : Joins(c[f], a[f], b[f])
  <2>1. /\ c.skills = mergeStringSlices(a.skills, b.skills)
        /\ c.secrets = mergeStringSlices(a.secrets, b.secrets)
        /\ c.hosts = mergeStringSlices(a.hosts, b.hosts)
        /\ c.ports = mergeStringSlices(a.ports, b.ports)
    BY DEF Merge, mergeSkills, mergeSecrets, mergePorts, mergeNetwork
  <2> HIDE DEF c
  <2>2. /\ IsList(a.skills) /\ IsList(a.secrets) /\ IsList(a.hosts) /\ IsList(a.ports)
        /\ IsList(b.skills) /\ IsList(b.secrets) /\ IsList(b.hosts) /\ IsList(b.ports)
    BY DEF IsConfig
  <2>3. /\ Joins(c.skills, a.skills, b.skills) /\ Joins(c.secrets, a.secrets, b.secrets)
        /\ Joins(c.hosts, a.hosts, b.hosts) /\ Joins(c.ports, a.ports, b.ports)
    BY <2>1, <2>2, SlicesAre
  <2> QED
    BY <2>3 DEF ListFields
<1> HIDE DEF c, L, m, n
<1>4. ASSUME NEW f \in ItemFields
      PROVE  Stands(ItemsOf(c, f), Len(L), [i \in 1..Len(L) |-> ItemsOf(L[i], f)])
  <2> DEFINE T1 == [i \in 1..m |-> ItemsOf(A[i], f)]
             T2 == [i \in 1..n |-> ItemsOf(B[i], f)]
             T == [i \in 1..(m + n) |-> ItemsOf(L[i], f)]
  <2>1. Stands(ItemsOf(a, f), m, T1) /\ Stands(ItemsOf(b, f), n, T2)
    BY DEF StandsFor, m, n
  <2>2. (\A i \in 1..m : T[i] = T1[i]) /\ (\A i \in 1..n : T[m + i] = T2[i])
    BY <1>1
  <2> HIDE DEF T, T1, T2
  <2>3. Stands(ItemsOf(c, f), m + n, T)
    BY <1>1, <1>2, <2>1, <2>2, StandsForAll
  <2> QED
    BY <1>1, <2>3 DEF T
<1>5. ASSUME NEW f \in ListFields
      PROVE  JoinOf(c[f], Len(L), [i \in 1..Len(L) |-> L[i][f]])
  <2> DEFINE T1 == [i \in 1..m |-> A[i][f]]
             T2 == [i \in 1..n |-> B[i][f]]
             T == [i \in 1..(m + n) |-> L[i][f]]
  <2>1. JoinOf(a[f], m, T1) /\ JoinOf(b[f], n, T2)
    BY DEF StandsFor, m, n
  <2>2. (\A i \in 1..m : T[i] = T1[i]) /\ (\A i \in 1..n : T[m + i] = T2[i])
    BY <1>1
  <2> HIDE DEF T, T1, T2
  <2>3. /\ ToSet(c[f]) = ToSet(a[f]) \cup ToSet(b[f])
        /\ \A x, y : Earlier(c[f], x, y) <=>
             Earlier(a[f], x, y) \/ (y \notin ToSet(a[f]) /\ Earlier(b[f], x, y))
    BY <1>3 DEF Joins
  <2>4. JoinOf(c[f], m + n, T)
    BY <1>1, <2>1, <2>2, <2>3, JoinOfAll
  <2> QED
    BY <1>1, <2>4 DEF T
<1> QED
  BY <1>4, <1>5 DEF StandsFor, c, L

\* The commands' URLs are not said.
LEMMA TransformStands ==
  ASSUME NEW c, NEW L, IsConfig(c), StandsFor(c, L)
  PROVE  StandsFor(TransformConfig(c), L)
<1> DEFINE t == TransformConfig(c)
<1>1. /\ t.env = c.env /\ t.mounts = c.mounts /\ t.skills = c.skills /\ t.secrets = c.secrets
      /\ t.srvs = c.srvs /\ t.mode = c.mode /\ t.hosts = c.hosts /\ t.ports = c.ports
      /\ t.features = c.features
      /\ t.cmds = RewriteArgs(c.cmds, ContainerHostname)
  BY DEF TransformConfig, IsConfig
<1> HIDE DEF t
<1>2. NamesOf(t.cmds) = NamesOf(c.cmds)
  <2>1. \A e \in ToSet(c.cmds) : IsEntry(e)
    BY DEF IsConfig, IsEntry
  <2>2. DOMAIN t.cmds = DOMAIN c.cmds
    BY <1>1 DEF RewriteArgs
  <2>3. ASSUME NEW i \in DOMAIN c.cmds PROVE t.cmds[i].name = c.cmds[i].name
    <3>1. IsEntry(c.cmds[i])
      BY <2>1 DEF ToSet
    <3>2. t.cmds[i] = [c.cmds[i] EXCEPT
                         !.val = RewriteURLWithHost(c.cmds[i].val, ContainerHostname)]
      BY <1>1 DEF RewriteArgs
    <3> QED
      BY <3>1, <3>2 DEF IsEntry
  <2> QED
    BY <2>2, <2>3 DEF NamesOf
<1>3. \A f \in ItemFields : ItemsOf(t, f) = ItemsOf(c, f)
  BY <1>1, <1>2 DEF ItemsOf, ItemFields
<1>4. \A f \in ListFields : t[f] = c[f]
  BY <1>1 DEF ListFields
<1> QED
  BY <1>3, <1>4 DEF StandsFor, t

-----------------------------------------------------------------------------
(* The levels at every step.                                               *)

LevelsAre(L) == IsList(L) /\ \A c \in ToSet(L) : IsConfig(c) /\ validate(c)

\* What the last merge makes of the lists.
OnceEach(c) ==
  /\ IsInjective(c.skills) /\ IsInjective(c.secrets)
  /\ IsInjective(c.hosts) /\ IsInjective(c.ports)
  /\ MountedOnce(c.mounts)

LevelsInv ==
  /\ pc \in {"start", "workspace", "project"} /\ cfg = NoConfig => levels = <<>>
  /\ pc = "project" /\ cfg # NoConfig => LevelsAre(levels) /\ StandsFor(cfg, levels)
  /\ pc = "agent" => LevelsAre(levels) /\ StandsFor(cfg, levels)
  /\ pc \in {"secrets", "dumped"} =>
       LevelsAre(levels) /\ StandsFor(cfg, levels) /\ OnceEach(cfg)

\* The levels of two lists of them, one after the other.
LEMMA LevelsTogether ==
  ASSUME NEW A, NEW B, LevelsAre(A), LevelsAre(B)
  PROVE  LevelsAre(A \o B)
BY Joined DEF LevelsAre

\* A single level.
LEMMA OneLevel ==
  ASSUME NEW c, IsConfig(c), validate(c)
  PROVE  LevelsAre(<<c>>)
<1>1. <<c>> \in Seq({c}) /\ ToSet(<<c>>) = {c}
  BY DEF ToSet
<1> QED
  BY <1>1 DEF LevelsAre, IsList

\* And none.
LEMMA NoLevel == LevelsAre(<<>>)
<1>1. <<>> \in Seq({}) /\ ToSet(<<>>) = {}
  BY DEF ToSet
<1> QED
  BY <1>1 DEF LevelsAre, IsList

\* To join the empty list changes nothing.
LEMMA NothingJoined ==
  \A E : \A s \in Seq(E) : <<>> \o s = s /\ s \o <<>> = s
OBVIOUS

\* The merge lists everything once.
LEMMA MergeLists ==
  ASSUME NEW a, NEW b, IsConfig(a), IsConfig(b)
  PROVE  OnceEach(Merge(a, b))
<1> DEFINE c == Merge(a, b)
<1>1. /\ c.mounts = mergeMounts(a.mounts, b.mounts)
      /\ c.skills = mergeStringSlices(a.skills, b.skills)
      /\ c.secrets = mergeStringSlices(a.secrets, b.secrets)
      /\ c.hosts = mergeStringSlices(a.hosts, b.hosts)
      /\ c.ports = mergeStringSlices(a.ports, b.ports)
  BY DEF Merge, mergeSkills, mergeSecrets, mergePorts, mergeNetwork
<1> HIDE DEF c
<1>2. /\ IsList(a.skills) /\ IsList(a.secrets) /\ IsList(a.hosts) /\ IsList(a.ports)
      /\ IsList(b.skills) /\ IsList(b.secrets) /\ IsList(b.hosts) /\ IsList(b.ports)
      /\ IsList(a.mounts) /\ IsList(b.mounts)
  BY DEF IsConfig
<1>3. /\ IsInjective(c.skills) /\ IsInjective(c.secrets)
      /\ IsInjective(c.hosts) /\ IsInjective(c.ports)
  BY <1>1, <1>2, SlicesAre DEF Joins
<1>4. MountedOnce(c.mounts)
  BY <1>1, <1>2, MountsAre
<1> QED
  BY <1>3, <1>4 DEF OnceEach, c

\* A level of one file.
LEMMA LevelStands ==
  ASSUME NEW file, NEW key, key \in DOMAIN file => IsConfig(file[key]) /\ validate(file[key])
  PROVE  /\ LevelsAre(Level(file, key))
         /\ StandsFor(IF key \in DOMAIN file THEN file[key] ELSE EmptyConfig, Level(file, key))
BY OneLevel, NoLevel, OneStands, EmptyStands DEF Level

\* What a project's level stands for.
LEMMA ProjectStands ==
  ASSUME NEW file, NEW project, ProjectLoads(file, project),
         \A k \in DOMAIN file : IsConfig(file[k])
  PROVE  LET L == Level(file, "") \o Level(file, project)
         IN LevelsAre(L) /\ StandsFor(LoadProject(file, project), L)
<1> DEFINE A == Level(file, "")
           B == Level(file, project)
<1>1. "" \in DOMAIN file => IsConfig(file[""]) /\ validate(file[""])
  BY DEF ProjectLoads
<1>2. project \in DOMAIN file => IsConfig(file[project]) /\ validate(file[project])
  BY DEF ProjectLoads
<1>3. /\ LevelsAre(A) /\ StandsFor(IF "" \in DOMAIN file THEN file[""] ELSE EmptyConfig, A)
      /\ LevelsAre(B)
      /\ StandsFor(IF project \in DOMAIN file THEN file[project] ELSE EmptyConfig, B)
  BY <1>1, <1>2, LevelStands
<1>4. IsList(A) /\ IsList(B)
  BY <1>3 DEF LevelsAre
<1>5. /\ "" \notin DOMAIN file => A = <<>>
      /\ project \notin DOMAIN file => B = <<>>
  BY DEF Level
<1>6. <<>> \o B = B /\ A \o <<>> = A
  BY <1>4, NothingJoined DEF IsList
<1> HIDE DEF A, B
<1>7. LevelsAre(A \o B)
  BY <1>3, LevelsTogether
<1>8. StandsFor(LoadProject(file, project), A \o B)
  <2>1. CASE "" \in DOMAIN file /\ project \in DOMAIN file
    <3>1. LoadProject(file, project) = Merge(file[""], file[project])
      BY <2>1, ProjectIs
    <3> QED
      BY <1>1, <1>2, <1>3, <1>4, <2>1, <3>1, MergeStands
  <2>2. CASE "" \in DOMAIN file /\ project \notin DOMAIN file
    BY <1>3, <1>5, <1>6, <2>2, ProjectIs
  <2>3. CASE "" \notin DOMAIN file /\ project \in DOMAIN file
    BY <1>3, <1>5, <1>6, <2>3, ProjectIs
  <2>4. CASE "" \notin DOMAIN file /\ project \notin DOMAIN file
    BY <1>3, <1>5, <1>6, <2>4, ProjectIs
  <2> QED
    BY <2>1, <2>2, <2>3, <2>4
<1> QED
  BY <1>7, <1>8 DEF A, B

\* No file is no configuration.
LEMMA NoneIsNoConfig ==
  ASSUME NEW c, IsConfig(c)
  PROVE  c # NoConfig
<1>1. "env" \in DOMAIN c
  BY DEF IsConfig
<1>2. "env" \notin DOMAIN <<>>
  OBVIOUS
<1> QED
  BY <1>1, <1>2 DEF NoConfig

\* Three lists may be joined in either order,
LEMMA JoinedThrice ==
  \A E : \A a, b, c \in Seq(E) : (a \o b) \o c = a \o (b \o c)
OBVIOUS

\* whatever is in them.
LEMMA ThreeLists ==
  ASSUME NEW a, NEW b, NEW c, IsList(a), IsList(b), IsList(c)
  PROVE  a \o b \o c = a \o (b \o c)
<1> DEFINE E == ToSet(a) \cup ToSet(b) \cup ToSet(c)
<1>1. a \in Seq(E) /\ b \in Seq(E) /\ c \in Seq(E)
  BY Wider
<1> HIDE DEF E
<1> QED
  BY <1>1, JoinedThrice

\* A file has at most one level of a key.
LEMMA LevelsAreLists ==
  ASSUME NEW file, NEW key
  PROVE  IsList(Level(file, key))
<1>1. \A c : <<c>> \in Seq({c}) /\ ToSet(<<c>>) = {c}
  BY DEF ToSet
<1> QED
  BY <1>1, NoLevel DEF Level, IsList, LevelsAre

\* The transformation is of the commands alone.
LEMMA TransformLists ==
  ASSUME NEW c, IsConfig(c), OnceEach(c)
  PROVE  OnceEach(TransformConfig(c))
<1> DEFINE t == TransformConfig(c)
<1>1. /\ t.mounts = c.mounts /\ t.skills = c.skills /\ t.secrets = c.secrets
      /\ t.hosts = c.hosts /\ t.ports = c.ports
  BY DEF TransformConfig, IsConfig
<1> HIDE DEF t
<1> QED
  BY <1>1 DEF OnceEach, t

\* Where the invariant says something of the levels.
Loading == {"start", "workspace", "project", "agent", "secrets", "dumped"}

\* A step that changes nothing here.
LEMMA SameLevels ==
  ASSUME LevelsInv, UNCHANGED <<pc, cfg, levels>>
  PROVE  LevelsInv'
BY DEF LevelsInv

\* A step out of the loading says nothing of the levels.
LEMMA NoLevels ==
  ASSUME pc' \notin Loading
  PROVE  LevelsInv'
BY DEF LevelsInv, Loading

\* The levels loaded so far and those of the project.
LEMMA ProjectLevels ==
  ASSUME Inv, LevelsInv, LoadProjectConfig
  PROVE  LevelsInv'
<1> DEFINE level == LoadProject(world["projects"], req.project)
           A == Level(world["projects"], "")
           B == Level(world["projects"], req.project)
           L == A \o B
<1>1. /\ pc = "project" /\ pc' = "agent" /\ cfg' = NextLevel(cfg, level)
      /\ levels' = levels \o A \o B
      /\ ProjectLoads(world["projects"], req.project)
  BY DEF LoadProjectConfig, Step
<1>2. WorldInv /\ ConfigInv
  BY DEF Inv
<1>3. \A k \in DOMAIN world["projects"] : IsConfig(world["projects"][k])
  BY <1>1, <1>2, PartsAre DEF ProjectLoads
<1>4. LevelsAre(L) /\ StandsFor(level, L)
  BY <1>1, <1>3, ProjectStands
<1>5. IsConfig(level) /\ validate(level)
  BY <1>1, <1>3, ProjectIsValid
<1>6. LevelsAre(levels)
  BY <1>1, NoLevel DEF LevelsInv
<1>7. levels' = levels \o L
  <2>1. IsList(levels) /\ IsList(A) /\ IsList(B)
    BY <1>6, LevelsAreLists DEF LevelsAre
  <2> HIDE DEF A, B
  <2> QED
    BY <1>1, <2>1, ThreeLists
<1> HIDE DEF L, level
<1>8. LevelsAre(levels')
  BY <1>4, <1>6, <1>7, LevelsTogether
<1>9. StandsFor(cfg', levels')
  <2>1. CASE cfg = NoConfig
    <3>1. levels = <<>> /\ cfg' = level
      BY <1>1, <2>1 DEF LevelsInv, NextLevel
    <3>2. levels' = L
      BY <1>4, <1>7, <3>1, NothingJoined DEF LevelsAre, IsList
    <3> QED
      BY <1>4, <3>1, <3>2
  <2>2. CASE cfg # NoConfig
    <3>1. cfg' = Merge(cfg, level) /\ StandsFor(cfg, levels) /\ IsConfig(cfg)
      BY <1>1, <1>2, <2>2 DEF LevelsInv, NextLevel, ConfigInv
    <3> QED
      BY <1>4, <1>5, <1>6, <1>7, <3>1, MergeStands DEF LevelsAre
  <2> QED
    BY <2>1, <2>2
<1> QED
  BY <1>1, <1>8, <1>9 DEF LevelsInv

\* The agent's comes last; its merge leaves nothing in a list twice.
LEMMA AgentLevels ==
  ASSUME Inv, LevelsInv, LoadAgentConfig
  PROVE  LevelsInv'
<1> DEFINE file == world["agents"]
           level == LoadAgent(file, req.agent)
           L == Level(file, req.agent)
           merged == Merge(cfg, level)
<1>1. WorldInv /\ ConfigInv
  BY DEF Inv
<1>2. pc = "agent" /\ AgentLoads(file, req.agent) /\ levels' = levels \o L
  BY DEF LoadAgentConfig
<1>3. IsConfig(cfg) /\ cfg # NoConfig
  BY <1>1, <1>2, NoneIsNoConfig DEF ConfigInv, BeforeLoaded
<1>4. /\ pc' \in {"dumped", "secrets"} /\ cfg' \in {merged, TransformConfig(merged)}
  BY <1>3 DEF LoadAgentConfig, NextLevel
<1>5. req.agent \in DOMAIN file => IsConfig(file[req.agent]) /\ validate(file[req.agent])
  BY <1>1, <1>2, PartsAre DEF AgentLoads
<1>6. IsConfig(level) /\ validate(level)
  BY <1>5, EmptyIsValid DEF LoadAgent
<1>7. LevelsAre(L) /\ StandsFor(level, L)
  BY <1>5, LevelStands DEF LoadAgent
<1> HIDE DEF file, level, L
<1>8. LevelsAre(levels) /\ StandsFor(cfg, levels)
  BY <1>2 DEF LevelsInv
<1>9. LevelsAre(levels')
  BY <1>2, <1>7, <1>8, LevelsTogether
<1>10. StandsFor(merged, levels')
  BY <1>2, <1>3, <1>6, <1>7, <1>8, MergeStands DEF LevelsAre
<1>11. IsConfig(merged) /\ OnceEach(merged)
  BY <1>3, <1>6, MergeIsConfig, MergeLists
<1> HIDE DEF merged
<1>12. StandsFor(cfg', levels') /\ OnceEach(cfg')
  BY <1>4, <1>10, <1>11, TransformStands, TransformLists
<1> QED
  BY <1>4, <1>9, <1>12 DEF LevelsInv

\* Every step keeps what the configuration stands for.
LEMMA NextLevels ==
  ASSUME Inv, LevelsInv, [Next]_vars
  PROVE  LevelsInv'
<1>1. CASE UNCHANGED vars
  BY <1>1, SameLevels DEF vars, addVars
<1>2. CASE EditWorld \/ MapSecret
  BY <1>2, SameLevels DEF EditWorld, MapSecret
<1>3. CASE RegisterRuntimes
  BY <1>3 DEF RegisterRuntimes, Step, LevelsInv
<1>4. CASE LoadWorkspace
  <2>1. /\ cfg' = world["workspace"] /\ pc' = "project" /\ WorkspaceLoads(world["workspace"])
        /\ levels' = IF cfg' = NoConfig THEN <<>> ELSE <<cfg'>>
    BY <1>4 DEF LoadWorkspace, Step
  <2>2. cfg' = NoConfig \/ (IsConfig(cfg') /\ validate(cfg'))
    BY <2>1, PartsAre DEF WorkspaceLoads, Inv
  <2>3. cfg' # NoConfig => LevelsAre(levels') /\ StandsFor(cfg', levels')
    BY <2>1, <2>2, OneLevel, OneStands
  <2> QED
    BY <2>1, <2>3 DEF LevelsInv
<1>5. CASE LoadProjectConfig
  BY <1>5, ProjectLevels
<1>6. CASE LoadAgentConfig
  BY <1>6, AgentLevels
<1>7. CASE ReadAgentSettings \/ SetUpAgent \/ AddFails
  BY <1>7, NoLevels DEF ReadAgentSettings, SetUpAgent, AddFails, Step, Loading
<1>8. CASE PodmanNext
  <2>1. pc' \notin Loading
    BY <1>8 DEF PodmanNext, PodmanLoadConfig, PrepareFeatures, MergeFeatureOptions,
         BuildImage, KubePlay,
         DetectCredential, FakeCredential, SetupOnecli, ConfigureCredential, CreateContainer,
         PodmanFails, PodmanStep, Step, Loading
  <2> QED
    BY <2>1, NoLevels
<1>9. CASE SandboxNext
  <2>1. pc' \notin Loading
    BY <1>9 DEF SandboxNext, InterceptCredential, AddCredentialHosts, EnsureProvider,
         SandboxGateway, ListProviders, CreateSandbox, UploadCredential,
         WriteSandboxFiles, ApplyNetworkPolicy, SandboxFails, SandboxStep, Step, Loading
  <2> QED
    BY <2>1, NoLevels
<1> QED
  BY <1>1, <1>2, <1>3, <1>4, <1>5, <1>6, <1>7, <1>8, <1>9 DEF Next, AddNext

-----------------------------------------------------------------------------
(* The lists of the levels, end to end.                                    *)

Flattens(f, T, n) == f = [i \in 1..n |-> IF i = 1 THEN T[i] ELSE f[i - 1] \o T[i]]

\* The function that FlattenSeq defines by recursion exists.
LEMMA FlattenExists ==
  ASSUME NEW E, NEW n \in Nat, NEW T \in [1..n -> Seq(E)]
  PROVE  \E f \in [1..n -> Seq(E)] : Flattens(f, T, n)
<1> DEFINE Has(k) == \E f \in [1..k -> Seq(E)] : Flattens(f, T, k)
           S == {k \in 0..n : Has(k)}
<1>1. 0 \in S
  <2> DEFINE f == [i \in 1..0 |-> IF i = 1 THEN T[i] ELSE <<>>]
  <2>1. f \in [1..0 -> Seq(E)] /\ Flattens(f, T, 0)
    BY DEF Flattens
  <2>2. Has(0)
    BY <2>1
  <2> HIDE DEF Has
  <2> QED
    BY <2>2
<1>2. ASSUME NEW k \in 1..n, k - 1 \in S PROVE k \in S
  <2>1. PICK g \in [1..(k - 1) -> Seq(E)] : Flattens(g, T, k - 1)
    BY <1>2
  <2> DEFINE h == [i \in 1..k |-> IF i = k THEN IF k = 1 THEN T[k] ELSE g[k - 1] \o T[k]
                                  ELSE g[i]]
  <2>2. T[k] \in Seq(E) /\ (k # 1 => g[k - 1] \in Seq(E))
    OBVIOUS
  <2>3. \A a, b \in Seq(E) : a \o b \in Seq(E)
    OBVIOUS
  <2>4. h \in [1..k -> Seq(E)]
    <3>1. ASSUME NEW i \in 1..k PROVE h[i] \in Seq(E)
      <4>1. CASE i = k
        <5>1. h[i] = IF k = 1 THEN T[k] ELSE g[k - 1] \o T[k]
          BY <4>1
        <5> QED
          BY <2>2, <2>3, <5>1
      <4>2. CASE i # k
        BY <4>2
      <4> QED
        BY <4>1, <4>2
    <3> QED
      BY <3>1
  <2>5. ASSUME NEW i \in 1..k PROVE h[i] = IF i = 1 THEN T[i] ELSE h[i - 1] \o T[i]
    <3>1. CASE i = k
      <4>1. k # 1 => h[k - 1] = g[k - 1]
        OBVIOUS
      <4> QED
        BY <3>1, <4>1
    <3>2. CASE i # k
      <4>1. i \in 1..(k - 1) /\ h[i] = g[i] /\ (i # 1 => h[i - 1] = g[i - 1])
        BY <3>2
      <4>2. g[i] = IF i = 1 THEN T[i] ELSE g[i - 1] \o T[i]
        BY <2>1, <4>1 DEF Flattens
      <4> QED
        BY <4>1, <4>2
    <3> QED
      BY <3>1, <3>2
  <2>6. Flattens(h, T, k)
    <3>1. h = [i \in 1..k |-> h[i]]
      OBVIOUS
    <3> HIDE DEF h
    <3> QED
      BY <2>5, <3>1 DEF Flattens
  <2> HIDE DEF h
  <2> QED
    BY <2>4, <2>6
<1> HIDE DEF S
<1>3. n \in S
  <2>1. 0..n \subseteq S
    BY <1>1, <1>2, Upward
  <2> QED
    BY <2>1
<1> QED
  BY <1>3 DEF S

\* It joins the lists.
LEMMA FlattenJoins ==
  ASSUME NEW E, NEW n \in Nat, NEW T \in [1..n -> Seq(E)]
  PROVE  FlattenSeq(T) \in Seq(E) /\ JoinOf(FlattenSeq(T), n, T)
<1>1. T \in Seq(Seq(E)) /\ Len(T) = n
  OBVIOUS
<1>2. CASE n = 0
  <2>1. FlattenSeq(T) = T /\ T = <<>>
    BY <1>1, <1>2 DEF FlattenSeq
  <2> QED
    BY <1>2, <2>1, JoinOfNone
<1>3. CASE n # 0
  <2> DEFINE f == CHOOSE f : Flattens(f, T, n)
  <2>1. FlattenSeq(T) = f[n]
    BY <1>1, <1>3 DEF FlattenSeq, Flattens
  <2>2. Flattens(f, T, n)
    BY FlattenExists
  <2> HIDE DEF f
  <2> DEFINE S == {k \in 0..n : k = 0 \/ (f[k] \in Seq(E) /\ JoinOf(f[k], k, T))}
  <2>3. ASSUME NEW k \in 1..n, k - 1 \in S PROVE k \in S
    <3>1. T[k] \in Seq(E) /\ f[k] = IF k = 1 THEN T[k] ELSE f[k - 1] \o T[k]
      BY <2>2 DEF Flattens
    <3>2. CASE k = 1
      <4>1. JoinOf(f[1], 1, T)
        BY <3>1, <3>2, JoinAlone
      <4> QED
        BY <3>1, <3>2, <4>1
    <3>3. CASE k # 1
      <4> DEFINE T2 == [i \in 1..1 |-> T[k]]
                 m == k - 1
                 r == f[m] \o T[k]
      <4>1. m \in Nat /\ f[m] \in Seq(E) /\ JoinOf(f[m], m, T) /\ f[k] = r /\ m + 1 = k
        BY <2>3, <3>1, <3>3
      <4>2. JoinOf(T[k], 1, T2)
        BY JoinAlone
      <4>3. /\ r \in Seq(E) /\ ToSet(r) = ToSet(f[m]) \cup ToSet(T[k])
            /\ \A x, y : Earlier(r, x, y) <=>
                 Earlier(f[m], x, y) \/ (y \notin ToSet(f[m]) /\ Earlier(T[k], x, y))
        BY <3>1, <4>1, JoinedEarlier
      <4>4. \A i \in 1..1 : T[m + i] = T2[i]
        OBVIOUS
      <4> HIDE DEF T2, m, r
      <4>5. JoinOf(r, m + 1, T)
        BY <4>1, <4>2, <4>3, <4>4, JoinOfAll
      <4> QED
        BY <4>1, <4>3, <4>5
    <3> QED
      BY <3>2, <3>3
  <2>4. 0 \in S
    OBVIOUS
  <2> HIDE DEF S
  <2>5. n \in S
    <3>1. 0..n \subseteq S
      BY <2>3, <2>4, Upward
    <3> QED
      BY <3>1
  <2> QED
    BY <1>3, <2>1, <2>5 DEF S
<1> QED
  BY <1>2, <1>3

\* The first of an earlier item is before the first of a later one.
LEMMA FirstOf ==
  ASSUME NEW E, NEW list \in Seq(E), NEW x, NEW y, Earlier(list, x, y), y \in ToSet(list)
  PROVE  Min({i \in DOMAIN list : list[i] = x}) < Min({i \in DOMAIN list : list[i] = y})
<1> DEFINE A == {i \in DOMAIN list : list[i] = x}
           B == {i \in DOMAIN list : list[i] = y}
<1>1. /\ Len(list) \in Nat /\ DOMAIN list = 1..Len(list)
      /\ A \subseteq 1..Len(list) /\ B \subseteq 1..Len(list)
  OBVIOUS
<1>2. PICK i \in A : \A j \in 1..i : list[j] # y
  BY DEF Earlier
<1>3. B # {}
  BY DEF ToSet
<1>4. Min(A) \in A /\ \A k \in A : Min(A) <= k
  BY <1>1, <1>2, MinOf
<1>5. Min(B) \in B
  BY <1>1, <1>3, MinOf
<1>6. Min(A) <= i /\ i < Min(B)
  <2>1. Min(B) \in 1..Len(list) /\ list[Min(B)] = y /\ i \in 1..Len(list)
    BY <1>1, <1>5
  <2> QED
    BY <1>2, <1>4, <2>1
<1>7. Min(A) \in Int /\ i \in Int /\ Min(B) \in Int
  BY <1>1, <1>4, <1>5
<1> HIDE DEF A, B
<1>8. Min(A) < Min(B)
  BY <1>6, <1>7
<1> QED
  BY <1>8 DEF A, B

-----------------------------------------------------------------------------
(* What the highest level says.                                            *)

\* The entry of a name that is in the list once.
LEMMA TheEntry ==
  ASSUME NEW list, NoRepeat(list), NEW e \in ToSet(list)
  PROVE  Entry(list, e.name) = e
<1>1. \A x \in ToSet(list) : x.name = e.name => x = e
  BY DEF NoRepeat, ToSet
<1> QED
  BY <1>1 DEF Entry

\* The levels that say something of a key.
Saying(field, k) == {i \in DOMAIN levels : k \in Keys(ItemsOf(levels[i], field))}

\* The configuration has the keys of all levels, and each item from the highest.
LEMMA HighestOf ==
  ASSUME LevelsAre(levels), StandsFor(cfg, levels), NEW field \in ItemFields
  PROVE  /\ \A k : k \in Keys(ItemsOf(cfg, field)) <=> Saying(field, k) # {}
         /\ \A p \in ItemsOf(cfg, field) :
              LET w == Max(Saying(field, p[1]))
              IN w \in DOMAIN levels /\ p \in ItemsOf(levels[w], field)
<1> DEFINE n == Len(levels)
           T == [i \in 1..n |-> ItemsOf(levels[i], field)]
<1>1. n \in Nat /\ DOMAIN levels = 1..n
  BY DEF LevelsAre, IsList
<1>2. Stands(ItemsOf(cfg, field), n, T)
  BY DEF StandsFor
<1>3. \A i \in 1..n : T[i] = ItemsOf(levels[i], field)
  OBVIOUS
<1> HIDE DEF n, T
<1>4. ASSUME NEW k PROVE k \in Keys(ItemsOf(cfg, field)) <=> Saying(field, k) # {}
  BY <1>1, <1>2, <1>3, AllKeysAre DEF Stands, Saying
<1>5. ASSUME NEW p \in ItemsOf(cfg, field)
      PROVE  LET w == Max(Saying(field, p[1]))
             IN w \in DOMAIN levels /\ p \in ItemsOf(levels[w], field)
  <2> DEFINE S == Saying(field, p[1])
  <2>1. PICK i \in 1..n : p \in T[i] /\ \A j \in 1..n : j > i => p[1] \notin Keys(T[j])
    BY <1>2 DEF Stands
  <2>2. i \in S /\ S \subseteq 1..n /\ \A j \in S : ~(j > i)
    BY <1>1, <1>3, <2>1 DEF Saying, Keys
  <2>3. Max(S) \in S /\ Max(S) >= i
    BY <1>1, <2>2, MaxOf
  <2>4. Max(S) = i
    <3>1. ASSUME NEW k \in 1..n, k >= i, ~(k > i) PROVE k = i
      BY <1>1, <3>1
    <3>2. Max(S) \in 1..n /\ ~(Max(S) > i)
      BY <2>2, <2>3
    <3> QED
      BY <2>3, <3>1, <3>2
  <2> QED
    BY <1>1, <1>3, <2>1, <2>4
<1> QED
  BY <1>4, <1>5

\* A level is valid.
LEMMA LevelIsValid ==
  ASSUME LevelsAre(levels), NEW i \in DOMAIN levels
  PROVE  IsConfig(levels[i]) /\ validate(levels[i])
BY DEF LevelsAre, ToSet

\* The variables are those of the highest levels that set them.
LEMMA EnvironmentStands ==
  ASSUME LevelsAre(levels), StandsFor(cfg, levels)
  PROVE  EnvironmentWins
<1>1. \A k : Saying("env", k) = {i \in DOMAIN levels : k \in NamesOf(levels[i].env)}
  BY KeysAre DEF Saying
<1>2. /\ \A k : k \in NamesOf(cfg.env) <=> Saying("env", k) # {}
      /\ \A p \in ItemsOf(cfg, "env") :
           LET w == Max(Saying("env", p[1]))
           IN w \in DOMAIN levels /\ p \in ItemsOf(levels[w], "env")
  BY HighestOf, KeysAre DEF ItemFields
<1>3. NamesOf(cfg.env) = UNION {NamesOf(levels[i].env) : i \in DOMAIN levels}
  <2>1. \A k : k \in NamesOf(cfg.env) <=> \E i \in DOMAIN levels : k \in NamesOf(levels[i].env)
    BY <1>1, <1>2
  <2> QED
    BY <2>1
<1>4. ASSUME NEW e \in ToSet(cfg.env)
      PROVE  e = Entry(Winner(LAMBDA c : e.name \in NamesOf(c.env)).env, e.name)
  <2> DEFINE S == {i \in DOMAIN levels : e.name \in NamesOf(levels[i].env)}
             w == Max(S)
  <2>1. S = Saying("env", e.name)
    BY <1>1
  <2>2. <<e.name, e>> \in ItemsOf(cfg, "env") /\ <<e.name, e>>[1] = e.name
    BY EnvItems
  <2>3. S # {}
    BY <1>2, <2>1, NamesAre
  <2>4. w \in DOMAIN levels /\ <<e.name, e>> \in ItemsOf(levels[w], "env")
    BY <1>2, <2>1, <2>2
  <2>5. Winner(LAMBDA c : e.name \in NamesOf(c.env)) = levels[w]
    BY <2>3 DEF Winner
  <2> HIDE DEF w, S
  <2>6. e \in ToSet(levels[w].env)
    BY <2>4, EnvItems
  <2>7. NoRepeat(levels[w].env)
    BY <2>4, LevelIsValid DEF validate, ValidEnvironment
  <2> QED
    BY <2>5, <2>6, <2>7, TheEntry
<1> QED
  BY <1>3, <1>4 DEF EnvironmentWins

\* Every pair is mounted, once and as a level has it.
LEMMA MountsStand ==
  ASSUME LevelsAre(levels), StandsFor(cfg, levels), OnceEach(cfg)
  PROVE  MountsAreJoined
<1>1. \A c : Pairs(c) = PairsOf(c.mounts)
  BY DEF Pairs, PairsOf, PairOf
<1>2. \A k : Saying("mounts", k) = {i \in DOMAIN levels : k \in Pairs(levels[i])}
  BY <1>1, KeysAre DEF Saying
<1>3. /\ \A k : k \in Pairs(cfg) <=> Saying("mounts", k) # {}
      /\ \A p \in ItemsOf(cfg, "mounts") :
           LET w == Max(Saying("mounts", p[1]))
           IN w \in DOMAIN levels /\ p \in ItemsOf(levels[w], "mounts")
  BY <1>1, HighestOf, KeysAre DEF ItemFields
<1>4. Pairs(cfg) = UNION {Pairs(levels[i]) : i \in DOMAIN levels}
  <2>1. \A k : k \in Pairs(cfg) <=> \E i \in DOMAIN levels : k \in Pairs(levels[i])
    BY <1>2, <1>3
  <2> QED
    BY <2>1
<1>5. ASSUME NEW m \in ToSet(cfg.mounts)
      PROVE  \E i \in DOMAIN levels : m \in ToSet(levels[i].mounts)
  <2> DEFINE k == [host |-> m.host, target |-> m.target]
             w == Max(Saying("mounts", k))
  <2>1. k = PairOf(m)
    BY DEF PairOf
  <2>2. <<k, m>> \in ItemsOf(cfg, "mounts") /\ <<k, m>>[1] = k
    BY <2>1, MountItems
  <2>3. w \in DOMAIN levels /\ <<k, m>> \in ItemsOf(levels[w], "mounts")
    BY <1>3, <2>2
  <2> HIDE DEF k, w
  <2> QED
    BY <2>3, MountItems
<1> QED
  BY <1>4, <1>5 DEF MountsAreJoined, OnceEach, MountedOnce

\* A name is the command or the server that the highest level makes it.
LEMMA MCPStands ==
  ASSUME LevelsAre(levels), StandsFor(cfg, levels), IsConfig(cfg), validate(cfg)
  PROVE  MCPWins
<1>0. ASSUME NEW c, IsConfig(c), validate(c)
      PROVE  NamesOf(c.cmds) \cap NamesOf(c.srvs) = {} /\ NoRepeat(c.srvs)
  BY <1>0, ValidMCPParts DEF IsConfig, validate, ValidMCPIs
<1>1. \A k : Saying("mcp", k) = {i \in DOMAIN levels : k \in MCPNames(levels[i])}
  BY KeysAre DEF Saying, MCPNames
<1>2. /\ \A k : k \in MCPNames(cfg) <=> Saying("mcp", k) # {}
      /\ \A p \in ItemsOf(cfg, "mcp") :
           LET w == Max(Saying("mcp", p[1]))
           IN w \in DOMAIN levels /\ p \in ItemsOf(levels[w], "mcp")
  BY HighestOf, KeysAre DEF ItemFields, MCPNames
<1>3. MCPNames(cfg) = UNION {MCPNames(levels[i]) : i \in DOMAIN levels}
  <2>1. \A k : k \in MCPNames(cfg) <=> \E i \in DOMAIN levels : k \in MCPNames(levels[i])
    BY <1>1, <1>2
  <2> QED
    BY <2>1
<1> SUFFICES ASSUME NEW n \in MCPNames(cfg)
             PROVE  LET w == Winner(LAMBDA c : n \in MCPNames(c))
                    IN IF n \in NamesOf(w.srvs)
                       THEN n \notin NamesOf(cfg.cmds) /\ Entry(cfg.srvs, n) = Entry(w.srvs, n)
                       ELSE n \in NamesOf(cfg.cmds) /\ n \notin NamesOf(cfg.srvs)
  BY <1>3 DEF MCPWins
<1> DEFINE S == {i \in DOMAIN levels : n \in MCPNames(levels[i])}
           w == levels[Max(S)]
<1>4. S = Saying("mcp", n)
  BY <1>1
<1>5. S # {}
  BY <1>2, <1>4
<1>6. Winner(LAMBDA c : n \in MCPNames(c)) = w
  BY <1>5 DEF Winner
<1>7. ASSUME NEW v, <<n, v>> \in ItemsOf(cfg, "mcp")
      PROVE  IsConfig(w) /\ validate(w) /\ <<n, v>> \in ItemsOf(w, "mcp")
  <2>1. <<n, v>>[1] = n
    OBVIOUS
  <2>2. Max(S) \in DOMAIN levels /\ <<n, v>> \in ItemsOf(levels[Max(S)], "mcp")
    BY <1>2, <1>4, <1>7, <2>1
  <2> QED
    BY <2>2, LevelIsValid
<1> HIDE DEF S, w
<1>8. CASE n \in NamesOf(cfg.cmds)
  <2>1. <<n, <<"command", n>>>> \in ItemsOf(cfg, "mcp")
    BY <1>8, MCPItems
  <2>2. IsConfig(w) /\ validate(w) /\ <<n, <<"command", n>>>> \in ItemsOf(w, "mcp")
    BY <1>7, <2>1
  <2>3. n \in NamesOf(w.cmds)
    BY <2>2, MCPItems
  <2>4. n \notin NamesOf(w.srvs) /\ n \notin NamesOf(cfg.srvs)
    BY <1>0, <1>8, <2>2, <2>3
  <2> QED
    BY <1>6, <1>8, <2>4
<1>9. CASE n \in NamesOf(cfg.srvs)
  <2>1. PICK e \in ToSet(cfg.srvs) : e.name = n
    BY <1>9, NamesAre
  <2>2. <<n, <<"server", e>>>> \in ItemsOf(cfg, "mcp")
    BY <2>1, MCPItems
  <2>3. IsConfig(w) /\ validate(w) /\ <<n, <<"server", e>>>> \in ItemsOf(w, "mcp")
    BY <1>7, <2>2
  <2>4. e \in ToSet(w.srvs)
    BY <2>3, MCPItems
  <2>5. n \in NamesOf(w.srvs)
    BY <2>1, <2>4, NamesAre
  <2>6. Entry(w.srvs, n) = e /\ Entry(cfg.srvs, n) = e
    BY <1>0, <2>1, <2>3, <2>4, TheEntry
  <2>7. n \notin NamesOf(cfg.cmds)
    BY <1>0, <1>9
  <2> QED
    BY <1>6, <2>5, <2>6, <2>7
<1> QED
  BY <1>8, <1>9 DEF MCPNames

\* The features' options are those of the highest levels that have them.
LEMMA FeaturesStand ==
  ASSUME LevelsAre(levels), StandsFor(cfg, levels)
  PROVE  FeaturesWin
<1>1. \A k : Saying("features", k) = {i \in DOMAIN levels : k \in DOMAIN levels[i].features}
  BY KeysAre DEF Saying
<1>2. /\ \A k : k \in DOMAIN cfg.features <=> Saying("features", k) # {}
      /\ \A p \in ItemsOf(cfg, "features") :
           LET w == Max(Saying("features", p[1]))
           IN w \in DOMAIN levels /\ p \in ItemsOf(levels[w], "features")
  BY HighestOf, KeysAre DEF ItemFields
<1>3. DOMAIN cfg.features = UNION {DOMAIN levels[i].features : i \in DOMAIN levels}
  <2>1. \A k : k \in DOMAIN cfg.features <=>
                 \E i \in DOMAIN levels : k \in DOMAIN levels[i].features
    BY <1>1, <1>2
  <2> QED
    BY <2>1
<1>4. ASSUME NEW f \in DOMAIN cfg.features
      PROVE  cfg.features[f] = Winner(LAMBDA c : f \in DOMAIN c.features).features[f]
  <2> DEFINE S == {i \in DOMAIN levels : f \in DOMAIN levels[i].features}
             w == Max(S)
             p == <<f, cfg.features[f]>>
  <2>1. S = Saying("features", f)
    BY <1>1
  <2>2. p \in ItemsOf(cfg, "features") /\ p[1] = f /\ p[2] = cfg.features[f]
    BY FeatureItems
  <2>3. S # {}
    BY <1>2, <2>1
  <2> HIDE DEF p
  <2>4. w \in DOMAIN levels /\ p \in ItemsOf(levels[w], "features")
    BY <1>2, <2>1, <2>2
  <2>5. Winner(LAMBDA c : f \in DOMAIN c.features) = levels[w]
    BY <2>3 DEF Winner
  <2> HIDE DEF w
  <2>6. levels[w].features[f] = cfg.features[f]
    BY <2>2, <2>4, FeatureItems
  <2> QED
    BY <2>5, <2>6
<1> QED
  BY <1>3, <1>4 DEF FeaturesWin

\* The lists are joined in the order of the levels, nothing twice.
LEMMA ListsStand ==
  ASSUME LevelsAre(levels), StandsFor(cfg, levels), IsConfig(cfg), OnceEach(cfg)
  PROVE  ListsAreJoined
<1> SUFFICES ASSUME NEW field \in ListFields
             PROVE  LET all == FlattenSeq([i \in DOMAIN levels |-> levels[i][field]])
                        first(x) == Min({i \in DOMAIN all : all[i] = x})
                    IN /\ ToSet(cfg[field]) = ToSet(all) /\ IsInjective(cfg[field])
                       /\ \A i, j \in DOMAIN cfg[field] :
                            i < j => first(cfg[field][i]) < first(cfg[field][j])
  BY DEF ListsAreJoined, ListFields
<1> DEFINE n == Len(levels)
           T == [i \in 1..n |-> levels[i][field]]
           l == cfg[field]
           E == UNION {ToSet(T[i]) : i \in 1..n}
           all == FlattenSeq(T)
<1>1. n \in Nat /\ DOMAIN levels = 1..n
  BY DEF LevelsAre, IsList
<1>2. JoinOf(l, n, T)
  BY DEF StandsFor
<1>3. \A i \in 1..n : IsList(T[i])
  BY <1>1, LevelIsValid DEF IsConfig, ListFields
<1>4. IsList(l) /\ IsInjective(l)
  BY DEF IsConfig, OnceEach, ListFields
<1>5. T = [i \in 1..n |-> T[i]]
  OBVIOUS
<1> HIDE DEF n, T, l
<1>6. T \in [1..n -> Seq(E)]
  <2>1. ASSUME NEW i \in 1..n PROVE T[i] \in Seq(E)
    BY <1>3, Wider
  <2> QED
    BY <1>5, <2>1
<1> HIDE DEF E
<1>7. all \in Seq(E) /\ JoinOf(all, n, T)
  BY <1>1, <1>6, FlattenJoins
<1> HIDE DEF all
<1>8. /\ ToSet(l) = ToSet(all)
      /\ \A x, y : Earlier(l, x, y) <=> Earlier(all, x, y)
  BY <1>2, <1>7 DEF JoinOf
<1>9. ASSUME NEW i \in DOMAIN l, NEW j \in DOMAIN l, i < j
      PROVE  Min({k \in DOMAIN all : all[k] = l[i]}) < Min({k \in DOMAIN all : all[k] = l[j]})
  <2>1. Earlier(l, l[i], l[j])
    <3>1. Len(l) \in Nat /\ DOMAIN l = 1..Len(l)
      BY <1>4 DEF IsList
    <3>2. \A k \in 1..i : k \in DOMAIN l /\ k # j
      BY <1>9, <3>1
    <3> QED
      BY <1>4, <3>2 DEF Earlier, IsInjective
  <2>2. l[j] \in ToSet(all)
    BY <1>8 DEF ToSet
  <2> QED
    BY <1>7, <1>8, <2>1, <2>2, FirstOf
<1>10. all = FlattenSeq([i \in DOMAIN levels |-> levels[i][field]])
  BY <1>1 DEF all, T, n
<1> QED
  BY <1>4, <1>8, <1>9, <1>10 DEF l

\* While the levels are loaded (init.go, Run; manager.go, Add), the configuration
\* says what those read so far say together, whatever others do to their files
\* meanwhile; once all are, it lists nothing twice.
THEOREM LevelsInvariance == Spec => []LevelsInv
<1>1. CreationInit => LevelsInv
  BY DEF CreationInit, Init, LevelsInv
<1>2. Inv /\ LevelsInv /\ [Next]_vars => LevelsInv'
  BY NextLevels
<1> QED
  BY <1>1, <1>2, Invariance, PTL DEF Spec

\* Of the variables, MCP entries and features several levels define, the merged
\* configuration has the highest's, and nothing is lost, doubled or out of order
\* (merger.go, Merge: "override takes precedence"; manager.go, Add).
THEOREM HighestWins == Spec => []HighestLevelWins
<1>1. Inv /\ LevelsInv => HighestLevelWins
  <2> SUFFICES ASSUME Inv, LevelsInv, pc \in {"secrets", "dumped"} PROVE HighestLevelWins
    BY DEF HighestLevelWins
  <2>1. LevelsAre(levels) /\ StandsFor(cfg, levels) /\ OnceEach(cfg)
    BY DEF LevelsInv
  <2>2. IsConfig(cfg) /\ validate(cfg)
    BY DEF Inv, ConfigInv, BeforeLoaded
  <2> QED
    BY <2>1, <2>2, EnvironmentStands, MountsStand, MCPStands, FeaturesStand, ListsStand
       DEF HighestLevelWins
<1> QED
  BY <1>1, Invariance, LevelsInvariance, PTL

-----------------------------------------------------------------------------
(* The secrets that were read.                                             *)

\* What others change is noted.
LEMMA EditedParts ==
  ASSUME WorldInv, EditWorld, NEW part \in WorldParts, part \notin world'["edited"]
  PROVE  part \notin world["edited"] /\ world'[part] = world[part]
<1> DEFINE e == Head(edits)
<1>1. world' = [world EXCEPT ![e.part] = e.value, !["edited"] = world["edited"] \cup {e.part}]
  <2>1. e \in ToSet(edits)
    <3>1. edits # <<>> /\ edits \in Seq(ToSet(edits))
      BY DEF EditWorld, WorldInv, IsList
    <3> QED
      BY <3>1
  <2>2. e.part \in WorldParts
    BY <2>1 DEF WorldInv
  <2> QED
    BY <2>2 DEF EditWorld, WorldParts
<1> HIDE DEF e
<1>2. DOMAIN world = WorldParts \cup {"edited"} /\ part # "edited" /\ "edited" \in DOMAIN world
  BY DEF WorldInv, WorldParts
<1>3. world'["edited"] = world["edited"] \cup {e.part}
  BY <1>1, <1>2
<1>4. part # e.part /\ part \notin world["edited"]
  BY <1>3
<1> QED
  BY <1>1, <1>2, <1>4

\* Podman's images and the providers are no part that is noted.
LEMMA OtherPart ==
  ASSUME WorldInv, NEW name \in {"images", "providers"}, NEW value,
         world' = [world EXCEPT ![name] = value]
  PROVE  /\ world'["edited"] = world["edited"] /\ world'["secrets"] = world["secrets"]
         /\ world'["files"] = world["files"]
BY DEF WorldInv, WorldParts

\* Before a secret is read.
Early == {"start", "workspace", "project", "agent"}

\* The i-th secret that was used is the one the store has of the i-th name.
UsedAre ==
  \A i \in 1..Len(used) :
    /\ i \in 1..Len(cfg.secrets) /\ cfg.secrets[i] \in DOMAIN world["secrets"]
    /\ used[i] = world["secrets"][cfg.secrets[i]]

\* What was used of the secrets, until they are no longer looked at.
UsedInv ==
  /\ IsList(used)
  /\ pc \in Early => used = <<>>
  /\ pc \notin Early \cup {"dumped", "failed"} =>
       /\ "secrets" \notin world["edited"] => UsedAre
       /\ pc # "secrets" => Len(used) = Len(cfg.secrets)

\* A step after the secrets that leaves them alone.
LEMMA UsedStays ==
  ASSUME UsedInv, pc \notin Early \cup {"dumped", "failed"},
         pc # "secrets" \/ Len(used) = Len(cfg.secrets),
         pc' \notin Early,
         used' = used, cfg'.secrets = cfg.secrets,
         \/ "secrets" \in world'["edited"]
         \/ "secrets" \notin world["edited"] /\ world'["secrets"] = world["secrets"]
  PROVE  UsedInv'
BY DEF UsedInv, UsedAre, Early

\* A step before them, or to the end.
LEMMA UsedIsEmpty ==
  ASSUME UsedInv, used' = used, pc \in Early
  PROVE  pc' \in Early \cup {"secrets", "dumped"} => UsedInv'
<1> SUFFICES ASSUME pc' \in Early \cup {"secrets", "dumped"} PROVE UsedInv'
  OBVIOUS
<1>1. used' = <<>> /\ IsList(used') /\ Len(used') = 0
  BY DEF UsedInv
<1>2. UsedAre'
  BY <1>1 DEF UsedAre
<1>3. pc' \in Early \/ pc' = "secrets" \/ pc' = "dumped"
  OBVIOUS
<1> QED
  BY <1>1, <1>2, <1>3 DEF UsedInv, Early

\* A step that ends the command.
LEMMA UsedAtEnd ==
  ASSUME UsedInv, used' = used, pc' = "failed"
  PROVE  UsedInv'
BY DEF UsedInv, Early

\* Another secret is read.
LEMMA UsedGrows ==
  ASSUME Inv, UsedInv, MapSecret
  PROVE  UsedInv'
<1> DEFINE n == Len(used)
           x == world["secrets"][NextSecret]
<1>1. /\ pc = "secrets" /\ pc' = "secrets" /\ n < Len(cfg.secrets) /\ NextSecret \in DOMAIN world["secrets"]
      /\ used' = Append(used, x) /\ world' = world /\ cfg' = cfg
  BY DEF MapSecret, SecretMaps
<1>2. IsConfig(cfg)
  BY <1>1 DEF Inv, ConfigInv, BeforeLoaded
<1>3. Len(cfg.secrets) \in Nat
  BY <1>2 DEF IsConfig, IsList
<1>4. used \in Seq(ToSet(used))
  BY DEF UsedInv, IsList
<1> DEFINE E == ToSet(used) \cup {x}
<1>5. used \in Seq(E) /\ x \in E
  BY Wider DEF UsedInv
<1> HIDE DEF E, x
<1>6. /\ used' \in Seq(E) /\ n \in Nat /\ Len(used') = n + 1 /\ used'[n + 1] = x
      /\ \A i \in 1..n : used'[i] = used[i]
  BY <1>1, <1>5
<1>7. IsList(used')
  BY <1>6, ListIs
<1>8. ASSUME UsedAre PROVE UsedAre'
  <2> SUFFICES ASSUME NEW i \in 1..(n + 1)
               PROVE  /\ i \in 1..Len(cfg.secrets) /\ cfg.secrets[i] \in DOMAIN world["secrets"]
                      /\ used'[i] = world["secrets"][cfg.secrets[i]]
    BY <1>1, <1>6 DEF UsedAre
  <2>1. CASE i \in 1..n
    BY <1>6, <1>8, <2>1 DEF UsedAre
  <2>2. CASE i = n + 1
    <3>1. i \in 1..Len(cfg.secrets)
      BY <1>1, <1>3, <1>6, <2>2
    <3>2. NextSecret = cfg.secrets[i]
      BY <2>2 DEF NextSecret
    <3> QED
      BY <1>1, <1>6, <2>2, <3>1, <3>2 DEF x
  <2> QED
    BY <1>6, <2>1, <2>2
<1> QED
  BY <1>1, <1>7, <1>8 DEF UsedInv, Early

\* A step up to the call of Create, or an edit of others.
LEMMA UsedInAdd ==
  ASSUME Inv, UsedInv, AddNext
  PROVE  UsedInv'
<1>0. WorldInv /\ ConfigInv
  BY DEF Inv
<1>1. CASE EditWorld
  <2>1. UNCHANGED <<pc, cfg, used>>
    BY <1>1 DEF EditWorld
  <2>2. "secrets" \in WorldParts
    BY DEF WorldParts
  <2>3. \/ "secrets" \in world'["edited"]
        \/ "secrets" \notin world["edited"] /\ world'["secrets"] = world["secrets"]
    BY <1>0, <1>1, <2>2, EditedParts
  <2> QED
    BY <2>1, <2>3 DEF UsedInv, UsedAre
<1>2. CASE RegisterRuntimes \/ LoadWorkspace \/ LoadProjectConfig \/ LoadAgentConfig
  <2>1. used' = used /\ pc \in Early /\ pc' \in Early \cup {"secrets", "dumped"}
    BY <1>2 DEF RegisterRuntimes, LoadWorkspace, LoadProjectConfig, LoadAgentConfig,
       Step, Early
  <2> QED
    BY <2>1, UsedIsEmpty
<1>3. CASE MapSecret
  BY <1>3, UsedGrows
<1>4. CASE ReadAgentSettings
  BY <1>4, UsedStays DEF ReadAgentSettings, Step, Early, UsedInv, UsedAre
<1>5. CASE SetUpAgent
  <2>1. /\ pc = "setup" /\ pc' = "create" /\ UNCHANGED <<world, used>>
        /\ cfg' = cfg \/ cfg' = [cfg EXCEPT !.mounts = @ \o SkillMounts]
    BY <1>5 DEF SetUpAgent, Step
  <2>2. IsConfig(cfg)
    BY <1>0, <2>1 DEF ConfigInv, BeforeLoaded
  <2>3. cfg'.secrets = cfg.secrets
    BY <2>1, <2>2 DEF IsConfig
  <2> QED
    BY <2>1, <2>3 DEF UsedInv, UsedAre, Early
<1>6. CASE AddFails
  BY <1>6, UsedAtEnd DEF AddFails
<1> QED
  BY <1>1, <1>2, <1>3, <1>4, <1>5, <1>6 DEF AddNext

\* The runtimes' steps up to the end: where the command is.
CreateStates == {"create", "features", "options", "pod", "detect", "fake", "configure",
                 "intercept", "hosts", "providers", "upload", "policy"}

\* Podman's steps: of all that was prepared for them they change nothing.
LEMMA PodmanMoves ==
  ASSUME PodmanNext
  PROVE  /\ req.runtime = "podman"
         /\ pc \in CreateStates /\ pc' \in CreateStates \cup {"created", "failed"}
         /\ UNCHANGED <<world, edits, req, levels, cfg, used, given, settings>>
<1>1. UNCHANGED <<world, edits, req, levels, cfg, used, given, settings>>
  BY DEF PodmanNext, PodmanLoadConfig, PrepareFeatures, MergeFeatureOptions,
         BuildImage, KubePlay,
         DetectCredential, FakeCredential, SetupOnecli, ConfigureCredential, CreateContainer,
         PodmanFails, PodmanUnchanged
<1>2. /\ req.runtime = "podman"
      /\ pc \in CreateStates /\ pc' \in CreateStates \cup {"created", "failed"}
  BY DEF PodmanNext, PodmanLoadConfig, PrepareFeatures, MergeFeatureOptions,
         BuildImage, KubePlay,
         DetectCredential, FakeCredential, SetupOnecli, ConfigureCredential, CreateContainer,
         PodmanFails, PodmanAccepts, RunsCommand, PodmanStep, Step, CreateStates
<1> QED
  BY <1>1, <1>2

\* OpenShell's.
LEMMA SandboxMoves ==
  ASSUME SandboxNext
  PROVE  /\ req.runtime = "openshell"
         /\ pc \in CreateStates /\ pc' \in CreateStates \cup {"created", "failed"}
         /\ UNCHANGED <<edits, req, levels, used, given, settings>>
<1>1. UNCHANGED <<edits, req, levels, used, given, settings>>
  BY DEF SandboxNext, InterceptCredential, AddCredentialHosts, EnsureProvider,
         SandboxGateway, ListProviders, CreateSandbox, UploadCredential,
         WriteSandboxFiles, ApplyNetworkPolicy, SandboxFails, SandboxUnchanged
<1>2. /\ req.runtime = "openshell"
      /\ pc \in CreateStates /\ pc' \in CreateStates \cup {"created", "failed"}
  BY DEF SandboxNext, InterceptCredential, AddCredentialHosts, EnsureProvider,
         SandboxGateway, ListProviders, CreateSandbox, UploadCredential,
         WriteSandboxFiles, ApplyNetworkPolicy, SandboxFails, SandboxAccepts, RunsOpenShell,
         RunsInLoop, SandboxStep, Step, CreateStates
<1> QED
  BY <1>1, <1>2

\* Of the configuration, OpenShell's steps change the mounts and the hosts, of the
\* world the providers.
LEMMA SandboxKeeps ==
  ASSUME Inv, SandboxNext
  PROVE  /\ cfg'.secrets = cfg.secrets /\ cfg'.mode = cfg.mode /\ cfg'.env = cfg.env
         /\ AddCredentialHosts \/ cfg'.hosts = cfg.hosts
         /\ world'["edited"] = world["edited"] /\ world'["secrets"] = world["secrets"]
         /\ world'["files"] = world["files"]
<1>0. WorldInv /\ ConfigInv
  BY DEF Inv
<1>1. IsConfig(cfg)
  BY <1>0, SandboxMoves DEF ConfigInv, BeforeLoaded, CreateStates
<1>2. CASE InterceptCredential
  <2>1. world' = world /\ (cfg' = cfg \/ \E m : cfg' = removeMountFromConfig(cfg, m))
    BY <1>2 DEF InterceptCredential
  <2>2. \E list : cfg' = cfg \/ cfg' = [cfg EXCEPT !.mounts = list]
    BY <2>1 DEF removeMountFromConfig
  <2> QED
    BY <1>1, <2>1, <2>2 DEF IsConfig
<1>3. CASE AddCredentialHosts
  <2>1. world' = world /\ \E hosts : cfg' = addHostsToNetworkConfig(cfg, hosts)
    BY <1>3 DEF AddCredentialHosts
  <2>2. \E list : cfg' = [cfg EXCEPT !.hosts = list]
    BY <2>1 DEF addHostsToNetworkConfig
  <2> QED
    BY <1>1, <1>3, <2>1, <2>2 DEF IsConfig
<1>4. CASE EnsureProvider
  <2>1. cfg' = cfg
    BY <1>4 DEF EnsureProvider
  <2>2. world' = world \/ \E value : world' = [world EXCEPT !["providers"] = value]
    BY <1>4 DEF EnsureProvider
  <2>3. /\ world'["edited"] = world["edited"] /\ world'["secrets"] = world["secrets"]
        /\ world'["files"] = world["files"]
    BY <1>0, <2>2, OtherPart
  <2> QED
    BY <2>1, <2>3
<1>5. CASE \/ SandboxGateway \/ ListProviders \/ CreateSandbox \/ UploadCredential
           \/ WriteSandboxFiles \/ ApplyNetworkPolicy \/ SandboxFails
  <2>1. UNCHANGED <<world, cfg>>
    BY <1>5 DEF SandboxGateway, ListProviders, CreateSandbox, UploadCredential,
                WriteSandboxFiles, ApplyNetworkPolicy, SandboxFails
  <2> QED
    BY <2>1
<1> QED
  BY <1>2, <1>3, <1>4, <1>5 DEF SandboxNext

\* Every step.
LEMMA UsedNext ==
  ASSUME Inv, UsedInv, [Next]_vars
  PROVE  UsedInv'
<1>1. CASE UNCHANGED vars
  BY <1>1 DEF vars, addVars, UsedInv, UsedAre
<1>2. CASE PodmanNext
  BY <1>2, PodmanMoves DEF UsedInv, UsedAre, Early, CreateStates
<1>3. CASE SandboxNext
  BY <1>3, SandboxMoves, SandboxKeeps DEF UsedInv, UsedAre, Early, CreateStates
<1> QED
  BY <1>1, <1>2, <1>3, UsedInAdd DEF Next

-----------------------------------------------------------------------------
(* The hosts.                                                              *)

\* The hosts OpenShell adds for a credential.
HostsFor(a) == expandVertexAIWildcards(HostPatterns(a.cred, world["files"], a.path))

\* The hosts it has added for all that were intercepted so far.
Expanded == UNION {HostsFor(a) : a \in ToSet(active)}

\* Its elements.
LEMMA ExpandedAre ==
  \A x : x \in Expanded <=> \E a \in ToSet(active) : x \in HostsFor(a)
BY DEF Expanded

\* Before and while OpenShell creates the sandbox.
Loaded == {"secrets", "setup", "create"}

Boxing == {"intercept", "hosts", "providers", "upload", "policy"}

\* The hosts of the configuration.
HostsInv ==
  /\ IsList(active)
  /\ pc \in Early \cup Loaded => active = <<>>
  /\ pc \in Loaded => ToSet(cfg.hosts) = LevelHosts
  /\ req.runtime = "openshell" /\ pc \in Boxing /\ "files" \notin world["edited"] =>
       ToSet(cfg.hosts) = LevelHosts \cup Expanded

\* The hosts are those of the levels.
LEMMA HostsAreLevels ==
  ASSUME LevelsInv, pc = "secrets"
  PROVE  ToSet(cfg.hosts) = LevelHosts
<1> DEFINE n == Len(levels)
           T == [i \in 1..n |-> levels[i].hosts]
<1>1. LevelsAre(levels) /\ JoinOf(cfg.hosts, n, T)
  BY DEF LevelsInv, StandsFor, ListFields
<1>2. n \in Nat /\ DOMAIN levels = 1..n
  BY <1>1 DEF LevelsAre, IsList
<1>3. \A i \in 1..n : T[i] = levels[i].hosts
  OBVIOUS
<1> HIDE DEF T, n
<1>4. \A x : x \in ToSet(cfg.hosts) <=> \E i \in 1..n : x \in ToSet(levels[i].hosts)
  BY <1>1, <1>3, AllOfAre DEF JoinOf
<1>5. \A x : x \in LevelHosts <=> \E i \in DOMAIN levels : x \in ToSet(levels[i].hosts)
  BY DEF LevelHosts
<1> QED
  BY <1>2, <1>4, <1>5

\* A step that leaves the hosts, the intercepted credentials and the levels alone.
LEMMA HostsStay ==
  ASSUME HostsInv, UNCHANGED <<req, active, levels>>, cfg'.hosts = cfg.hosts,
         pc' \in Early \cup Loaded => pc \in Early \cup Loaded,
         pc' \in Loaded => pc \in Loaded,
         req.runtime = "openshell" /\ pc' \in Boxing => pc \in Boxing,
         pc \in Boxing =>
           \/ "files" \in world'["edited"]
           \/ "files" \notin world["edited"] /\ world'["files"] = world["files"]
  PROVE  HostsInv'
<1>1. LevelHosts' = LevelHosts
  BY DEF LevelHosts
<1>2. world'["files"] = world["files"] => Expanded' = Expanded
  BY DEF Expanded, HostsFor
<1> QED
  BY <1>1, <1>2 DEF HostsInv

\* A step up to the call of Create, or an edit of others.
LEMMA HostsInAdd ==
  ASSUME Inv, LevelsInv, LevelsInv', HostsInv, AddNext
  PROVE  HostsInv'
<1>0. WorldInv /\ ConfigInv
  BY DEF Inv
<1>1. CASE EditWorld
  <2>1. UNCHANGED <<pc, cfg, req, active, levels>>
    BY <1>1 DEF EditWorld, loopVars
  <2>2. "files" \in WorldParts
    BY DEF WorldParts
  <2>3. \/ "files" \in world'["edited"]
        \/ "files" \notin world["edited"] /\ world'["files"] = world["files"]
    BY <1>0, <1>1, <2>2, EditedParts
  <2> QED
    BY <2>1, <2>3, HostsStay
<1>2. CASE RegisterRuntimes \/ LoadWorkspace \/ LoadProjectConfig
  <2>1. pc \in Early /\ pc' \in Early /\ active' = active
    BY <1>2 DEF RegisterRuntimes, LoadWorkspace, LoadProjectConfig, Step, Early, loopVars
  <2> QED
    BY <2>1 DEF HostsInv, Early, Loaded, Boxing
<1>3. CASE LoadAgentConfig
  <2>1. pc \in Early /\ pc' \in {"secrets", "dumped"} /\ active' = active
    BY <1>3 DEF LoadAgentConfig, Early, loopVars
  <2>2. (pc = "secrets" => ToSet(cfg.hosts) = LevelHosts)'
    BY HostsAreLevels, PTL
  <2> QED
    BY <2>1, <2>2 DEF HostsInv, Early, Loaded, Boxing
<1>4. CASE MapSecret \/ ReadAgentSettings
  <2>1. UNCHANGED <<world, req, active, levels, cfg>> /\ pc \in Loaded /\ pc' \in Loaded
    BY <1>4 DEF MapSecret, ReadAgentSettings, Step, Loaded, loopVars
  <2> QED
    BY <2>1, HostsStay DEF Early, Loaded, Boxing
<1>5. CASE SetUpAgent
  <2>1. /\ pc = "setup" /\ pc' = "create" /\ UNCHANGED <<world, req, active, levels>>
        /\ cfg' = cfg \/ cfg' = [cfg EXCEPT !.mounts = @ \o SkillMounts]
    BY <1>5 DEF SetUpAgent, Step, loopVars
  <2>2. IsConfig(cfg)
    BY <1>0, <2>1 DEF ConfigInv, BeforeLoaded
  <2>3. cfg'.hosts = cfg.hosts
    BY <2>1, <2>2 DEF IsConfig
  <2> QED
    BY <2>1, <2>3, HostsStay DEF Early, Loaded, Boxing
<1>6. CASE AddFails
  <2>1. pc' = "failed" /\ active' = active
    BY <1>6 DEF AddFails, loopVars
  <2> QED
    BY <2>1 DEF HostsInv, Early, Loaded, Boxing
<1> QED
  BY <1>1, <1>2, <1>3, <1>4, <1>5, <1>6 DEF AddNext

\* Appended to a list.
LEMMA ListGrows ==
  ASSUME NEW list, IsList(list), NEW x
  PROVE  IsList(Append(list, x)) /\ ToSet(Append(list, x)) = ToSet(list) \cup {x}
<1> DEFINE E == ToSet(list) \cup {x}
           n == Len(list)
           r == Append(list, x)
<1>1. list \in Seq(E) /\ x \in E
  BY Wider
<1>2. \A y : y \in ToSet(list) <=> \E i \in 1..n : list[i] = y
  BY <1>1 DEF ToSet
<1> HIDE DEF E
<1>3. /\ r \in Seq(E) /\ n \in Nat /\ Len(r) = n + 1 /\ r[n + 1] = x /\ DOMAIN r = 1..(n + 1)
      /\ \A i \in 1..n : r[i] = list[i]
  BY <1>1
<1> HIDE DEF r
<1>4. \A y : y \in ToSet(r) <=> \E i \in 1..(n + 1) : r[i] = y
  BY <1>3 DEF ToSet
<1>5. ASSUME NEW y PROVE y \in ToSet(r) <=> y \in ToSet(list) \/ y = x
  <2>1. ASSUME NEW i \in 1..n, list[i] = y PROVE \E j \in 1..(n + 1) : r[j] = y
    BY <1>3, <2>1
  <2>2. n + 1 \in 1..(n + 1)
    BY <1>3
  <2>3. ASSUME NEW i \in 1..(n + 1), r[i] = y PROVE y = x \/ \E j \in 1..n : list[j] = y
    BY <1>3, <2>3
  <2> QED
    BY <1>2, <1>3, <1>4, <2>1, <2>2, <2>3
<1> QED
  BY <1>3, <1>5, ListIs DEF r

\* Podman has no use for them.
LEMMA HostsInPodman ==
  ASSUME HostsInv, PodmanNext
  PROVE  HostsInv'
<1>1. /\ req.runtime = "podman" /\ pc' \in CreateStates \cup {"created", "failed"}
      /\ UNCHANGED req
  BY PodmanMoves
<1>2. pc' # "create" /\ (active' = active \/ \E x : active' = Append(active, x))
  BY DEF PodmanNext, PodmanLoadConfig, PrepareFeatures, MergeFeatureOptions,
         BuildImage, KubePlay,
         DetectCredential, FakeCredential, SetupOnecli, ConfigureCredential, CreateContainer,
         PodmanFails, PodmanStep, Step, loopVars
<1>3. IsList(active')
  BY <1>2, ListGrows DEF HostsInv
<1> QED
  BY <1>1, <1>2, <1>3 DEF HostsInv, CreateStates, Early, Loaded

\* A credential's hosts are added.
LEMMA HostsGrow ==
  ASSUME Inv, HostsInv, AddCredentialHosts
  PROVE  HostsInv'
<1> DEFINE d == Head(detected)
           hosts == HostsFor(d)
           new == hosts \ ToSet(cfg.hosts)
           l == cfg.hosts \o SetToSeq(new)
<1>1. /\ req.runtime = "openshell" /\ pc = "hosts" /\ pc' = "intercept" /\ UNCHANGED <<world, req, levels>>
      /\ cfg' = addHostsToNetworkConfig(cfg, hosts) /\ active' = Append(active, d)
  BY DEF AddCredentialHosts, SandboxStep, Step, SandboxUnchanged, HostsFor
<1>2. IsConfig(cfg)
  BY <1>1 DEF Inv, ConfigInv, BeforeLoaded
<1> HIDE DEF d
<1>3. IsFiniteSet(new)
  BY HostsAreFinite, FS_Subset DEF HostsFor
<1>4. cfg'.hosts = l
  BY <1>1, <1>2 DEF addHostsToNetworkConfig, IsConfig
<1> HIDE DEF hosts
<1>5. ToSet(cfg'.hosts) = ToSet(cfg.hosts) \cup hosts
  <2>1. IsList(cfg.hosts) /\ IsList(SetToSeq(new)) /\ ToSet(SetToSeq(new)) = new
    BY <1>2, <1>3, Enumerated DEF IsConfig
  <2> HIDE DEF new
  <2>2. ToSet(l) = ToSet(cfg.hosts) \cup new
    BY <2>1, Joined
  <2> QED
    BY <1>4, <2>2 DEF new
<1>6. IsList(active') /\ ToSet(active') = ToSet(active) \cup {d}
  BY <1>1, ListGrows DEF HostsInv
<1>7. Expanded' = Expanded \cup hosts
  <2>1. \A x : x \in Expanded' <=> \E a \in ToSet(active') : x \in HostsFor(a)
    BY <1>1 DEF Expanded, HostsFor
  <2> QED
    BY <1>6, <2>1, ExpandedAre DEF hosts
<1>8. LevelHosts' = LevelHosts
  BY <1>1 DEF LevelHosts
<1> QED
  BY <1>1, <1>5, <1>6, <1>7, <1>8 DEF HostsInv, Early, Loaded, Boxing

\* OpenShell's steps.
LEMMA HostsInSandbox ==
  ASSUME Inv, HostsInv, SandboxNext
  PROVE  HostsInv'
<1>1. CASE AddCredentialHosts
  BY <1>1, HostsGrow
<1>2. CASE SandboxGateway
  <2>1. pc = "create" /\ pc' = "intercept" /\ UNCHANGED <<req, active, levels, cfg, world>>
    BY <1>2 DEF SandboxGateway, SandboxStep, Step, SandboxUnchanged
  <2>2. active = <<>> /\ ToSet(cfg.hosts) = LevelHosts
    BY <2>1 DEF HostsInv, Early, Loaded
  <2>3. ToSet(<<>>) = {} /\ LevelHosts' = LevelHosts
    BY <2>1 DEF ToSet, LevelHosts
  <2>4. Expanded' = {}
    BY <2>1, <2>2, <2>3 DEF Expanded
  <2> QED
    BY <2>1, <2>2, <2>3, <2>4 DEF HostsInv, Early, Loaded, Boxing
<1>3. CASE ~AddCredentialHosts /\ ~SandboxGateway
  <2>1. UNCHANGED <<req, active, levels>> /\ pc \in Boxing \cup {"create"}
        /\ pc' \in Boxing \cup {"created", "failed"} /\ (pc = "create" => pc' = "failed")
    BY <1>3 DEF SandboxNext, InterceptCredential, EnsureProvider,
         ListProviders, CreateSandbox, UploadCredential,
         WriteSandboxFiles, ApplyNetworkPolicy, SandboxFails, SandboxAccepts, RunsOpenShell,
         RunsInLoop, SandboxStep, Step, SandboxUnchanged, Boxing, loopVars
  <2>2. /\ cfg'.hosts = cfg.hosts /\ world'["edited"] = world["edited"]
        /\ world'["files"] = world["files"]
    BY <1>3, SandboxKeeps
  <2> QED
    BY <2>1, <2>2, HostsStay DEF Early, Loaded, Boxing
<1> QED
  BY <1>1, <1>2, <1>3

\* Every step.
LEMMA HostsNext ==
  ASSUME Inv, LevelsInv, LevelsInv', HostsInv, [Next]_vars
  PROVE  HostsInv'
<1>1. CASE UNCHANGED vars
  BY <1>1 DEF vars, addVars, loopVars, HostsInv, LevelHosts, Expanded, HostsFor
<1> QED
  BY <1>1, HostsInAdd, HostsInPodman, HostsInSandbox DEF Next

\* The endpoints of Vertex AI in all regions.
Wildcard == "*-aiplatform.googleapis.com"

\* The hosts that are added for the credentials: theirs, with the wildcard
\* spelled out.
LEMMA Spelled ==
  Expanded = (CredentialHosts \ {Wildcard})
               \cup (IF Wildcard \in CredentialHosts THEN RegionHosts \cup extraVertexAIHosts ELSE {})
<1> DEFINE H(a) == HostPatterns(a.cred, world["files"], a.path)
           R == RegionHosts \cup extraVertexAIHosts
<1>1. \A x : x \in CredentialHosts <=> \E a \in ToSet(active) : x \in H(a)
  BY DEF CredentialHosts
<1>2. \A a, x : x \in HostsFor(a) <=>
        \/ x \in H(a) /\ x # Wildcard
        \/ Wildcard \in H(a) /\ x \in R
  BY DEF HostsFor, expandVertexAIWildcards, Wildcard, RegionHosts, extraVertexAIHosts
<1> HIDE DEF H, R
<1> SUFFICES ASSUME NEW x
             PROVE  x \in Expanded <=> \/ x \in CredentialHosts /\ x # Wildcard
                                       \/ Wildcard \in CredentialHosts /\ x \in R
  BY DEF R
<1> QED
  BY <1>1, <1>2, ExpandedAre

\* Unless the store changed meanwhile, the hosts of the secrets are those of the
\* secrets that were used.
LEMMA SecretsHosts ==
  ASSUME Inv, UsedInv, pc = "policy", "secrets" \notin world["edited"]
  PROVE  collectSecretHosts = UNION {SecretHosts(used[i].item) : i \in DOMAIN used}
<1>1. UsedAre /\ Len(used) = Len(cfg.secrets) /\ IsList(used)
  BY DEF UsedInv, Early
<1>2. Len(used) \in Nat /\ DOMAIN used = 1..Len(used)
  BY <1>1 DEF IsList
<1>3. IsConfig(cfg)
  BY DEF Inv, ConfigInv, BeforeLoaded
<1>4. DOMAIN cfg.secrets = 1..Len(cfg.secrets)
  BY <1>3 DEF IsConfig, IsList
<1> DEFINE N == ToSet(cfg.secrets) \cap DOMAIN world["secrets"]
<1>5. \A x : x \in collectSecretHosts <=> \E n \in N : x \in SecretHosts(world["secrets"][n].item)
  BY DEF collectSecretHosts
<1>6. ASSUME NEW x, NEW i \in DOMAIN used, x \in SecretHosts(used[i].item)
      PROVE  x \in collectSecretHosts
  <2>1. cfg.secrets[i] \in DOMAIN world["secrets"] /\ used[i] = world["secrets"][cfg.secrets[i]]
    BY <1>1, <1>2, <1>6 DEF UsedAre
  <2>2. cfg.secrets[i] \in ToSet(cfg.secrets)
    BY <1>1, <1>2, <1>6, <1>4 DEF ToSet
  <2> QED
    BY <1>5, <1>6, <2>1, <2>2
<1>7. \A n \in ToSet(cfg.secrets) : \E i \in DOMAIN cfg.secrets : cfg.secrets[i] = n
  BY DEF ToSet
<1> QED
  BY <1>1, <1>2, <1>5, <1>6, <1>7, <1>4 DEF UsedAre

-----------------------------------------------------------------------------
(* What was created.                                                       *)

\* What OpenShell's sandbox gets, once its files are written.
BoxEnv ==
  /\ secretEnvVars \subseteq DOMAIN sandbox.env
  /\ \A e \in ToSet(cfg.env) :
       "value" \in e.set /\ e.val # "" /\ e.name \notin secretEnvVars
         => e.name \in DOMAIN sandbox.env /\ sandbox.env[e.name] = e.val

\* The sandbox on its way, and what was created.
BoxInv ==
  /\ req.runtime = "openshell" /\ pc \in {"upload", "policy"} =>
       {"env", "policy", "restricted"} \subseteq DOMAIN sandbox
  /\ req.runtime = "openshell" /\ pc = "policy" => BoxEnv
  /\ pc = "created" => PolicyComplete /\ EnvironmentComplete

\* Plain values and placeholders are written to the sandbox.
LEMMA EnvIsWritten ==
  ASSUME ValidEnvironment(cfg.env)
  PROVE  /\ secretEnvVars \subseteq DOMAIN SandboxEnv
         /\ \A e \in ToSet(cfg.env) :
              "value" \in e.set /\ e.val # "" /\ e.name \notin secretEnvVars
                => e.name \in DOMAIN SandboxEnv /\ SandboxEnv[e.name] = e.val
<1> DEFINE plain == {n \in NamesOf(cfg.env) : /\ "value" \in Entry(cfg.env, n).set
                                              /\ Entry(cfg.env, n).val # ""}
           f == [n \in secretEnvVars |-> "placeholder"]
           g == [n \in plain |-> Entry(cfg.env, n).val]
<1>1. SandboxEnv = [x \in DOMAIN f \cup DOMAIN g |-> IF x \in DOMAIN f THEN f[x] ELSE g[x]]
  BY DEF SandboxEnv, Over
<1>2. ASSUME NEW e \in ToSet(cfg.env), "value" \in e.set, e.val # ""
      PROVE  e.name \in plain /\ g[e.name] = e.val
  <2>1. Entry(cfg.env, e.name) = e
    BY TheEntry DEF ValidEnvironment
  <2>2. e.name \in NamesOf(cfg.env)
    BY NamesAre
  <2> QED
    BY <1>2, <2>1, <2>2
<1>3. DOMAIN f = secretEnvVars /\ DOMAIN g = plain
  OBVIOUS
<1> HIDE DEF f, g, plain
<1> QED
  BY <1>1, <1>2, <1>3

\* The environment of podman's container.
LEMMA EnvIsGiven ==
  ASSUME ValidEnvironment(cfg.env)
  PROVE  /\ NamesOf(cfg.env) \cup secretEnvVars \cup DOMAIN OnecliEnv \cup DOMAIN image.env
              \subseteq DOMAIN ContainerEnv
         /\ \A e \in ToSet(cfg.env) :
              e.name \notin DOMAIN OnecliEnv => ContainerEnv[e.name] = e.val
         /\ DOMAIN ContainerEnv \cap DOMAIN noProxy # {}
<1> DEFINE placeholders == [n \in secretEnvVars \ DOMAIN WorkspaceEnv |-> "placeholder"]
           set == Over(OnecliEnv, WorkspaceEnv)
           bypass == IF DOMAIN set \cap DOMAIN noProxy = {} THEN noProxy ELSE Nothing
           beneath == Over(image.env, bypass)
           rest == Over(set, beneath)
<1>1. \A f, g : /\ DOMAIN Over(f, g) = DOMAIN f \cup DOMAIN g
                /\ \A x \in DOMAIN f : Over(f, g)[x] = f[x]
                /\ \A x \in DOMAIN g \ DOMAIN f : Over(f, g)[x] = g[x]
  BY DEF Over
<1>2. DOMAIN WorkspaceEnv = NamesOf(cfg.env)
  BY DEF WorkspaceEnv
<1>3. ContainerEnv = Over(placeholders, rest)
  BY DEF ContainerEnv
<1>4. DOMAIN placeholders = secretEnvVars \ DOMAIN WorkspaceEnv
  OBVIOUS
<1>5. "NO_PROXY" \in DOMAIN noProxy
  BY DEF noProxy
<1> HIDE DEF placeholders
<1>6. DOMAIN set = DOMAIN OnecliEnv \cup NamesOf(cfg.env)
  BY <1>1, <1>2
<1>7. /\ DOMAIN rest = DOMAIN set \cup DOMAIN image.env \cup DOMAIN bypass
      /\ \A x \in DOMAIN set : rest[x] = set[x]
  <2>1. DOMAIN beneath = DOMAIN image.env \cup DOMAIN bypass
    <3> HIDE DEF bypass
    <3> QED
      BY <1>1
  <2> HIDE DEF beneath, set
  <2>2. /\ DOMAIN rest = DOMAIN set \cup DOMAIN beneath
        /\ \A x \in DOMAIN set : rest[x] = set[x]
    BY <1>1
  <2> HIDE DEF rest
  <2> QED
    BY <2>1, <2>2
<1>8. DOMAIN ContainerEnv = DOMAIN placeholders \cup DOMAIN rest
  BY <1>1, <1>3
<1>9. DOMAIN ContainerEnv \cap DOMAIN noProxy # {}
  <2> HIDE DEF rest, set
  <2> QED
    BY <1>5, <1>7, <1>8
<1>10. ASSUME NEW e \in ToSet(cfg.env), e.name \notin DOMAIN OnecliEnv
       PROVE  ContainerEnv[e.name] = e.val
  <2>1. Entry(cfg.env, e.name) = e
    BY TheEntry DEF ValidEnvironment
  <2>2. e.name \in NamesOf(cfg.env)
    BY NamesAre
  <2>3. WorkspaceEnv[e.name] = e.val
    BY <2>1, <2>2 DEF WorkspaceEnv
  <2>4. set[e.name] = e.val
    BY <1>1, <1>2, <1>10, <2>2, <2>3
  <2> HIDE DEF set
  <2>5. rest[e.name] = e.val
    BY <1>6, <1>7, <2>2, <2>4
  <2> HIDE DEF rest
  <2> QED
    BY <1>1, <1>2, <1>3, <1>4, <1>6, <1>7, <2>2, <2>5
<1> HIDE DEF set, rest, bypass
<1> QED
  BY <1>2, <1>4, <1>6, <1>7, <1>8, <1>9, <1>10

\* The container is created.
LEMMA ContainerHasAll ==
  ASSUME Inv, CreateContainer
  PROVE  BoxInv'
<1>1. /\ pc = "configure" /\ pc' = "created" /\ req'.runtime = "podman"
      /\ UNCHANGED <<cfg, used, image>>
      /\ container' = [env |-> ContainerEnv, mounts |-> ContainerMounts, ports |-> CollectPorts]
  BY DEF CreateContainer, PodmanStep, Step, PodmanUnchanged
<1>2. ValidEnvironment(cfg.env)
  BY <1>1 DEF Inv, ConfigInv, BeforeLoaded, validate
<1>3. container'.env = ContainerEnv
  BY <1>1
<1>4. secretEnvVars' = secretEnvVars
  BY <1>1 DEF secretEnvVars
<1>5. EnvironmentComplete'
  BY <1>1, <1>2, <1>3, <1>4, EnvIsGiven DEF EnvironmentComplete, SandboxCreated,
     PodmanCreated
<1> QED
  BY <1>1, <1>5 DEF BoxInv, PolicyComplete, SandboxCreated

\* The policy is set.
LEMMA PolicyIsSet ==
  ASSUME Inv, UsedInv, HostsInv, BoxInv, ApplyNetworkPolicy
  PROVE  BoxInv'
<1>1. /\ req.runtime = "openshell" /\ pc = "policy" /\ pc' = "created"
      /\ UNCHANGED <<world, cfg, active, levels, used, req>>
  BY DEF ApplyNetworkPolicy, SandboxStep, Step, SandboxUnchanged, loopVars
<1>2. PICK supported \in BOOLEAN, resolved \in BOOLEAN :
        sandbox' = [sandbox EXCEPT
                      !.restricted = supported,
                      !.policy = IF supported THEN mergeHosts ELSE {},
                      !.endpoints = IF supported /\ resolved THEN collectModelEndpoints ELSE {}]
  BY DEF ApplyNetworkPolicy
<1>3. {"env", "policy", "restricted"} \subseteq DOMAIN sandbox /\ BoxEnv
  BY <1>1 DEF BoxInv
<1>4. \E p, e : /\ sandbox' = [sandbox EXCEPT !.restricted = supported, !.policy = p, !.endpoints = e]
                /\ supported => p = mergeHosts
  BY <1>2
<1>5. /\ sandbox'.restricted = supported /\ sandbox'.env = sandbox.env
      /\ supported => sandbox'.policy = mergeHosts
  BY <1>3, <1>4
<1>6. EnvironmentComplete'
  <2>1. secretEnvVars' = secretEnvVars
    BY <1>1 DEF secretEnvVars
  <2> QED
    BY <1>1, <1>3, <1>5, <2>1 DEF BoxEnv, EnvironmentComplete, SandboxCreated,
       PodmanCreated
<1>7. PolicyComplete'
  <2> DEFINE regions == IF Wildcard \in CredentialHosts THEN RegionHosts \cup extraVertexAIHosts ELSE {}
             injected == UNION {SecretHosts(used[i].item) : i \in DOMAIN used}
  <2>1. CASE /\ sandbox'.restricted /\ cfg.mode = "deny"
             /\ world["edited"] \cap {"files", "secrets"} = {}
    <3>1. sandbox'.policy = mergeHosts
      BY <1>5, <2>1
    <3>2. ToSet(cfg.hosts) = LevelHosts \cup Expanded
      BY <1>1, <2>1 DEF HostsInv, Boxing
    <3>3. collectSecretHosts = UNION {SecretHosts(used[i].item) : i \in DOMAIN used}
      BY <1>1, <2>1, SecretsHosts
    <3>4. Expanded = (CredentialHosts \ {Wildcard}) \cup regions
      BY Spelled
    <3>5. mergeHosts = ToSet(cfg.hosts) \cup injected
      BY <2>1, <3>3 DEF mergeHosts
    <3> HIDE DEF regions, injected
    <3>6. sandbox'.policy = LevelHosts \cup (CredentialHosts \ {Wildcard}) \cup regions \cup injected
      BY <3>1, <3>2, <3>4, <3>5
    <3>7. LevelHosts' = LevelHosts /\ CredentialHosts' = CredentialHosts
      BY <1>1 DEF LevelHosts, CredentialHosts
    <3>8. /\ regions = IF Wildcard \in CredentialHosts' THEN RegionHosts \cup extraVertexAIHosts ELSE {}
          /\ injected = UNION {SecretHosts(used'[i].item) : i \in DOMAIN used'}
      BY <1>1, <3>7 DEF regions, injected
    <3>9. sandbox'.policy = LevelHosts' \cup (CredentialHosts' \ {Wildcard}) \cup regions \cup injected
      BY <3>6, <3>7
    <3> QED
      BY <3>8, <3>9 DEF PolicyComplete, Wildcard
  <2>2. CASE ~(/\ sandbox'.restricted /\ cfg.mode = "deny"
               /\ world["edited"] \cap {"files", "secrets"} = {})
    BY <1>1, <2>2 DEF PolicyComplete
  <2> QED
    BY <2>1, <2>2
<1> QED
  BY <1>1, <1>6, <1>7 DEF BoxInv

\* OpenShell's steps.
LEMMA BoxInSandbox ==
  ASSUME Inv, UsedInv, HostsInv, BoxInv, SandboxNext
  PROVE  BoxInv'
<1>1. CASE ApplyNetworkPolicy
  BY <1>1, PolicyIsSet
<1>2. CASE CreateSandbox
  <2>1. /\ pc' = "upload"
        /\ sandbox' = [files |-> Nothing, settings |-> Nothing, env |-> Nothing, ports |-> {},
                       policy |-> {}, endpoints |-> {}, restricted |-> FALSE]
    BY <1>2 DEF CreateSandbox, SandboxStep, Step
  <2> QED
    BY <2>1 DEF BoxInv
<1>3. CASE UploadCredential
  <2>1. req.runtime = "openshell" /\ pc = "upload" /\ pc' = "upload"
    BY <1>3 DEF UploadCredential, SandboxStep, Step
  <2>2. \E f : sandbox' = [sandbox EXCEPT !.files = f]
    BY <1>3 DEF UploadCredential
  <2>3. DOMAIN sandbox' = DOMAIN sandbox
    BY <2>2
  <2> QED
    BY <2>1, <2>3 DEF BoxInv
<1>4. CASE WriteSandboxFiles
  <2>1. /\ req.runtime = "openshell" /\ pc = "upload" /\ pc' = "policy"
        /\ UNCHANGED <<cfg, used>>
        /\ sandbox' = [sandbox EXCEPT !.settings = settings, !.env = SandboxEnv, !.ports = collectPorts]
    BY <1>4 DEF WriteSandboxFiles, SandboxStep, Step, SandboxUnchanged
  <2>2. {"env", "policy", "restricted"} \subseteq DOMAIN sandbox
    BY <2>1 DEF BoxInv
  <2>3. DOMAIN sandbox' = DOMAIN sandbox /\ sandbox'.env = SandboxEnv
    BY <2>1, <2>2
  <2>4. ValidEnvironment(cfg.env)
    BY <2>1 DEF Inv, ConfigInv, BeforeLoaded, validate
  <2>5. secretEnvVars' = secretEnvVars
    BY <2>1 DEF secretEnvVars
  <2>6. BoxEnv'
    BY <2>1, <2>3, <2>4, <2>5, EnvIsWritten DEF BoxEnv
  <2> QED
    BY <2>1, <2>2, <2>3, <2>6 DEF BoxInv
<1>5. CASE \/ SandboxGateway \/ InterceptCredential \/ AddCredentialHosts \/ ListProviders
           \/ EnsureProvider \/ SandboxFails
  <2>1. pc' \notin {"upload", "policy", "created"}
    BY <1>5 DEF SandboxGateway, InterceptCredential, AddCredentialHosts, ListProviders,
                EnsureProvider, SandboxFails, SandboxStep, Step
  <2> QED
    BY <2>1 DEF BoxInv
<1> QED
  BY <1>1, <1>2, <1>3, <1>4, <1>5 DEF SandboxNext

\* Every step.
LEMMA BoxNext ==
  ASSUME Inv, UsedInv, HostsInv, BoxInv, [Next]_vars
  PROVE  BoxInv'
<1>1. CASE UNCHANGED vars
  <2>1. UNCHANGED <<world, levels, pc, req, cfg, used, active, image, container, sandbox>>
    BY <1>1 DEF vars, addVars, loopVars, podVars, sandboxVars
  <2>2. UNCHANGED <<secretEnvVars, LevelHosts, CredentialHosts>>
    BY <2>1 DEF secretEnvVars, LevelHosts, CredentialHosts
  <2>3. BoxEnv' = BoxEnv
    BY <2>1, <2>2 DEF BoxEnv
  <2>4. PolicyComplete' = PolicyComplete
    BY <2>1, <2>2 DEF PolicyComplete, SandboxCreated
  <2>5. EnvironmentComplete' = EnvironmentComplete
    BY <2>1, <2>2 DEF EnvironmentComplete, SandboxCreated, PodmanCreated
  <2> QED
    BY <2>1, <2>3, <2>4, <2>5 DEF BoxInv
<1>2. CASE SandboxNext
  BY <1>2, BoxInSandbox
<1>3. CASE CreateContainer
  BY <1>3, ContainerHasAll
<1>4. CASE PodmanNext /\ ~CreateContainer
  <2>1. pc' \notin {"upload", "policy", "created"}
    BY <1>4 DEF PodmanNext, PodmanLoadConfig, PrepareFeatures, MergeFeatureOptions,
       BuildImage, KubePlay, DetectCredential, FakeCredential, SetupOnecli, ConfigureCredential,
       PodmanFails, PodmanStep, Step
  <2> QED
    BY <2>1 DEF BoxInv
<1>5. CASE EditWorld /\ UNCHANGED <<podVars, sandboxVars>>
  <2>1. pc # "created" /\ UNCHANGED <<pc, req, cfg, used, sandbox>>
    BY <1>5 DEF EditWorld, Ended, sandboxVars
  <2> QED
    BY <2>1 DEF BoxInv, BoxEnv, secretEnvVars
<1>6. CASE AddNext /\ ~EditWorld
  <2>1. pc' \notin {"upload", "policy", "created"}
    BY <1>6 DEF AddNext, RegisterRuntimes, LoadWorkspace, LoadProjectConfig,
       LoadAgentConfig,
       MapSecret, ReadAgentSettings, SetUpAgent, AddFails, Step
  <2> QED
    BY <2>1 DEF BoxInv
<1> QED
  BY <1>1, <1>2, <1>3, <1>4, <1>5, <1>6 DEF Next

\* Once the secrets are read (manager.go, Add), those that were used are those
\* the store has of the names the configuration lists; while a sandbox is
\* created (openshell/create.go, Create), the hosts of the configuration are
\* those of the levels and of the credentials that were intercepted; and what is
\* created has the whole policy and environment.
THEOREM CreateInvariance == Spec => [](UsedInv /\ HostsInv /\ BoxInv)
<1>1. CreationInit => UsedInv /\ HostsInv /\ BoxInv
  BY DEF CreationInit, Init, UsedInv, HostsInv, BoxInv, IsList, ToSet, Early, Loaded,
     Boxing
<1>2. /\ Inv /\ LevelsInv /\ LevelsInv' /\ [Next]_vars
      /\ UsedInv /\ HostsInv /\ BoxInv
      => UsedInv' /\ HostsInv' /\ BoxInv'
  BY UsedNext, HostsNext, BoxNext
<1> QED
  BY <1>1, <1>2, Invariance, LevelsInvariance, PTL DEF Spec

\* In deny mode, unless the store or the host's files changed meanwhile, the network
\* policy of a sandbox allows the hosts of the levels, of the intercepted credentials and of the
\* secrets, and no others (openshell/create.go, Create; network.go).
THEOREM PolicyIsComplete == Spec => []PolicyComplete
<1>1. BoxInv => PolicyComplete
  BY DEF BoxInv, PolicyComplete, SandboxCreated
<1> QED
  BY <1>1, CreateInvariance, PTL

\* What is created has every variable of the workspace and of its secrets: in podman
\* with the workspace's value unless OneCLI sets it, in OpenShell with the plain
\* value unless a secret replaces it (podman/create.go, buildContainerArgs;
\* openshell/create.go, writeEnvFile).
THEOREM EnvironmentIsComplete == Spec => []EnvironmentComplete
<1>1. BoxInv => EnvironmentComplete
  BY DEF BoxInv, EnvironmentComplete, PodmanCreated, SandboxCreated
<1> QED
  BY <1>1, CreateInvariance, PTL

-----------------------------------------------------------------------------
(* What OneCLI is given.                                                   *)

\* e is the last of its name in a list.
Lasts(list, e) ==
  \E i \in DOMAIN list : /\ list[i] = e
                         /\ \A j \in DOMAIN list : j > i => list[j].name # e.name

\* In two lists, joined.
LEMMA LastsJoined ==
  ASSUME NEW E, NEW a \in Seq(E), NEW b \in Seq(E), NEW e,
         Lasts(b, e) \/ (Lasts(a, e) /\ e.name \notin NamesOf(b))
  PROVE  Lasts(a \o b, e)
<1> DEFINE r == a \o b
           M == Len(a)
           N == Len(b)
<1>1. /\ M \in Nat /\ N \in Nat /\ DOMAIN a = 1..M /\ DOMAIN b = 1..N /\ DOMAIN r = 1..(M + N)
      /\ \A i \in 1..M : r[i] = a[i]
      /\ \A i \in 1..N : r[M + i] = b[i]
  OBVIOUS
<1> HIDE DEF r, M, N
<1>2. CASE Lasts(b, e)
  <2>1. PICK i \in 1..N : b[i] = e /\ \A j \in 1..N : j > i => b[j].name # e.name
    BY <1>1, <1>2 DEF Lasts
  <2>2. M + i \in DOMAIN r /\ r[M + i] = e
    BY <1>1, <2>1
  <2>3. ASSUME NEW j \in 1..(M + N), j > M + i PROVE r[j].name # e.name
    <3>1. j - M \in 1..N /\ j - M > i /\ j = M + (j - M)
      BY <1>1, <2>3
    <3> QED
      BY <1>1, <2>1, <3>1
  <2> QED
    BY <1>1, <2>2, <2>3 DEF Lasts, r
<1>3. CASE Lasts(a, e) /\ e.name \notin NamesOf(b)
  <2>1. PICK i \in 1..M : a[i] = e /\ \A j \in 1..M : j > i => a[j].name # e.name
    BY <1>1, <1>3 DEF Lasts
  <2>2. i \in DOMAIN r /\ r[i] = e
    BY <1>1, <2>1
  <2>3. ASSUME NEW j \in 1..(M + N), j > i PROVE r[j].name # e.name
    <3>1. CASE j \in 1..M
      BY <1>1, <2>1, <2>3, <3>1
    <3>2. CASE j \notin 1..M
      <4>1. j - M \in 1..N /\ j = M + (j - M)
        BY <1>1, <3>2
      <4>2. b[j - M].name \in NamesOf(b)
        BY <1>1, <4>1 DEF NamesOf
      <4> QED
        BY <1>1, <1>3, <4>1, <4>2
    <3> QED
      BY <3>1, <3>2
  <2> QED
    BY <1>1, <2>2, <2>3 DEF Lasts, r
<1> QED
  BY <1>2, <1>3

\* In many lists: that of one, if no later list has its name.
LEMMA LastsFlattened ==
  ASSUME NEW E, NEW n \in Nat, NEW T \in [1..n -> Seq(E)], NEW i \in 1..n, NEW e,
         Lasts(T[i], e), \A j \in (i + 1)..n : e.name \notin NamesOf(T[j])
  PROVE  FlattenSeq(T) \in Seq(E) /\ Lasts(FlattenSeq(T), e)
<1>1. FlattenSeq(T) \in Seq(E)
  BY FlattenJoins
<1>2. T \in Seq(Seq(E)) /\ Len(T) = n /\ n # 0
  OBVIOUS
<1> DEFINE f == CHOOSE f : Flattens(f, T, n)
<1>3. FlattenSeq(T) = f[n]
  BY <1>2 DEF FlattenSeq, Flattens
<1>4. Flattens(f, T, n)
  BY FlattenExists
<1> HIDE DEF f
<1> DEFINE S == {k \in 0..n : k = 0 \/ (f[k] \in Seq(E) /\ (k >= i => Lasts(f[k], e)))}
<1>5. ASSUME NEW k \in 1..n, k - 1 \in S PROVE k \in S
  <2>1. T[k] \in Seq(E) /\ f[k] = IF k = 1 THEN T[k] ELSE f[k - 1] \o T[k]
    BY <1>4 DEF Flattens
  <2>2. CASE k = 1
    <3>1. f[k] = T[k] /\ (k >= i => k = i)
      BY <2>1, <2>2
    <3> QED
      BY <2>1, <3>1
  <2>3. CASE k # 1
    <3> DEFINE m == k - 1
               r == f[m] \o T[k]
    <3>1. m \in 1..n /\ f[m] \in Seq(E) /\ (m >= i => Lasts(f[m], e)) /\ f[k] = r
      BY <1>5, <2>1, <2>3
    <3>2. f[k] \in Seq(E)
      BY <2>1, <3>1
    <3>3. CASE k < i
      BY <3>2, <3>3
    <3>4. CASE k = i
      <4>1. Lasts(r, e)
        BY <2>1, <3>1, <3>4, LastsJoined
      <4> HIDE DEF r
      <4>2. Lasts(f[k], e)
        BY <3>1, <4>1
      <4> QED
        BY <3>2, <4>2
    <3>5. CASE k > i
      <4>1. m >= i /\ k \in (i + 1)..n
        BY <3>5
      <4>2. Lasts(r, e)
        BY <2>1, <3>1, <4>1, LastsJoined
      <4> HIDE DEF r
      <4>3. Lasts(f[k], e)
        BY <3>1, <4>2
      <4> QED
        BY <3>2, <4>3
    <3> QED
      BY <3>3, <3>4, <3>5
  <2> QED
    BY <2>2, <2>3
<1>6. 0 \in S
  OBVIOUS
<1> HIDE DEF S
<1>7. n \in S
  <2>1. 0..n \subseteq S
    BY <1>5, <1>6, Upward
  <2> QED
    BY <2>1
<1> QED
  BY <1>1, <1>2, <1>3, <1>7 DEF S

\* The databases with the names and the fields of some inputs.
Databases(E) ==
  LET R == [value : {e.value : e \in E}, host : {e.host : e \in E},
            path : {e.path : e \in E}, header : {e.header : e \in E}]
  IN UNION {[D -> R] : D \in SUBSET {e.name : e \in E}}

\* Membership in them.
LEMMA DatabasesAre ==
  ASSUME NEW E
  PROVE  LET R == [value : {e.value : e \in E}, host : {e.host : e \in E},
                   path : {e.path : e \in E}, header : {e.header : e \in E}]
         IN \A db : db \in Databases(E) <=>
              /\ db = [x \in DOMAIN db |-> db[x]] /\ DOMAIN db \subseteq {e.name : e \in E}
              /\ \A x \in DOMAIN db : db[x] \in R
<1> DEFINE R == [value : {e.value : e \in E}, host : {e.host : e \in E},
                 path : {e.path : e \in E}, header : {e.header : e \in E}]
<1>1. \A db : db \in Databases(E) <=> \E D \in SUBSET {e.name : e \in E} : db \in [D -> R]
  BY DEF Databases
<1> HIDE DEF R
<1>2. \A db : /\ db = [x \in DOMAIN db |-> db[x]] /\ DOMAIN db \subseteq {e.name : e \in E}
              /\ \A x \in DOMAIN db : db[x] \in R
              => db \in [DOMAIN db -> R] /\ DOMAIN db \in SUBSET {e.name : e \in E}
  OBVIOUS
<1> QED
  BY <1>1, <1>2 DEF R

\* A secret is created or updated.
LEMMA OneProvisioned ==
  ASSUME NEW db, NEW input
  PROVE  LET new == ProvisionOne(db, input)
         IN /\ DOMAIN new = DOMAIN db \cup {input.name}
            /\ new[input.name].value = input.value /\ new[input.name].host = input.host
            /\ \A x \in DOMAIN db \ {input.name} : new[x] = db[x]
<1>1. CASE input.name \in DOMAIN db
  <2>1. ProvisionOne(db, input) = updateExisting(db, input)
    BY <1>1 DEF ProvisionOne, doFails, CreateSecretStatus
  <2> DEFINE y == [value |-> input.value, host |-> input.host,
                   path |-> IF input.path # "" THEN input.path ELSE db[input.name].path,
                   header |-> IF input.header # "" THEN input.header ELSE db[input.name].header]
  <2>2. y.value = input.value /\ y.host = input.host
    OBVIOUS
  <2>3. ProvisionOne(db, input) = [db EXCEPT ![input.name] = y]
    BY <2>1 DEF updateExisting
  <2> HIDE DEF y
  <2> QED
    BY <1>1, <2>2, <2>3
<1>2. CASE input.name \notin DOMAIN db
  <2>1. ProvisionOne(db, input) = CreateSecret(db, input)
    BY <1>2 DEF ProvisionOne, doFails, CreateSecretStatus
  <2> QED
    BY <1>2, <2>1 DEF CreateSecret, Updated
<1> QED
  BY <1>1, <1>2

\* A step stays among them.
LEMMA ProvisionType ==
  ASSUME NEW E, NEW db \in Databases(E), NEW input \in E
  PROVE  ProvisionOne(db, input) \in Databases(E)
<1> DEFINE R == [value : {e.value : e \in E}, host : {e.host : e \in E},
                 path : {e.path : e \in E}, header : {e.header : e \in E}]
           new == ProvisionOne(db, input)
<1>1. /\ db = [x \in DOMAIN db |-> db[x]] /\ DOMAIN db \subseteq {e.name : e \in E}
      /\ \A x \in DOMAIN db : db[x] \in R
  BY DatabasesAre
<1>2. /\ DOMAIN new \subseteq {e.name : e \in E} /\ new = [x \in DOMAIN new |-> new[x]]
      /\ \A x \in DOMAIN new : new[x] \in R
  <2>1. CASE input.name \in DOMAIN db
    <3>1. new = updateExisting(db, input)
      BY <2>1 DEF ProvisionOne, doFails, CreateSecretStatus
    <3> DEFINE y == [value |-> input.value, host |-> input.host,
                     path |-> IF input.path # "" THEN input.path ELSE db[input.name].path,
                     header |-> IF input.header # "" THEN input.header ELSE db[input.name].header]
    <3>2. y \in R
      BY <1>1, <2>1
    <3>3. new = [db EXCEPT ![input.name] = y]
      BY <3>1 DEF updateExisting
    <3> HIDE DEF y, R, new
    <3> QED
      BY <1>1, <2>1, <3>2, <3>3
  <2>2. CASE input.name \notin DOMAIN db
    <3>1. new = CreateSecret(db, input)
      BY <2>2 DEF ProvisionOne, doFails, CreateSecretStatus
    <3> DEFINE y == [value |-> input.value, host |-> input.host,
                     path |-> input.path, header |-> input.header]
    <3>2. y \in R
      OBVIOUS
    <3>3. new = [x \in DOMAIN db \cup {input.name} |-> IF x = input.name THEN y ELSE db[x]]
      BY <3>1 DEF CreateSecret, Updated
    <3> HIDE DEF y, R, new
    <3> QED
      BY <1>1, <2>2, <3>2, <3>3
  <2> QED
    BY <2>1, <2>2
<1> HIDE DEF new
<1>3. new \in Databases(E)
  BY <1>2, DatabasesAre
<1> QED
  BY <1>3 DEF new

\* ProvisionSecrets has the intermediate results of a loop over the inputs.
LEMMA ProvisionLoop ==
  ASSUME NEW E, NEW base \in Databases(E), NEW seq \in Seq(E)
  PROVE  \E f : /\ f[0] = base /\ f[Len(seq)] = ProvisionSecrets(base, seq)
                /\ \A k \in 1..Len(seq) : f[k] = ProvisionOne(f[k - 1], seq[k])
<1> DEFINE X == Databases(E)
           F == [p \in X \X E |-> ProvisionOne(p[1], p[2])]
           Is(iter) == iter = [s \in SUBSET DOMAIN seq |->
                         IF s = {} THEN base ELSE ProvisionOne(iter[s \ {Max(s)}], seq[Max(s)])]
           it == CHOOSE iter : Is(iter)
           f == [k \in 0..Len(seq) |-> it[1..k]]
<1>1. F \in [X \X E -> X]
  BY ProvisionType
<1>2. \A p \in X \X E : F[p] = ProvisionOne(p[1], p[2])
  OBVIOUS
<1> HIDE DEF X, F
<1>3. PICK g \in [SUBSET DOMAIN seq -> X] : Iterates(g, base, seq, F)
  <2>1. base \in X
    BY DEF X
  <2> QED
    BY <1>1, <2>1, IterExists
<1>4. Is(g)
  <2>1. \A s \in SUBSET DOMAIN seq : s # {} =>
          g[s \ {Max(s)}] \in X /\ seq[Max(s)] \in E
    BY LastOf
  <2> QED
    BY <1>2, <1>3, <2>1 DEF Iterates
<1>5. Is(it)
  BY <1>4
<1>6. ProvisionSecrets(base, seq) = it[DOMAIN seq]
  BY DEF ProvisionSecrets, FoldLeft, MapThenFoldSet
<1> HIDE DEF it
<1>7. /\ DOMAIN seq = 1..Len(seq) /\ 1..0 = {} /\ 0 \in 0..Len(seq) /\ Len(seq) \in 0..Len(seq)
      /\ \A k \in 1..Len(seq) :
           /\ 1..k \in SUBSET DOMAIN seq /\ 1..k # {} /\ Max(1..k) = k
           /\ (1..k) \ {k} = 1..(k - 1) /\ k \in 0..Len(seq) /\ k - 1 \in 0..Len(seq)
  BY OneToIn
<1>8. \A k \in 1..Len(seq) : it[1..k] = ProvisionOne(it[1..(k - 1)], seq[k])
  <2> SUFFICES ASSUME NEW k \in 1..Len(seq)
               PROVE  it[1..k] = ProvisionOne(it[1..(k - 1)], seq[k])
    OBVIOUS
  <2> HIDE DEF f
  <2> QED
    BY <1>5, <1>7
<1>9. it[{}] = base
  BY <1>5
<1>10. f[0] = base /\ f[Len(seq)] = it[DOMAIN seq]
  BY <1>7, <1>9
<1>11. \A k \in 1..Len(seq) : f[k] = ProvisionOne(f[k - 1], seq[k])
  BY <1>7, <1>8
<1> QED
  BY <1>6, <1>10, <1>11

\* OneCLI injects the value of m into requests to its host.
Holds(db, m) == /\ m.name \in DOMAIN db
                /\ db[m.name].value = m.value /\ db[m.name].host = m.host

\* What ProvisionSecrets (onecli/provisioner.go) leaves behind, for any list of
\* inputs: of each name the value and the host of the last input that has it.
THEOREM Provisioned ==
  ASSUME NEW inputs, IsList(inputs), NEW m, Lasts(inputs, m)
  PROVE  Holds(ProvisionSecrets(<<>>, inputs), m)
<1> DEFINE E == ToSet(inputs)
           n == Len(inputs)
           empty == <<>>
<1>1. inputs \in Seq(E) /\ n \in Nat /\ DOMAIN inputs = 1..n
  BY DEF IsList
<1> HIDE DEF E, n
<1>2. empty \in Databases(E)
  <2>1. empty = [x \in DOMAIN empty |-> empty[x]] /\ DOMAIN empty = {}
    OBVIOUS
  <2> HIDE DEF empty
  <2> QED
    BY <2>1, DatabasesAre
<1> HIDE DEF empty
<1>3. PICK f : /\ f[0] = empty /\ f[Len(inputs)] = ProvisionSecrets(empty, inputs)
               /\ \A k \in 1..Len(inputs) : f[k] = ProvisionOne(f[k - 1], inputs[k])
  BY <1>1, <1>2, ProvisionLoop
<1>4. PICK i \in 1..n : inputs[i] = m /\ \A j \in 1..n : j > i => inputs[j].name # m.name
  BY <1>1 DEF Lasts
<1> DEFINE S == {k \in 0..n : k >= i => Holds(f[k], m)}
<1>5. 0 \in S
  BY <1>1
<1>6. ASSUME NEW k \in 1..n, k - 1 \in S PROVE k \in S
  <2> SUFFICES ASSUME k >= i PROVE Holds(f[k], m)
    OBVIOUS
  <2>1. f[k] = ProvisionOne(f[k - 1], inputs[k])
    BY <1>3 DEF n
  <2> DEFINE new == ProvisionOne(f[k - 1], inputs[k])
  <2>2. /\ DOMAIN new = DOMAIN f[k - 1] \cup {inputs[k].name}
        /\ new[inputs[k].name].value = inputs[k].value /\ new[inputs[k].name].host = inputs[k].host
        /\ \A x \in DOMAIN f[k - 1] \ {inputs[k].name} : new[x] = f[k - 1][x]
    BY OneProvisioned
  <2> HIDE DEF new
  <2>3. CASE k = i
    <3>1. Holds(new, m)
      BY <1>4, <2>2, <2>3 DEF Holds
    <3> QED
      BY <2>1, <3>1 DEF new
  <2>4. CASE k > i
    <3>1. Holds(f[k - 1], m) /\ inputs[k].name # m.name
      BY <1>4, <1>6, <2>4
    <3>2. Holds(new, m)
      BY <2>2, <3>1 DEF Holds
    <3> QED
      BY <2>1, <3>2 DEF new
  <2> QED
    BY <2>3, <2>4
<1> HIDE DEF S
<1>7. n \in S
  <2>1. 0..n \subseteq S
    BY <1>1, <1>5, <1>6, Upward
  <2> QED
    BY <1>1, <2>1
<1>8. Holds(f[n], m)
  BY <1>4, <1>7 DEF S
<1> QED
  BY <1>3, <1>8 DEF n, empty

\* A secret that can be mapped.
Mappable(item) ==
  ~MapFails(item) /\ item.name \in DOMAIN Segments /\ IsList(item.hosts)

\* Its inputs: each has a name, and no two the same.
LEMMA InputsAre ==
  ASSUME NEW item, item.name \in DOMAIN Segments, NEW hosts, IsList(hosts), ~HostsFail(hosts),
         NEW value, NEW path, NEW header
  PROVE  LET l == InputsFor(item, value, hosts, path, header)
         IN IsList(l) /\ NoRepeat(l) /\ \A m \in ToSet(l) : m.name # <<>>
<1> DEFINE seg == Segments[item.name]
           l == InputsFor(item, value, hosts, path, header)
           n == Len(hosts)
<1>1. seg \in Seq(STRING) /\ seg # <<>>
  BY ServicesAssumption
<1>2. n \in Nat /\ DOMAIN hosts = 1..n
  BY DEF IsList
<1> HIDE DEF seg
<1>3. CASE n = 1
  <2> DEFINE x == [name |-> seg, value |-> value, host |-> hosts[1], path |-> path, header |-> header]
  <2>1. l = <<x>> /\ x.name = seg
    BY <1>3 DEF InputsFor, Input, seg
  <2> DEFINE one == <<x>>
  <2> HIDE DEF x, l
  <2>2. /\ one \in Seq({x}) /\ one[1] = x /\ DOMAIN one = 1..1
        /\ \A i \in 1..1 : i = 1
    OBVIOUS
  <2> HIDE DEF one
  <2>3. IsList(one) /\ \A m \in ToSet(one) : m = x
    BY <2>2, ListIs
  <2>4. NoRepeat(one)
    BY <2>2 DEF NoRepeat
  <2>5. l = one
    BY <2>1 DEF one
  <2> QED
    BY <1>1, <2>1, <2>3, <2>4, <2>5 DEF l
<1>4. CASE n # 1
  <2> DEFINE san(i) == Sanitized[hosts[i]]
             name(i) == Append(seg, san(i))
             x(i) == [name |-> name(i), value |-> value, host |-> hosts[i], path |-> path,
                      header |-> header]
             E == {x(i) : i \in 1..n}
  <2>1. /\ DOMAIN l = 1..n /\ l = [i \in 1..n |-> l[i]]
        /\ \A i \in 1..n : l[i] = x(i)
    BY <1>2, <1>4 DEF InputsFor, Input, seg
  <2>2. \A i \in 1..n : x(i) \in E /\ x(i).name = name(i)
    OBVIOUS
  <2>3. ASSUME NEW i \in 1..n PROVE name(i) # <<>>
    <3> DEFINE T == STRING \cup {san(i)}
    <3>1. seg \in Seq(T) /\ san(i) \in T
      BY <1>1
    <3> HIDE DEF T, san
    <3> QED
      BY <3>1
  <2>4. ASSUME NEW i \in 1..n, NEW j \in 1..n, name(i) = name(j) PROVE i = j
    <3> DEFINE T == STRING \cup {san(i), san(j)}
    <3>1. seg \in Seq(T) /\ san(i) \in T /\ san(j) \in T
      BY <1>1
    <3>2. i # j => san(i) # san(j)
      <4>1. i # j => n > 1
        BY <1>2
      <4> QED
        BY <1>2, <4>1 DEF HostsFail
    <3> HIDE DEF T, san
    <3>3. san(i) = san(j)
      BY <2>4, <3>1
    <3> QED
      BY <3>2, <3>3
  <2> HIDE DEF l, x, E, name
  <2>5. l \in Seq(E)
    BY <1>2, <2>1, <2>2, ListOf
  <2>6. NoRepeat(l)
    BY <2>1, <2>2, <2>4 DEF NoRepeat
  <2>7. \A m \in ToSet(l) : m.name # <<>>
    BY <2>1, <2>2, <2>3 DEF ToSet
  <2> QED
    BY <2>5, <2>6, <2>7, ListIs DEF l
<1> QED
  BY <1>3, <1>4

\* The inputs of a secret that can be mapped, likewise.
LEMMA MapIs ==
  ASSUME NEW item, Mappable(item), NEW value
  PROVE  LET l == Map(item, value)
         IN IsList(l) /\ NoRepeat(l) /\ \A m \in ToSet(l) : m.name # <<>>
<1>1. item.name \in DOMAIN Segments /\ IsList(item.hosts)
  BY DEF Mappable
<1>2. CASE item.type = TypeOther
  <2> DEFINE hosts == IF item.hosts = <<>> THEN <<"*">> ELSE item.hosts
  <2>1. IsList(hosts) /\ ~HostsFail(hosts)
    <3>1. CASE item.hosts = <<>>
      <4>1. <<"*">> \in Seq({"*"}) /\ Len(<<"*">>) = 1
        OBVIOUS
      <4>2. IsList(<<"*">>)
        BY <4>1, ListIs
      <4> QED
        BY <3>1, <4>1, <4>2 DEF HostsFail
    <3>2. CASE item.hosts # <<>>
      BY <1>1, <1>2, <3>2 DEF Mappable, MapFails
    <3> QED
      BY <3>1, <3>2
  <2>2. Map(item, value) = InputsFor(item, value, hosts, item.path, item.header)
    BY <1>2 DEF Map, mapOtherSecret
  <2> HIDE DEF hosts
  <2> QED
    BY <1>1, <2>1, <2>2, InputsAre
<1>3. CASE item.type # TypeOther
  <2> DEFINE svc == Services[item.type]
  <2>1. item.type \in DOMAIN Services /\ ~HostsFail(svc.patterns)
    BY <1>3 DEF Mappable, MapFails, mapKnownSecretFails
  <2>2. svc.patterns \in Seq(STRING)
    BY <2>1, ServicesAssumption
  <2>3. IsList(svc.patterns)
    BY <2>2, ListIs
  <2>4. Map(item, value) = InputsFor(item, value, svc.patterns, svc.path, svc.header)
    BY <1>3 DEF Map, mapKnownSecret
  <2> HIDE DEF svc
  <2> QED
    BY <1>1, <2>1, <2>3, <2>4, InputsAre
<1> QED
  BY <1>2, <1>3

\* The inputs that no later secret replaces are the last of their names.
LEMMA KeptIsLast ==
  ASSUME IsList(used), \A i \in DOMAIN used : Mappable(used[i].item),
         NEW i \in DOMAIN used, NEW m \in Kept(i)
  PROVE  /\ IsList(onecliSecrets) /\ Lasts(onecliSecrets, m)
         /\ m.name # <<>> /\ Head(m.name) # "kubeconfig"
<1> DEFINE n == Len(used)
           L(j) == Map(used[j].item, used[j].value)
           T == [j \in 1..n |-> L(j)]
           E == UNION {ToSet(T[j]) : j \in 1..n}
<1>1. n \in Nat /\ DOMAIN used = 1..n
  BY DEF IsList
<1>2. \A j \in 1..n : IsList(T[j]) /\ NoRepeat(T[j]) /\ \A x \in ToSet(T[j]) : x.name # <<>>
  BY <1>1, MapIs
<1>3. /\ m \in ToSet(T[i]) /\ Head(m.name) # "kubeconfig"
      /\ \A j \in (i + 1)..n : \A x \in ToSet(T[j]) : x.name # m.name
  <2> DEFINE later == UNION {{x.name : x \in ToSet(L(j))} : j \in (i + 1)..n}
  <2>1. m \in ToSet(L(i)) /\ m.name \notin later /\ Head(m.name) # "kubeconfig"
    BY DEF Kept
  <2>2. \A j \in (i + 1)..n : j \in 1..n /\ \A x \in ToSet(L(j)) : x.name # m.name
    BY <1>1, <2>1
  <2> QED
    BY <1>1, <2>1, <2>2
<1>4. T = [j \in 1..n |-> T[j]]
  OBVIOUS
<1>5. onecliSecrets = FlattenSeq(T)
  BY <1>1 DEF onecliSecrets
<1> HIDE DEF T, n
<1>6. T \in [1..n -> Seq(E)]
  <2>1. ASSUME NEW j \in 1..n PROVE T[j] \in Seq(E)
    <3>1. ToSet(T[j]) \subseteq E
      OBVIOUS
    <3> QED
      BY <1>2, <3>1, Wider
  <2> QED
    BY <1>4, <2>1
<1>7. Lasts(T[i], m)
  <2>1. NoRepeat(T[i]) /\ IsList(T[i])
    BY <1>1, <1>2
  <2>2. PICK k \in DOMAIN T[i] : T[i][k] = m
    BY <1>3 DEF ToSet
  <2>3. ASSUME NEW j \in DOMAIN T[i], j > k PROVE T[i][j].name # m.name
    <3>1. j # k
      BY <2>1, <2>3 DEF IsList
    <3> QED
      BY <2>1, <2>2, <3>1 DEF NoRepeat
  <2> QED
    BY <2>2, <2>3 DEF Lasts
<1>8. \A j \in (i + 1)..n : m.name \notin NamesOf(T[j])
  BY <1>3, NamesAre
<1> HIDE DEF E
<1>9. FlattenSeq(T) \in Seq(E) /\ Lasts(FlattenSeq(T), m)
  BY <1>1, <1>6, <1>7, <1>8, LastsFlattened
<1> QED
  BY <1>1, <1>2, <1>3, <1>5, <1>9, ListIs

\* Configuring a credential leaves the other secrets alone.
LEMMA ConfigureKeeps ==
  ASSUME NEW db, NEW c, NEW files, NEW path, NEW m, Holds(db, m),
         m.name # <<>>, Head(m.name) # "kubeconfig"
  PROVE  Holds(Configure(db, c, files, path), m)
<1>1. CASE c = "gcloud"
  <2>1. \E v : Configure(db, c, files, path) = Updated(db, <<>>, v)
    BY <1>1 DEF Configure, ConnectApp
  <2> QED
    BY <2>1 DEF Updated, Holds
<1>2. CASE c # "gcloud"
  <2> DEFINE input == Input(<<"kubeconfig", files[path].current>>, token(files[path]),
                            serverHost(files[path]), "", "Authorization")
  <2>1. Configure(db, c, files, path) = ProvisionOne(db, input)
    BY <1>2 DEF Configure
  <2>2. input.name = <<"kubeconfig", files[path].current>>
    BY DEF Input
  <2>3. Head(input.name) = "kubeconfig"
    <3>1. \A x : Head(<<"kubeconfig", x>>) = "kubeconfig"
      OBVIOUS
    <3> QED
      BY <2>2, <3>1
  <2> DEFINE new == ProvisionOne(db, input)
  <2> HIDE DEF input
  <2>4. m.name # input.name
    BY <2>3
  <2>5. /\ DOMAIN new = DOMAIN db \cup {input.name}
        /\ \A x \in DOMAIN db \ {input.name} : new[x] = db[x]
    BY OneProvisioned
  <2> HIDE DEF new
  <2>6. Holds(new, m)
    BY <2>4, <2>5 DEF Holds
  <2> QED
    BY <2>1, <2>6 DEF new
<1> QED
  BY <1>1, <1>2

Standing == {"detect", "fake", "configure", "created"}

\* What was used can be mapped; the pod stands while it is filled, and has what
\* it was given.
PodInv ==
  /\ \A i \in DOMAIN used : Mappable(used[i].item)
  /\ podUp => req.runtime = "podman" /\ pc \in Standing \cup {"failed"}
  /\ req.runtime = "podman" /\ pc \in Standing => podUp
  /\ pc \notin {"configure", "created", "failed", "dumped"} => onecli = <<>>
  /\ req.runtime = "podman" /\ pc \in {"configure", "created"} =>
       \A i \in DOMAIN used : \A m \in Kept(i) : Holds(onecli, m)

\* The store has its secrets under their own names.
LEMMA StoredSecrets ==
  ASSUME WorldInv, NEW n \in DOMAIN world["secrets"]
  PROVE  IsSecret(world["secrets"][n], n)
<1>1. "secrets" \in WorldParts
  BY DEF WorldParts
<1>2. IsPart("secrets", world["secrets"])
  BY <1>1 DEF WorldInv
<1> QED
  BY <1>2 DEF IsPart

\* A step up to the call of Create, or an edit of others.
LEMMA PodInAdd ==
  ASSUME Inv, UsedInv, PodInv, AddNext, UNCHANGED podVars
  PROVE  PodInv'
<1>1. CASE MapSecret
  <2> DEFINE x == world["secrets"][NextSecret]
  <2>1. /\ NextSecret \in DOMAIN world["secrets"] /\ ~MapFails(x.item) /\ used' = Append(used, x)
        /\ pc = "secrets" /\ pc' = "secrets" /\ req' = req
    BY <1>1 DEF MapSecret, SecretMaps
  <2>2. IsSecret(x, NextSecret)
    BY <2>1, StoredSecrets DEF Inv
  <2>3. Mappable(x.item)
    BY <2>1, <2>2 DEF IsSecret, Mappable
  <2> HIDE DEF x
  <2>4. ToSet(used') = ToSet(used) \cup {x}
    BY <2>1, ListGrows DEF UsedInv
  <2>5. \A y \in ToSet(used) : Mappable(y.item)
    BY DEF PodInv, ToSet
  <2>6. \A y \in ToSet(used') : Mappable(y.item)
    BY <2>3, <2>4, <2>5
  <2>7. \A i \in DOMAIN used' : Mappable(used'[i].item)
    BY <2>6 DEF ToSet
  <2> QED
    BY <2>1, <2>7 DEF PodInv, podVars, Standing
<1>2. CASE ~MapSecret
  <2>1. UNCHANGED <<used, req>>
    BY <1>2 DEF AddNext, EditWorld, RegisterRuntimes, LoadWorkspace, LoadProjectConfig,
       LoadAgentConfig, ReadAgentSettings, SetUpAgent, AddFails
  <2>2. /\ podUp => pc' = pc
        /\ pc' \in Standing => pc' = pc
        /\ pc \in {"configure", "created", "failed", "dumped"} => pc' = pc \/ pc' \in {"failed", "dumped"}
    BY <1>2 DEF AddNext, EditWorld, RegisterRuntimes, LoadWorkspace, LoadProjectConfig,
       LoadAgentConfig, ReadAgentSettings, SetUpAgent, AddFails, AddAccepts, Step, PodInv, Standing
  <2>3. UNCHANGED Kept(1) /\ \A i : Kept(i)' = Kept(i)
    BY <2>1 DEF Kept
  <2> QED
    BY <2>1, <2>2, <2>3 DEF PodInv, podVars, Standing
<1> QED
  BY <1>1, <1>2

\* Podman's steps.
LEMMA PodInPodman ==
  ASSUME Inv, UsedInv, PodInv, PodmanNext
  PROVE  PodInv'
<1>1. /\ req.runtime = "podman" /\ req' = req /\ used' = used
      /\ pc \in CreateStates /\ pc' \in CreateStates \cup {"created", "failed"}
  BY PodmanMoves
<1>2. \A i : Kept(i)' = Kept(i)
  BY <1>1 DEF Kept
<1>3. IsList(used) /\ \A i \in DOMAIN used : Mappable(used[i].item)
  BY DEF UsedInv, PodInv
<1>4. CASE SetupOnecli
  <2>1. /\ pc = "detect" /\ pc' = "configure" /\ podUp' = podUp
        /\ onecli' = ProvisionSecrets(onecli, onecliSecrets)
    BY <1>4 DEF SetupOnecli, PodmanStep, Step
  <2>2. onecli = <<>>
    BY <2>1 DEF PodInv, Standing
  <2>3. ASSUME NEW i \in DOMAIN used, NEW m \in Kept(i) PROVE Holds(onecli', m)
    <3>1. IsList(onecliSecrets) /\ Lasts(onecliSecrets, m)
      BY <1>3, KeptIsLast
    <3>2. Holds(ProvisionSecrets(<<>>, onecliSecrets), m)
      BY <3>1, Provisioned
    <3> QED
      BY <2>1, <2>2, <3>2
  <2> QED
    BY <1>1, <1>2, <1>3, <2>1, <2>3 DEF PodInv, Standing
<1>5. CASE ConfigureCredential
  <2>1. /\ pc = "configure" /\ pc' = "configure" /\ podUp' = podUp
        /\ \E c, path : onecli' = Configure(onecli, c, world["files"], path)
    BY <1>5 DEF ConfigureCredential, PodmanStep, Step
  <2>2. ASSUME NEW i \in DOMAIN used, NEW m \in Kept(i) PROVE Holds(onecli', m)
    <3>1. Holds(onecli, m)
      BY <1>1, <2>1 DEF PodInv, Standing
    <3>2. m.name # <<>> /\ Head(m.name) # "kubeconfig"
      BY <1>3, KeptIsLast
    <3> QED
      BY <2>1, <3>1, <3>2, ConfigureKeeps
  <2> QED
    BY <1>1, <1>2, <1>3, <2>1, <2>2 DEF PodInv, Standing
<1>6. CASE PodmanFails
  <2>1. pc' = "failed" /\ podUp' \in BOOLEAN
    BY <1>6 DEF PodmanFails
  <2> QED
    BY <1>1, <1>3, <2>1 DEF PodInv, Standing
<1>7. CASE CreateContainer
  <2>1. pc = "configure" /\ pc' = "created" /\ UNCHANGED <<podUp, onecli>>
    BY <1>7 DEF CreateContainer, PodmanStep, Step
  <2> QED
    BY <1>1, <1>2, <1>3, <2>1 DEF PodInv, Standing
<1>8. CASE \/ PodmanLoadConfig \/ PrepareFeatures \/ MergeFeatureOptions \/ BuildImage
           \/ KubePlay \/ DetectCredential \/ FakeCredential
  <2>1. /\ onecli' = onecli /\ pc \notin {"configure", "created", "failed", "dumped"}
        /\ pc' \notin {"configure", "created", "failed", "dumped"}
    BY <1>8 DEF PodmanLoadConfig, PrepareFeatures, MergeFeatureOptions, BuildImage,
                KubePlay, DetectCredential, FakeCredential, PodmanStep, Step, podVars
  <2>2. podUp' <=> pc' \in {"detect", "fake"}
    BY <1>8 DEF PodmanLoadConfig, PrepareFeatures, MergeFeatureOptions, BuildImage,
                KubePlay, DetectCredential, FakeCredential, PodmanStep, Step, podVars, PodInv, Standing
  <2> QED
    BY <1>1, <1>2, <1>3, <2>1, <2>2 DEF PodInv, Standing
<1> QED
  BY <1>4, <1>5, <1>6, <1>7, <1>8 DEF PodmanNext

\* Every step.
LEMMA PodNext ==
  ASSUME Inv, UsedInv, PodInv, [Next]_vars
  PROVE  PodInv'
<1>1. CASE UNCHANGED vars
  BY <1>1 DEF vars, addVars, podVars, PodInv, Kept, Standing
<1>2. CASE SandboxNext /\ UNCHANGED podVars
  <2>1. /\ req.runtime = "openshell" /\ req' = req /\ used' = used
        /\ pc \in CreateStates /\ pc' \in CreateStates \cup {"created", "failed"}
        /\ UNCHANGED <<podUp, onecli>>
    BY <1>2, SandboxMoves DEF podVars
  <2>2. pc # "configure"
    BY <1>2 DEF SandboxNext, InterceptCredential, AddCredentialHosts, EnsureProvider,
         SandboxGateway, ListProviders, CreateSandbox, UploadCredential,
         WriteSandboxFiles, ApplyNetworkPolicy, SandboxFails, SandboxAccepts, RunsOpenShell,
         RunsInLoop, SandboxStep, Step
  <2> QED
    BY <2>1, <2>2 DEF PodInv, CreateStates, Standing
<1> QED
  BY <1>1, <1>2, PodInAdd, PodInPodman DEF Next

-----------------------------------------------------------------------------
(* The providers.                                                          *)

\* The i-th secret has an attached provider, with its value if kdn made it.
Served(i) ==
  LET provider == ProviderName[used[i].item.name]
  IN PlaceholderEnvs(used[i].item) # {} =>
       /\ provider \in ToSet(attached)
       /\ "providers" \notin world["edited"] =>
            /\ provider \in DOMAIN world["providers"]
            /\ \/ world["providers"][provider].value = used[i].value
               \/ provider \in listed.providers

\* The number of secrets that are done.
Done == Len(cfg.secrets) - Len(pending)

\* While they are made: what is pending are the last of the secrets, and what
\* was listed is what there is.
Providing ==
  /\ IsList(pending) /\ Len(pending) <= Len(cfg.secrets)
  /\ \A j \in 1..Len(pending) : pending[j] = cfg.secrets[Done + j]
  /\ "secrets" \notin world["edited"] =>
       /\ DOMAIN listed.secrets = DOMAIN world["secrets"]
       /\ \A n \in DOMAIN world["secrets"] : listed.secrets[n] = world["secrets"][n].item
       /\ \A i \in 1..Done : Served(i)

\* What the providers are, while the sandbox is created and after.
ProvidersInv ==
  /\ IsList(attached)
  /\ req.runtime = "openshell" /\ pc \in {"providers", "upload", "policy", "created"}
       /\ "providers" \notin world["edited"] =>
       listed.providers \subseteq DOMAIN world["providers"]
  /\ req.runtime = "openshell" /\ pc = "providers" => Providing
  /\ req.runtime = "openshell" /\ pc \in {"upload", "policy", "created"}
       /\ "secrets" \notin world["edited"] =>
       \A i \in 1..Len(cfg.secrets) : Served(i)

\* Others leave the providers alone, or it is noted.
LEMMA ServedStays ==
  ASSUME NEW i, Served(i), UNCHANGED <<used, attached, listed>>,
         \/ "providers" \in world'["edited"]
         \/ "providers" \notin world["edited"] /\ world'["providers"] = world["providers"]
  PROVE  Served(i)'
BY DEF Served

\* A step that leaves the secrets, the providers and what was listed alone.
LEMMA ProvidersStay ==
  ASSUME ProvidersInv, UNCHANGED <<req, used, attached, listed>>, cfg'.secrets = cfg.secrets,
         pc' = "providers" => pc = "providers" /\ pending' = pending,
         pc' \in {"upload", "policy", "created"} =>
           \/ pc \in {"upload", "policy", "created"}
           \/ pc = "providers" /\ pending = <<>>,
         \A part \in {"secrets", "providers"} :
           \/ part \in world'["edited"]
           \/ part \notin world["edited"] /\ world'[part] = world[part]
  PROVE  ProvidersInv'
<1>1. \A i : Served(i) => Served(i)'
  <2>1. \/ "providers" \in world'["edited"]
        \/ "providers" \notin world["edited"] /\ world'["providers"] = world["providers"]
    OBVIOUS
  <2> QED
    BY <2>1, ServedStays
<1>2. \/ "secrets" \in world'["edited"]
      \/ "secrets" \notin world["edited"] /\ world'["secrets"] = world["secrets"]
  OBVIOUS
<1>3. \/ "providers" \in world'["edited"]
      \/ "providers" \notin world["edited"] /\ world'["providers"] = world["providers"]
  OBVIOUS
<1>4. IsList(attached')
  BY DEF ProvidersInv
<1>5. ASSUME req'.runtime = "openshell", pc' \in {"providers", "upload", "policy", "created"},
             "providers" \notin world'["edited"]
      PROVE  listed'.providers \subseteq DOMAIN world'["providers"]
  BY <1>3, <1>5 DEF ProvidersInv
<1>6. ASSUME req'.runtime = "openshell", pc' = "providers" PROVE Providing'
  <2>1. Providing /\ pending' = pending /\ cfg'.secrets = cfg.secrets
    BY <1>6 DEF ProvidersInv
  <2>2. Done' = Done
    BY <2>1 DEF Done
  <2> QED
    BY <1>1, <1>2, <2>1, <2>2 DEF Providing
<1>7. ASSUME req'.runtime = "openshell", pc' \in {"upload", "policy", "created"},
             "secrets" \notin world'["edited"], NEW i \in 1..Len(cfg'.secrets)
      PROVE  Served(i)'
  <2>1. CASE pc \in {"upload", "policy", "created"}
    BY <1>1, <1>2, <1>7, <2>1 DEF ProvidersInv
  <2>2. CASE pc = "providers" /\ pending = <<>>
    <3>1. Providing /\ Len(pending) = 0
      BY <1>7, <2>2 DEF ProvidersInv
    <3>2. i \in 1..Done
      BY <1>7, <3>1 DEF Done
    <3> QED
      BY <1>1, <1>2, <1>7, <3>1, <3>2 DEF Providing
  <2> QED
    BY <1>7, <2>1, <2>2
<1> QED
  BY <1>4, <1>5, <1>6, <1>7 DEF ProvidersInv

\* Others' edits, and a step to a state without providers.
LEMMA ProvidersInAdd ==
  ASSUME Inv, ProvidersInv, AddNext, UNCHANGED sandboxVars
  PROVE  ProvidersInv'
<1>1. CASE EditWorld
  <2>1. UNCHANGED <<pc, cfg, req, used, pending, attached, listed>> /\ pc # "created"
    BY <1>1 DEF EditWorld, loopVars, sandboxVars, Ended
  <2>2. \A part \in {"secrets", "providers"} :
          \/ part \in world'["edited"]
          \/ part \notin world["edited"] /\ world'[part] = world[part]
    BY <1>1, EditedParts DEF Inv, WorldParts
  <2> QED
    BY <2>1, <2>2, ProvidersStay
<1>2. CASE ~EditWorld
  <2>1. pc' \notin {"providers", "upload", "policy", "created"}
    BY <1>2 DEF AddNext, RegisterRuntimes, LoadWorkspace, LoadProjectConfig,
       LoadAgentConfig, MapSecret, ReadAgentSettings, SetUpAgent, AddFails, Step
  <2>2. attached' = attached
    BY DEF sandboxVars
  <2> QED
    BY <2>1, <2>2 DEF ProvidersInv
<1> QED
  BY <1>1, <1>2

\* The providers and the secrets are listed.
LEMMA ProvidersListed ==
  ASSUME Inv, ProvidersInv, ListProviders
  PROVE  ProvidersInv'
<1> DEFINE items == [n \in DOMAIN world["secrets"] |-> world["secrets"][n].item]
<1>1. /\ pc' = "providers" /\ pending' = cfg.secrets /\ UNCHANGED <<world, cfg, attached>>
      /\ pc = "intercept"
      /\ listed' = [providers |-> DOMAIN world["providers"], secrets |-> items]
  BY DEF ListProviders, SandboxStep, Step, SandboxUnchanged
<1>2. /\ DOMAIN items = DOMAIN world["secrets"]
      /\ \A n \in DOMAIN world["secrets"] : items[n] = world["secrets"][n].item
  OBVIOUS
<1> HIDE DEF items
<1>3. listed'.providers = DOMAIN world["providers"] /\ listed'.secrets = items
  BY <1>1
<1>4. IsList(cfg.secrets)
  BY <1>1 DEF Inv, ConfigInv, BeforeLoaded, IsConfig
<1>5. Len(cfg.secrets) \in Nat
  BY <1>4 DEF IsList
<1>6. Done' = 0
  BY <1>1, <1>5 DEF Done
<1>7. Providing'
  <2>1. \A j \in 1..Len(pending') : pending'[j] = cfg'.secrets[Done' + j]
    BY <1>1, <1>5, <1>6
  <2>2. IsList(pending') /\ Len(pending') <= Len(cfg'.secrets)
    BY <1>1, <1>4, <1>5
  <2>3. 1..Done' = {}
    BY <1>6
  <2> QED
    BY <1>1, <1>2, <1>3, <2>1, <2>2, <2>3 DEF Providing
<1> QED
  BY <1>1, <1>3, <1>7 DEF ProvidersInv

\* A provider is attached, or made and attached, or none is needed.
LEMMA ProviderEnsured ==
  ASSUME Inv, UsedInv, ProvidersInv, EnsureProvider
  PROVE  ProvidersInv'
<1> DEFINE name == Head(pending)
           provider == ProviderName[name]
           item == listed.secrets[name]
           new == [type |-> providerType(item.type), envs |-> PlaceholderEnvs(item),
                   value |-> world["secrets"][name].value]
           made == ~Skipped(name) /\ ~Reused(name)
<1>0. PICK k : k = Done + 1
  OBVIOUS
<1>1. /\ req.runtime = "openshell" /\ pc = "providers" /\ pc' = "providers"
      /\ pending # <<>> /\ pending' = Tail(pending) /\ ~ProviderFails(name)
      /\ UNCHANGED <<req, used, cfg, listed>>
  BY DEF EnsureProvider, SandboxStep, Step, SandboxUnchanged
<1>2. attached' = IF Skipped(name) THEN attached ELSE Append(attached, provider)
  BY DEF EnsureProvider
<1>3. /\ made => world' = [world EXCEPT !["providers"] = Updated(world["providers"], provider, new)]
      /\ ~made => world' = world
  <2>1. "providers" \in DOMAIN world
    BY DEF Inv, WorldInv, WorldParts
  <2> QED
    BY <2>1 DEF EnsureProvider
<1>4. new.value = world["secrets"][name].value
  OBVIOUS
<1> HIDE DEF new
<1>5. /\ world'["edited"] = world["edited"] /\ world'["secrets"] = world["secrets"]
      /\ made => world'["providers"] = Updated(world["providers"], provider, new)
      /\ ~made => world'["providers"] = world["providers"]
  <2>1. CASE made
    <3>1. DOMAIN world = WorldParts \cup {"edited"}
      BY DEF Inv, WorldInv
    <3>2. {"providers", "edited", "secrets"} \subseteq DOMAIN world
      BY <3>1 DEF WorldParts
    <3> HIDE DEF made
    <3> QED
      BY <1>3, <2>1, <3>2
  <2>2. CASE ~made
    BY <1>3, <2>2
  <2> QED
    BY <2>1, <2>2
<1>6. Providing /\ IsList(attached) /\ IsConfig(cfg)
  BY <1>1 DEF ProvidersInv, Inv, ConfigInv, BeforeLoaded
<1>7. /\ IsList(attached') /\ ToSet(attached) \subseteq ToSet(attached')
      /\ ~Skipped(name) => provider \in ToSet(attached')
  <2>1. CASE Skipped(name)
    BY <1>2, <1>6, <2>1
  <2>2. CASE ~Skipped(name)
    <3> HIDE DEF provider
    <3>1. attached' = Append(attached, provider)
      BY <1>2, <2>2
    <3> QED
      BY <1>6, <3>1, ListGrows
  <2> QED
    BY <2>1, <2>2
<1>8. /\ Len(cfg.secrets) \in Nat /\ Len(pending) \in Nat /\ Len(pending) <= Len(cfg.secrets)
      /\ Len(pending) >= 1
      /\ pending \in Seq(ToSet(pending)) /\ name = pending[1]
  BY <1>1, <1>6 DEF Providing, IsConfig, IsList
<1>9. /\ Len(pending') = Len(pending) - 1 /\ pending' \in Seq(ToSet(pending))
      /\ \A j \in 1..Len(pending') : pending'[j] = pending[j + 1]
  BY <1>1, <1>8
<1>10. IsList(pending') /\ Done' = k /\ Done \in Nat /\ k \in 1..Len(cfg.secrets)
  <2>1. IsList(pending')
    BY <1>9, ListIs
  <2>2. Done' = Len(cfg.secrets) - (Len(pending) - 1) /\ Done = Len(cfg.secrets) - Len(pending)
    BY <1>1, <1>9 DEF Done
  <2> QED
    BY <1>0, <1>8, <2>1, <2>2
<1>11. name = cfg.secrets[k]
  BY <1>0, <1>6, <1>8 DEF Providing
<1>12. \A j \in 1..Len(pending') : pending'[j] = cfg'.secrets[Done' + j]
  <2> SUFFICES ASSUME NEW j \in 1..Len(pending') PROVE pending'[j] = cfg.secrets[k + j]
    BY <1>1, <1>10
  <2>1. j + 1 \in 1..Len(pending) /\ Done + (j + 1) = k + j
    BY <1>0, <1>8, <1>9, <1>10
  <2>2. pending[j + 1] = cfg.secrets[Done + (j + 1)]
    BY <1>6, <2>1 DEF Providing
  <2> QED
    BY <1>9, <2>1, <2>2
<1>13. made => name \in DOMAIN listed.secrets /\ provider \notin DOMAIN world["providers"]
  <2> SUFFICES ASSUME made PROVE name \in DOMAIN listed.secrets /\ provider \notin DOMAIN world["providers"]
    OBVIOUS
  <2>1. name \in DOMAIN listed.secrets
    BY DEF Skipped
  <2> QED
    BY <1>1, <2>1 DEF ProviderFails
<1>14. /\ DOMAIN world["providers"] \subseteq DOMAIN world'["providers"]
       /\ \A x \in DOMAIN world["providers"] : world'["providers"][x] = world["providers"][x]
       /\ made => provider \in DOMAIN world'["providers"] /\ world'["providers"][provider] = new
  <2> DEFINE old == world["providers"]
  <2>1. CASE made
    <3>1. /\ DOMAIN Updated(old, provider, new) = DOMAIN old \cup {provider}
          /\ Updated(old, provider, new)[provider] = new
          /\ \A y \in DOMAIN old \ {provider} : Updated(old, provider, new)[y] = old[y]
      <4> HIDE DEF old, provider
      <4> QED
        BY DEF Updated
    <3>2. provider \notin DOMAIN old /\ world'["providers"] = Updated(old, provider, new)
      BY <1>5, <1>13, <2>1
    <3> HIDE DEF provider
    <3> QED
      BY <3>1, <3>2
  <2>2. CASE ~made
    BY <1>5, <2>2
  <2> QED
    BY <2>1, <2>2
<1>15. \A i : Served(i) => Served(i)'
  <2> HIDE DEF made, provider, name
  <2> QED
    BY <1>1, <1>5, <1>7, <1>14 DEF Served
<1>16. ASSUME req.runtime = "openshell", pc' \in {"providers", "upload", "policy", "created"},
              "providers" \notin world'["edited"]
       PROVE  listed'.providers \subseteq DOMAIN world'["providers"]
  <2>1. listed.providers \subseteq DOMAIN world["providers"]
    BY <1>1, <1>5, <1>16 DEF ProvidersInv
  <2> QED
    BY <1>1, <1>14, <2>1
<1>17. ASSUME "secrets" \notin world["edited"] PROVE Served(k)'
  <2>1. k \in 1..Len(used)
    BY <1>1, <1>10 DEF UsedInv, Early
  <2>2. /\ cfg.secrets[k] \in DOMAIN world["secrets"]
        /\ used[k] = world["secrets"][cfg.secrets[k]]
    BY <1>1, <1>17, <2>1 DEF UsedInv, UsedAre, Early
  <2>3. used[k] = world["secrets"][name] /\ name \in DOMAIN world["secrets"]
    BY <1>11, <2>2
  <2>4. used[k].item.name = name
    BY <2>3, StoredSecrets DEF Inv, IsSecret
  <2>5. name \in DOMAIN listed.secrets /\ item = used[k].item
    BY <1>6, <1>17, <2>3 DEF Providing
  <2>6. CASE Skipped(name)
    <3>1. PlaceholderEnvs(used[k].item) = {}
      BY <2>5, <2>6 DEF Skipped
    <3> QED
      BY <1>1, <3>1 DEF Served
  <2>7. CASE ~Skipped(name) /\ Reused(name)
    <3>1. provider \in listed.providers
      BY <2>7 DEF Reused
    <3>2. "providers" \notin world'["edited"] => provider \in DOMAIN world'["providers"]
      BY <1>1, <1>16, <3>1
    <3> HIDE DEF name
    <3>3. ProviderName[used[k].item.name] = provider
      BY <2>4
    <3> HIDE DEF provider
    <3> QED
      BY <1>1, <1>7, <2>7, <3>1, <3>2, <3>3 DEF Served
  <2>8. CASE made
    <3>1. /\ provider \in DOMAIN world'["providers"] /\ world'["providers"][provider].value = used[k].value
          /\ provider \in ToSet(attached')
      BY <1>4, <1>7, <1>14, <2>3, <2>8
    <3> HIDE DEF name
    <3>2. ProviderName[used[k].item.name] = provider
      BY <2>4
    <3> HIDE DEF provider
    <3> QED
      BY <1>1, <3>1, <3>2 DEF Served
  <2> QED
    BY <2>6, <2>7, <2>8
<1>18. Providing'
  <2>1. IsList(pending') /\ Len(pending') <= Len(cfg'.secrets)
    BY <1>1, <1>8, <1>9, <1>10
  <2>2. ASSUME "secrets" \notin world["edited"], NEW i \in 1..Done' PROVE Served(i)'
    <3>1. i \in 1..Done \/ i = k
      BY <1>0, <1>10
    <3>2. \A j \in 1..Done : Served(j)
      BY <1>6, <2>2 DEF Providing
    <3> QED
      BY <1>15, <1>17, <2>2, <3>1, <3>2
  <2> QED
    BY <1>1, <1>5, <1>6, <1>12, <2>1, <2>2 DEF Providing
<1> QED
  BY <1>1, <1>7, <1>16, <1>18 DEF ProvidersInv

\* OpenShell's steps.
LEMMA ProvidersInSandbox ==
  ASSUME Inv, UsedInv, ProvidersInv, SandboxNext
  PROVE  ProvidersInv'
<1>1. UNCHANGED <<req, used>> /\ cfg'.secrets = cfg.secrets
  BY SandboxMoves, SandboxKeeps
<1>2. CASE ListProviders
  BY <1>2, ProvidersListed
<1>3. CASE EnsureProvider
  BY <1>3, ProviderEnsured
<1>4. CASE SandboxGateway \/ InterceptCredential \/ AddCredentialHosts \/ SandboxFails
  <2>1. attached' = attached /\ pc' \notin {"providers", "upload", "policy", "created"}
    BY <1>4 DEF SandboxGateway, InterceptCredential, AddCredentialHosts, SandboxFails,
                SandboxStep, Step, sandboxVars
  <2> QED
    BY <2>1 DEF ProvidersInv
<1>5. CASE CreateSandbox \/ UploadCredential \/ WriteSandboxFiles \/ ApplyNetworkPolicy
  <2>1. /\ UNCHANGED <<world, attached, listed>>
        /\ pc' \in {"upload", "policy", "created"}
        /\ pc \in {"upload", "policy"} \/ (pc = "providers" /\ pending = <<>>)
    BY <1>5 DEF CreateSandbox, UploadCredential, WriteSandboxFiles, ApplyNetworkPolicy,
                SandboxStep, Step
  <2>2. \A part \in {"secrets", "providers"} :
          \/ part \in world'["edited"]
          \/ part \notin world["edited"] /\ world'[part] = world[part]
    BY <2>1
  <2> QED
    BY <1>1, <2>1, <2>2, ProvidersStay
<1> QED
  BY <1>2, <1>3, <1>4, <1>5 DEF SandboxNext

\* Every step.
LEMMA ProvidersNext ==
  ASSUME Inv, UsedInv, ProvidersInv, [Next]_vars
  PROVE  ProvidersInv'
<1>1. CASE UNCHANGED vars
  <2>1. UNCHANGED <<world, pc, req, cfg, used, pending, attached, listed>>
    BY <1>1 DEF vars, addVars, loopVars, sandboxVars
  <2>2. \A part \in {"secrets", "providers"} :
          \/ part \in world'["edited"]
          \/ part \notin world["edited"] /\ world'[part] = world[part]
    BY <2>1
  <2> QED
    BY <2>1, <2>2, ProvidersStay
<1>2. CASE PodmanNext /\ UNCHANGED sandboxVars
  <2>1. req'.runtime = "podman" /\ attached' = attached
    BY <1>2, PodmanMoves DEF sandboxVars
  <2> QED
    BY <2>1 DEF ProvidersInv
<1> QED
  BY <1>1, <1>2, ProvidersInAdd, ProvidersInSandbox DEF Next

\* What OneCLI and the providers are given.  Podman's pod stands while it is filled
\* and once it is, and may stand after a failure; its OneCLI has, from setupOnecli (podman/create.go)
\* on, the inputs no later secret replaces; EnsureProviders (openshell/providers.go)
\* has, for the secrets it has gone through, a provider attached.
THEOREM SecretsInvariance == Spec => [](PodInv /\ ProvidersInv)
<1>1. CreationInit => PodInv /\ ProvidersInv
  <2>1. CreationInit => /\ pc = "start" /\ used = <<>> /\ podUp = FALSE /\ onecli = <<>>
                        /\ attached = <<>>
    BY DEF CreationInit, Init, PodmanInit, SandboxInit, Nothing
  <2>2. IsList(<<>>) /\ DOMAIN <<>> = {}
    BY DEF IsList, ToSet
  <2> QED
    BY <2>1, <2>2 DEF PodInv, ProvidersInv, Standing
<1>2. Inv /\ UsedInv /\ [Next]_vars /\ PodInv /\ ProvidersInv => PodInv' /\ ProvidersInv'
  BY PodNext, ProvidersNext
<1>3. Spec => [](UsedInv)
  BY CreateInvariance, PTL
<1> QED
  BY <1>1, <1>2, <1>3, Invariance, PTL DEF Spec

\* The value of every secret the workspace lists is in OneCLI for each of its hosts
\* (onecli/provisioner.go, ProvisionSecrets) or in a provider that is attached to the
\* sandbox.
THEOREM SecretsAreInjected == Spec => []SecretsInjected
<1>1. Inv /\ UsedInv /\ PodInv /\ ProvidersInv => SecretsInjected
  <2> SUFFICES ASSUME Inv, UsedInv, PodInv, ProvidersInv PROVE SecretsInjected
    OBVIOUS
  <2>1. PodmanCreated => podUp
    BY DEF PodInv, PodmanCreated, Standing
  <2>2. ASSUME PodmanCreated, NEW i \in DOMAIN used, NEW m \in Kept(i) PROVE Holds(onecli, m)
    BY <2>2 DEF PodInv, PodmanCreated
  <2>3. ASSUME SandboxCreated, "secrets" \notin world["edited"], NEW i \in DOMAIN used
        PROVE  Served(i)
    <3>1. Len(used) = Len(cfg.secrets) /\ DOMAIN used = 1..Len(used)
      BY <2>3 DEF UsedInv, IsList, SandboxCreated, Early
    <3> QED
      BY <2>3, <3>1 DEF ProvidersInv, SandboxCreated
  <2> QED
    BY <2>1, <2>2, <2>3 DEF SecretsInjected, Holds, Served
<1>2. Spec => [](UsedInv)
  BY CreateInvariance, PTL
<1> QED
  BY <1>1, <1>2, Invariance, SecretsInvariance, PTL

-----------------------------------------------------------------------------
(* The credentials.  They are looked for one after the other; each that is *)
(* found is faked or taken out of the mounts, and later handed over.       *)

\* A mount that can be a credential's.
MountOf(c, m) ==
  /\ c \in CredentialNames
  /\ m.target.root \in {"/", "SOURCES", "HOME"}
  /\ resolveTarget(m.target) \in {ContainerDir(c), ContainerFilePath(c)}

\* A credential that can be intercepted is.
Wanted(c) ==
  Found(c) # <<>>
    /\ (req.runtime = "podman" => ~FakeFileFails(c, world["files"], Head(Found(c)).path))
    => \E a \in ToSet(active) : a.cred = c

\* The credentials still to be looked for.
Rests == {<<"gcloud", "kubeconfig">>, <<"kubeconfig">>, <<>>}

\* The last elements of a list.
Suffix(p, list) ==
  /\ IsList(p) /\ Len(p) <= Len(list)
  /\ \A j \in 1..Len(p) : p[j] = list[Len(list) - Len(p) + j]

\* The credentials intercepted so far.
ActiveInv ==
  /\ \A i, j \in DOMAIN active : i # j => active[i].cred # active[j].cred
  /\ \A a \in ToSet(active) :
       /\ MountOf(a.cred, a.mount)
       /\ req.runtime = "podman" =>
            /\ a.fake.token = "placeholder"
            /\ "files" \notin world["edited"] /\ a.cred = "kubeconfig" =>
                 a.fake.host = serverHost(world["files"][a.path])
  /\ pc \in {"features", "options", "pod"} => active = <<>>

Detecting == {"detect", "fake", "intercept", "hosts"}

\* While they are looked for.
DetectInv ==
  pc \in Detecting =>
    /\ pending \in Rests
    /\ \A a \in ToSet(active) : a.cred \notin ToSet(pending)
    /\ pc \in {"fake", "hosts"} =>
         /\ pending # <<>> /\ detected # <<>>
         /\ Head(detected).cred = Head(pending) /\ MountOf(Head(pending), Head(detected).mount)
    /\ "files" \notin world["edited"] =>
         /\ \A c \in CredentialNames \ ToSet(pending) : Wanted(c)
         /\ pc = "fake" => detected = Found(Head(pending))

\* OneCLI has the token of the i-th.
Configured(i) ==
  LET k == world["files"][active[i].path]
      name == <<"kubeconfig", k.current>>
  IN "files" \notin world["edited"] /\ active[i].cred = "kubeconfig" =>
       /\ name \in DOMAIN onecli
       /\ onecli[name].host = serverHost(k) /\ onecli[name].value = token(k)

\* The sandbox has the file of the i-th.
Uploaded(i) ==
  remapContainerPath(ContainerFilePath(active[i].cred)) \in DOMAIN sandbox.files

\* After they were looked for.
GivenInv ==
  /\ pc \in {"configure", "providers", "upload", "policy", "created"}
       /\ "files" \notin world["edited"] =>
       \A c \in CredentialNames : Wanted(c)
  /\ pc \in {"configure", "upload"} => Suffix(pending, active)
  /\ pc = "configure" => \A i \in 1..(Len(active) - Len(pending)) : Configured(i)
  /\ pc \in {"upload", "policy"} => "files" \in DOMAIN sandbox
  /\ pc = "upload" => \A i \in 1..(Len(active) - Len(pending)) : Uploaded(i)
  /\ pc = "policy" => \A i \in 1..Len(active) : Uploaded(i)
  /\ pc = "created" => CredentialsFaked

\* All of it: CredentialsFaked alone says nothing before the end.
FakesInv == ActiveInv /\ DetectInv /\ GivenInv

\* The name under the home directory that a credential's paths go through.
Mark(c) == IF c = "gcloud" THEN ".config" ELSE ".kube"

\* Two lists, joined: its elements.
LEMMA ElementsOf ==
  ASSUME NEW E, NEW a \in Seq(E), NEW b \in Seq(E)
  PROVE  /\ a \o b \in Seq(E) /\ Len(a) \in Nat /\ Len(b) \in Nat
         /\ Len(a \o b) = Len(a) + Len(b)
         /\ \A i \in 1..Len(a) : (a \o b)[i] = a[i]
         /\ \A i \in 1..Len(b) : (a \o b)[Len(a) + i] = b[i]
<1> DEFINE r == a \o b
           M == Len(a)
           N == Len(b)
<1>1. /\ M \in Nat /\ N \in Nat /\ r \in Seq(E) /\ Len(r) = M + N
      /\ \A i \in 1..M : r[i] = a[i]
      /\ \A i \in 1..N : r[M + i] = b[i]
  OBVIOUS
<1> QED
  BY <1>1

\* Two lists, the first of two elements.
LEMMA AfterTwo ==
  ASSUME NEW E, NEW s \in Seq(E), NEW t \in Seq(E), Len(s) = 2, Len(t) \in {1, 2}
  PROVE  /\ s \o t \in Seq(E) /\ Len(s \o t) \in {3, 4}
         /\ (s \o t)[1] = s[1] /\ (s \o t)[3] = t[1]
<1>1. 1 \in 1..Len(s) /\ 1 \in 1..Len(t)
  OBVIOUS
<1> DEFINE r == s \o t
<1>2. /\ r \in Seq(E) /\ Len(r) = Len(s) + Len(t)
      /\ \A i \in 1..Len(s) : r[i] = s[i]
      /\ \A i \in 1..Len(t) : r[Len(s) + i] = t[i]
  BY ElementsOf
<1> HIDE DEF r
<1>3. r[1] = s[1] /\ r[Len(s) + 1] = t[1]
  BY <1>1, <1>2
<1>4. Len(s) + 1 = 3 /\ Len(s) + Len(t) \in {3, 4}
  <2>1. Len(t) = 1 \/ Len(t) = 2
    OBVIOUS
  <2>2. 2 + 1 = 3 /\ 2 + 2 = 4
    OBVIOUS
  <2> QED
    BY <2>1, <2>2
<1> QED
  BY <1>2, <1>3, <1>4 DEF r

\* The credentials' paths.
LEMMA PathsAre ==
  ASSUME NEW c \in CredentialNames
  PROVE  \A p \in {ContainerDir(c), ContainerFilePath(c)} :
           Len(p) \in {3, 4, 5} /\ p[1] = "home" /\ p[3] = Mark(c)
<1> DEFINE E == {"home", "agent", ".config", "gcloud", ".kube", FileName(c)}
           d == ContainerDir(c)
<1>1. ContainerHome \in Seq(E) /\ Len(ContainerHome) = 2 /\ ContainerHome[1] = "home"
  BY DEF ContainerHome
<1>2. d \in Seq(E) /\ Len(d) \in {3, 4} /\ d[1] = "home" /\ d[3] = Mark(c)
  <2>1. CASE c = "gcloud"
    <3> DEFINE t == <<".config", "gcloud">>
    <3>1. t \in Seq(E) /\ Len(t) = 2 /\ t[1] = ".config"
      OBVIOUS
    <3>2. d = ContainerHome \o t /\ Mark(c) = ".config"
      BY <2>1 DEF ContainerDir, Mark
    <3> HIDE DEF E, t, d
    <3>3. /\ ContainerHome \o t \in Seq(E) /\ Len(ContainerHome \o t) \in {3, 4}
          /\ (ContainerHome \o t)[1] = "home" /\ (ContainerHome \o t)[3] = t[1]
      BY <1>1, <3>1, AfterTwo
    <3> QED
      BY <3>1, <3>2, <3>3
  <2>2. CASE c # "gcloud"
    <3> DEFINE t == <<".kube">>
    <3>1. t \in Seq(E) /\ Len(t) = 1 /\ t[1] = ".kube"
      OBVIOUS
    <3>2. d = ContainerHome \o t /\ Mark(c) = ".kube"
      BY <2>2 DEF ContainerDir, Mark
    <3> HIDE DEF E, t, d
    <3>3. /\ ContainerHome \o t \in Seq(E) /\ Len(ContainerHome \o t) \in {3, 4}
          /\ (ContainerHome \o t)[1] = "home" /\ (ContainerHome \o t)[3] = t[1]
      BY <1>1, <3>1, AfterTwo
    <3> QED
      BY <3>1, <3>2, <3>3
  <2> QED
    BY <2>1, <2>2
<1>3. FileName(c) \in E /\ ContainerFilePath(c) = Append(d, FileName(c))
  BY DEF ContainerFilePath
<1> HIDE DEF E, d
<1>4. Len(Append(d, FileName(c))) = Len(d) + 1
      /\ \A i \in 1..Len(d) : Append(d, FileName(c))[i] = d[i]
  BY <1>2, <1>3
<1>5. 1 \in 1..Len(d) /\ 3 \in 1..Len(d)
  BY <1>2
<1> DEFINE p == Append(d, FileName(c))
<1>6. p[1] = d[1] /\ p[3] = d[3] /\ Len(p) = Len(d) + 1
  BY <1>4, <1>5
<1>7. Len(d) + 1 \in {4, 5}
  <2>1. Len(d) = 3 \/ Len(d) = 4
    BY <1>2
  <2>2. 3 + 1 = 4 /\ 4 + 1 = 5
    OBVIOUS
  <2> QED
    BY <2>1, <2>2
<1> HIDE DEF p
<1>8. Len(p) \in {3, 4, 5} /\ p[1] = "home" /\ p[3] = Mark(c)
  BY <1>2, <1>6, <1>7
<1> QED
  BY <1>2, <1>3, <1>8 DEF d, p

\* A path is one credential's only, and the sources are none's.
LEMMA PathsApart ==
  /\ \A c, b \in CredentialNames :
       /\ ContainerFilePath(b) \in {ContainerDir(c), ContainerFilePath(c)} => b = c
       /\ ContainerDir(b) \in {ContainerDir(c), ContainerFilePath(c)} => b = c
  /\ \A c \in CredentialNames :
       <<"workspace", "sources">> \notin {ContainerDir(c), ContainerFilePath(c)}
<1>1. \A c, b \in CredentialNames : Mark(b) = Mark(c) => b = c
  BY DEF Mark, CredentialNames
<1>2. Len(<<"workspace", "sources">>) = 2
  OBVIOUS
<1> QED
  BY <1>1, <1>2, PathsAre

\* Where it is mounted is where it was found.
LEMMA MountTarget ==
  ASSUME NEW c, NEW m, MountOf(c, m)
  PROVE  resolveTargetPath(m.target) \in {ContainerDir(c), ContainerFilePath(c)}
<1> DEFINE t == m.target
<1>1. CASE t.root = "SOURCES"
  <2>1. resolveTarget(t) = <<t.root, t.up, t.name>>
    BY <1>1 DEF resolveTarget
  <2>2. resolveTarget(t)[1] = "SOURCES"
    BY <1>1, <2>1
  <2> QED
    BY <2>2, PathsAre DEF MountOf
<1>2. CASE t.root # "SOURCES"
  <2>1. resolveTargetPath(t) = resolveTarget(t)
    BY <1>2 DEF MountOf, resolveTarget, resolveTargetPath
  <2> QED
    BY <2>1 DEF MountOf
<1> QED
  BY <1>1, <1>2

\* What is to be looked for next.
LEMMA Pendings ==
  /\ CredentialList \in Rests /\ ToSet(CredentialList) = CredentialNames /\ ToSet(<<>>) = {}
  /\ \A p \in Rests : p # <<>> =>
       /\ Head(p) \in CredentialNames /\ Tail(p) \in Rests
       /\ Head(p) \notin ToSet(Tail(p)) /\ ToSet(p) = {Head(p)} \cup ToSet(Tail(p))
<1>1. /\ ToSet(<<>>) = {} /\ ToSet(<<"kubeconfig">>) = {"kubeconfig"}
      /\ ToSet(<<"gcloud", "kubeconfig">>) = {"gcloud", "kubeconfig"}
  BY DEF ToSet
<1>2. /\ Head(<<"gcloud", "kubeconfig">>) = "gcloud"
      /\ Tail(<<"gcloud", "kubeconfig">>) = <<"kubeconfig">>
      /\ Head(<<"kubeconfig">>) = "kubeconfig" /\ Tail(<<"kubeconfig">>) = <<>>
  OBVIOUS
<1>3. CredentialList \in Rests /\ ToSet(CredentialList) = CredentialNames
  BY <1>1 DEF Rests, CredentialList, CredentialNames
<1>4. ASSUME NEW p \in Rests, p # <<>>
      PROVE  /\ Head(p) \in CredentialNames /\ Tail(p) \in Rests
             /\ Head(p) \notin ToSet(Tail(p)) /\ ToSet(p) = {Head(p)} \cup ToSet(Tail(p))
  <2>1. CASE p = <<"kubeconfig">>
    BY <1>1, <1>2, <2>1 DEF Rests, CredentialNames
  <2>2. CASE p = <<"gcloud", "kubeconfig">>
    BY <1>1, <1>2, <2>2 DEF Rests, CredentialNames
  <2> QED
    BY <1>4, <2>1, <2>2 DEF Rests
<1> QED
  BY <1>1, <1>3, <1>4

\* The next of the last elements.
LEMMA SuffixTail ==
  ASSUME NEW p, NEW list, IsList(list), Suffix(p, list), p # <<>>
  PROVE  LET k == Len(list) - Len(p) + 1
         IN /\ Suffix(Tail(p), list) /\ k \in 1..Len(list) /\ Head(p) = list[k]
            /\ Len(list) - Len(Tail(p)) = k
<1>1. p \in Seq(ToSet(p)) /\ Len(p) \in Nat /\ Len(list) \in Nat /\ Len(p) <= Len(list)
  BY DEF Suffix, IsList
<1>2. Tail(p) \in Seq(ToSet(p)) /\ Len(Tail(p)) = Len(p) - 1 /\ Len(p) >= 1 /\ Head(p) = p[1]
      /\ \A j \in 1..Len(Tail(p)) : Tail(p)[j] = p[j + 1]
  BY <1>1
<1>3. IsList(Tail(p))
  BY <1>2, ListIs
<1>4. ASSUME NEW j \in 1..Len(Tail(p))
      PROVE  Tail(p)[j] = list[Len(list) - Len(Tail(p)) + j]
  <2>1. j + 1 \in 1..Len(p) /\ Len(list) - Len(p) + (j + 1) = Len(list) - Len(Tail(p)) + j
    BY <1>1, <1>2
  <2>2. p[j + 1] = list[Len(list) - Len(p) + (j + 1)]
    BY <2>1 DEF Suffix
  <2> QED
    BY <1>2, <2>1, <2>2
<1>5. Head(p) = list[Len(list) - Len(p) + 1]
  BY <1>1, <1>2 DEF Suffix
<1> QED
  BY <1>1, <1>2, <1>3, <1>4, <1>5 DEF Suffix

\* A list is all of its last elements.
LEMMA SuffixAll ==
  ASSUME NEW list, IsList(list)
  PROVE  Suffix(list, list)
<1>1. Len(list) \in Nat /\ \A j \in 1..Len(list) : Len(list) - Len(list) + j = j
  BY DEF IsList
<1> QED
  BY <1>1 DEF Suffix

-----------------------------------------------------------------------------
(* What is found.                                                          *)

\* Detect looks at the mount.
UsableMount(c, m, files) ==
  /\ resolveTarget(m.target) \in {ContainerDir(c), ContainerFilePath(c)}
  /\ c # "gcloud" => loads(files, CandidateFile(c, m))

\* It takes it, if it is the first it looks at.
Takes(c, m, files) ==
  /\ c = "kubeconfig" => isTokenBased(files[CandidateFile(c, m)])
  /\ CandidateFile(c, m) \in DOMAIN files

\* The i-th is the first of them.
IsFirst(c, list, files, i) ==
  /\ i \in 1..Len(list) /\ UsableMount(c, list[i], files)
  /\ \A j \in 1..Len(list) : UsableMount(c, list[j], files) => i <= j

\* Found, in any list of mounts.
FoundIn(c, list, files) ==
  LET i == Detect(c, list, files)
      path == CandidateFile(c, list[i])
  IN IF i # 0 /\ path \in DOMAIN files
     THEN <<[cred |-> c, path |-> path, mount |-> list[i]]>> ELSE <<>>

\* It is in the configuration's.
LEMMA FoundHere ==
  ASSUME NEW c
  PROVE  Found(c) = FoundIn(c, cfg.mounts, world["files"])
BY DEF Found, FoundIn

\* What Detect returns.
LEMMA DetectIs ==
  ASSUME NEW list, IsList(list), NEW files, NEW c
  PROVE  /\ Detect(c, list, files) # 0 =>
              /\ IsFirst(c, list, files, Detect(c, list, files))
              /\ c = "kubeconfig" =>
                   isTokenBased(files[CandidateFile(c, list[Detect(c, list, files)])])
         /\ \A i : IsFirst(c, list, files, i) /\ Takes(c, list[i], files)
                   => Detect(c, list, files) = i
<1> DEFINE N == Len(list)
           usable == IF c = "gcloud" THEN Candidates(c, list)
                     ELSE {i \in Candidates(c, list) : loads(files, CandidateFile(c, list[i]))}
           first == CHOOSE i \in usable : \A j \in usable : i <= j
           k == Detect(c, list, files)
<1>1. N \in Nat /\ DOMAIN list = 1..N
  BY DEF IsList
<1>2. \A i : i \in usable <=> i \in 1..N /\ UsableMount(c, list[i], files)
  BY <1>1 DEF Candidates, UsableMount
<1>3. k = IF usable = {} THEN 0
          ELSE IF c = "kubeconfig" /\ ~isTokenBased(files[CandidateFile(c, list[first])]) THEN 0
          ELSE first
  BY DEF Detect
<1> HIDE DEF usable, k
<1>4. ASSUME usable # {} PROVE IsFirst(c, list, files, first)
  <2>1. usable \subseteq 1..N
    BY <1>2
  <2>2. Min(usable) \in usable /\ \A j \in usable : Min(usable) <= j
    BY <1>1, <1>4, <2>1, MinOf
  <2>3. first \in usable /\ \A j \in usable : first <= j
    BY <2>2
  <2> HIDE DEF first
  <2> QED
    BY <1>2, <2>3 DEF IsFirst
<1>5. ASSUME NEW i, IsFirst(c, list, files, i) PROVE usable # {} /\ first = i
  <2>1. i \in usable
    BY <1>2, <1>5 DEF IsFirst
  <2>2. IsFirst(c, list, files, first)
    BY <1>4, <2>1
  <2> HIDE DEF first
  <2>3. i <= first /\ first <= i /\ i \in Nat /\ first \in Nat
    BY <1>1, <1>5, <2>2 DEF IsFirst
  <2> QED
    BY <2>1, <2>3
<1> HIDE DEF first
<1>6. k # 0 => usable # {} /\ k = first
               /\ (c = "kubeconfig" => isTokenBased(files[CandidateFile(c, list[first])]))
  BY <1>3
<1>7. ASSUME NEW i, IsFirst(c, list, files, i), Takes(c, list[i], files) PROVE k = i
  BY <1>3, <1>5, <1>7 DEF Takes
<1> QED
  BY <1>4, <1>6, <1>7 DEF k

\* What was found, and when.
LEMMA FoundAt ==
  ASSUME NEW list, IsList(list), NEW files, NEW c
  PROVE  /\ FoundIn(c, list, files) # <<>> =>
              \E i : /\ IsFirst(c, list, files, i) /\ Takes(c, list[i], files)
                     /\ FoundIn(c, list, files) =
                          <<[cred |-> c, path |-> CandidateFile(c, list[i]), mount |-> list[i]]>>
         /\ (\E i : IsFirst(c, list, files, i) /\ Takes(c, list[i], files))
              => FoundIn(c, list, files) # <<>>
<1> DEFINE k == Detect(c, list, files)
<1>1. /\ k # 0 => /\ IsFirst(c, list, files, k)
                  /\ c = "kubeconfig" => isTokenBased(files[CandidateFile(c, list[k])])
      /\ \A i : IsFirst(c, list, files, i) /\ Takes(c, list[i], files) => k = i
  BY DetectIs
<1>2. FoundIn(c, list, files) =
        IF k # 0 /\ CandidateFile(c, list[k]) \in DOMAIN files
        THEN <<[cred |-> c, path |-> CandidateFile(c, list[k]), mount |-> list[k]]>> ELSE <<>>
  BY DEF FoundIn
<1> HIDE DEF k
<1>3. ASSUME FoundIn(c, list, files) # <<>>
      PROVE  /\ IsFirst(c, list, files, k) /\ Takes(c, list[k], files)
             /\ FoundIn(c, list, files) =
                  <<[cred |-> c, path |-> CandidateFile(c, list[k]), mount |-> list[k]]>>
  BY <1>1, <1>2, <1>3 DEF Takes
<1>4. ASSUME NEW i, IsFirst(c, list, files, i), Takes(c, list[i], files)
      PROVE  FoundIn(c, list, files) # <<>>
  <2>1. k = i /\ i # 0
    BY <1>1, <1>4 DEF IsFirst
  <2>2. \A x : <<x>> # <<>>
    OBVIOUS
  <2> QED
    BY <1>2, <1>4, <2>1, <2>2 DEF Takes
<1> QED
  BY <1>3, <1>4

\* A credential is found at one of its paths.
LEMMA FoundIs ==
  ASSUME IsConfig(cfg), validate(cfg), NEW c \in CredentialNames, Found(c) # <<>>
  PROVE  /\ Found(c) = <<Head(Found(c))>> /\ Head(Found(c)).cred = c
         /\ MountOf(c, Head(Found(c)).mount)
         /\ \E i \in DOMAIN cfg.mounts : Head(Found(c)).mount = cfg.mounts[i]
<1> DEFINE list == cfg.mounts
           files == world["files"]
<1>1. IsList(list) /\ ValidMounts(list)
  BY DEF IsConfig, validate
<1>2. Found(c) = FoundIn(c, list, files)
  BY FoundHere
<1> HIDE DEF list, files
<1>3. PICK i : /\ IsFirst(c, list, files, i)
               /\ Found(c) = <<[cred |-> c, path |-> CandidateFile(c, list[i]), mount |-> list[i]]>>
  BY <1>1, <1>2, FoundAt
<1> DEFINE d == [cred |-> c, path |-> CandidateFile(c, list[i]), mount |-> list[i]]
<1>4. d.cred = c /\ d.mount = list[i] /\ Found(c) = <<d>>
  BY <1>3
<1> HIDE DEF d
<1>5. Head(Found(c)) = d
  BY <1>4
<1>6. i \in DOMAIN list /\ list[i] \in ToSet(list)
  BY <1>1, <1>3 DEF IsFirst, IsList, ToSet
<1>7. MountOf(c, list[i])
  BY <1>1, <1>3, <1>6 DEF MountOf, IsFirst, UsableMount, ValidMounts, isValidTargetPath
<1> QED
  BY <1>4, <1>5, <1>6, <1>7 DEF list

\* A list without its k-th item: its elements.
LEMMA ElementsLeft ==
  ASSUME NEW list, IsList(list), NEW k \in 1..Len(list)
  PROVE  /\ Len(list) \in Nat /\ IsList(RemoveAt(list, k)) /\ Len(RemoveAt(list, k)) = Len(list) - 1
         /\ \A j \in 1..(Len(list) - 1) :
              RemoveAt(list, k)[j] = list[IF j < k THEN j ELSE j + 1]
<1> DEFINE E == ToSet(list)
           N == Len(list)
           a == SubSeq(list, 1, k - 1)
           b == SubSeq(list, k + 1, N)
           r == RemoveAt(list, k)
<1>1. list \in Seq(E) /\ N \in Nat /\ k \in 1..N
  BY DEF IsList
<1> HIDE DEF E
<1>2. a \in Seq(E) /\ Len(a) = k - 1 /\ \A j \in 1..(k - 1) : a[j] = list[j]
  BY <1>1
<1>3. b \in Seq(E) /\ Len(b) = N - k /\ \A j \in 1..(N - k) : b[j] = list[k + j]
  BY <1>1
<1>4. r = a \o b
  BY DEF RemoveAt
<1> HIDE DEF a, b, r
<1>5. /\ r \in Seq(E) /\ Len(r) = Len(a) + Len(b)
      /\ \A i \in 1..Len(a) : r[i] = a[i]
      /\ \A i \in 1..Len(b) : r[Len(a) + i] = b[i]
  <2>1. a \in Seq(E) /\ b \in Seq(E)
    BY <1>2, <1>3
  <2> QED
    BY <1>4, <2>1, ElementsOf
<1>6. IsList(r) /\ Len(r) = N - 1
  BY <1>1, <1>2, <1>3, <1>5, ListIs
<1>7. ASSUME NEW j \in 1..(N - 1) PROVE r[j] = list[IF j < k THEN j ELSE j + 1]
  <2>1. CASE j < k
    <3>1. j \in 1..(k - 1)
      BY <1>1, <2>1
    <3> QED
      BY <1>2, <1>5, <2>1, <3>1
  <2>2. CASE ~(j < k)
    <3>1. j - k + 1 \in 1..(N - k) /\ (k - 1) + (j - k + 1) = j /\ k + (j - k + 1) = j + 1
      BY <1>1, <2>2
    <3>2. r[(k - 1) + (j - k + 1)] = b[j - k + 1] /\ b[j - k + 1] = list[k + (j - k + 1)]
      BY <1>2, <1>3, <1>5, <3>1
    <3> QED
      BY <2>2, <3>1, <3>2
  <2> QED
    BY <2>1, <2>2
<1> QED
  BY <1>1, <1>6, <1>7 DEF r

\* Without another one's mount, no more is found.
LEMMA OtherRemoved ==
  ASSUME NEW list, IsList(list), NEW k \in 1..Len(list), NEW files, NEW c,
         ~UsableMount(c, list[k], files), FoundIn(c, RemoveAt(list, k), files) # <<>>
  PROVE  FoundIn(c, list, files) # <<>>
<1> DEFINE r == RemoveAt(list, k)
           N == Len(list)
           sh(j) == IF j < k THEN j ELSE j + 1
<1>1. /\ N \in Nat /\ k \in 1..N /\ IsList(r) /\ Len(r) = N - 1
      /\ \A j \in 1..(N - 1) : r[j] = list[sh(j)]
  BY ElementsLeft
<1>2. PICK i : IsFirst(c, r, files, i) /\ Takes(c, r[i], files)
  BY <1>1, FoundAt
<1> HIDE DEF r
<1>3. i \in 1..(N - 1) /\ sh(i) \in 1..N /\ r[i] = list[sh(i)]
  BY <1>1, <1>2 DEF IsFirst
<1>4. ASSUME NEW j \in 1..N, UsableMount(c, list[j], files) PROVE sh(i) <= j
  <2>1. j # k
    BY <1>4
  <2>2. CASE j < k
    <3>1. j \in 1..(N - 1) /\ sh(j) = j
      BY <1>1, <2>2
    <3>2. i <= j
      BY <1>1, <1>2, <1>4, <3>1 DEF IsFirst
    <3> QED
      BY <1>1, <1>3, <2>2, <3>2
  <2>3. CASE j > k
    <3>1. j - 1 \in 1..(N - 1) /\ sh(j - 1) = j
      BY <1>1, <2>3
    <3>2. i <= j - 1
      BY <1>1, <1>2, <1>4, <3>1 DEF IsFirst
    <3> QED
      BY <1>1, <1>3, <2>3, <3>2
  <2> QED
    BY <1>1, <2>1, <2>2, <2>3
<1>5. IsFirst(c, list, files, sh(i)) /\ Takes(c, list[sh(i)], files)
  BY <1>2, <1>3, <1>4 DEF IsFirst
<1> HIDE DEF sh
<1> QED
  BY <1>5, FoundAt

-----------------------------------------------------------------------------
(* The steps.                                                              *)

\* A change of the host's files is noted.
FilesNoted ==
  \/ "files" \in world'["edited"]
  \/ "files" \notin world["edited"] /\ world'["files"] = world["files"]

\* Where something is known of the credentials.
Known == Detecting \cup {"configure", "providers", "upload", "policy", "created"}

\* What was wanted is.
LEMMA WantedStays ==
  ASSUME cfg'.mounts = cfg.mounts, world'["files"] = world["files"], req' = req,
         ToSet(active) \subseteq ToSet(active'), NEW c, Wanted(c)
  PROVE  Wanted(c)'
<1>1. Found(c)' = Found(c)
  BY DEF Found
<1> QED
  BY <1>1 DEF Wanted

\* The intercepted credentials stay what they are.
LEMMA ActiveStays ==
  ASSUME ActiveInv, UNCHANGED <<req, active>>, FilesNoted,
         pc' \in {"features", "options", "pod"} => active = <<>>
  PROVE  ActiveInv'
<1>1. ASSUME NEW a \in ToSet(active') PROVE MountOf(a.cred, a.mount)
  BY <1>1 DEF ActiveInv
<1> QED
  BY <1>1 DEF ActiveInv, FilesNoted

\* Before and after, no more is said.
LEMMA Elsewhere ==
  ASSUME ActiveInv, UNCHANGED <<req, active>>, FilesNoted,
         pc' \in {"features", "options", "pod"} => active = <<>>, pc' \notin Known
  PROVE  FakesInv'
BY ActiveStays DEF FakesInv, DetectInv, GivenInv, Known, Detecting

\* Nothing is intercepted yet.
LEMMA NoneActive ==
  ASSUME active' = <<>>
  PROVE  /\ ActiveInv'
         /\ pc' \notin Known => FakesInv'
         /\ pc' \in {"detect", "intercept"} /\ pending' = CredentialList => FakesInv'
<1>1. ToSet(<<>>) = {} /\ DOMAIN <<>> = {}
  BY DEF ToSet
<1>2. ActiveInv'
  BY <1>1 DEF ActiveInv
<1>3. pc' \notin Known => FakesInv'
  BY <1>2 DEF FakesInv, DetectInv, GivenInv, Known, Detecting
<1>4. ASSUME pc' \in {"detect", "intercept"}, pending' = CredentialList PROVE FakesInv'
  <2>1. CredentialList \in Rests /\ ToSet(CredentialList) = CredentialNames
    BY Pendings
  <2>2. DetectInv'
    BY <1>1, <1>4, <2>1 DEF DetectInv
  <2>3. GivenInv'
    BY <1>4 DEF GivenInv
  <2> QED
    BY <1>2, <2>2, <2>3 DEF FakesInv
<1> QED
  BY <1>2, <1>3, <1>4

\* What others change.
LEMMA FakesEdited ==
  ASSUME Inv, FakesInv, EditWorld, UNCHANGED <<podVars, sandboxVars>>
  PROVE  FakesInv'
<1>1. /\ UNCHANGED <<req, pc, cfg, pending, detected, active, onecli, sandbox>>
      /\ pc \notin Ended
  BY DEF EditWorld, loopVars, podVars, sandboxVars
<1>2. FilesNoted
  <2>1. "files" \in WorldParts /\ WorldInv
    BY DEF WorldParts, Inv
  <2> QED
    BY <2>1, EditedParts DEF FilesNoted
<1>3. pc # "created"
  BY <1>1 DEF Ended
<1>4. ActiveInv'
  BY <1>1, <1>2, ActiveStays DEF FakesInv, ActiveInv
<1>5. ASSUME NEW c, "files" \notin world'["edited"], Wanted(c) PROVE Wanted(c)'
  BY <1>1, <1>2, <1>5, WantedStays DEF FilesNoted
<1>6. DetectInv'
  <2>1. world'["files"] = world["files"] => \A c : Found(c)' = Found(c)
    BY <1>1 DEF Found
  <2>2. ASSUME pc' \in Detecting
        PROVE  /\ pending' \in Rests
               /\ \A a \in ToSet(active') : a.cred \notin ToSet(pending')
               /\ pc' \in {"fake", "hosts"} =>
                    /\ pending' # <<>> /\ detected' # <<>>
                    /\ Head(detected').cred = Head(pending')
                    /\ MountOf(Head(pending'), Head(detected').mount)
    BY <1>1, <2>2 DEF FakesInv, DetectInv
  <2>3. ASSUME pc' \in Detecting, "files" \notin world'["edited"]
        PROVE  /\ \A c \in CredentialNames \ ToSet(pending') : Wanted(c)'
               /\ pc' = "fake" => detected' = Found(Head(pending))'
    BY <1>1, <1>2, <1>5, <2>1, <2>3 DEF FakesInv, DetectInv, FilesNoted
  <2> QED
    BY <2>2, <2>3 DEF DetectInv
<1>7. GivenInv'
  <2>1. ASSUME NEW i, Configured(i) PROVE Configured(i)'
    BY <1>1, <1>2, <2>1 DEF Configured, FilesNoted
  <2>2. ASSUME NEW i, Uploaded(i) PROVE Uploaded(i)'
    BY <1>1, <2>2 DEF Uploaded
  <2>3. ASSUME pc' \in {"configure", "providers", "upload", "policy", "created"},
               "files" \notin world'["edited"], NEW c \in CredentialNames
        PROVE  Wanted(c)'
    BY <1>1, <1>2, <1>5, <2>3 DEF FakesInv, GivenInv, FilesNoted
  <2> QED
    BY <1>1, <1>3, <2>1, <2>2, <2>3 DEF FakesInv, GivenInv
<1> QED
  BY <1>4, <1>6, <1>7 DEF FakesInv

\* A step up to the call of Create.
LEMMA FakesInAdd ==
  ASSUME Inv, HostsInv, FakesInv, AddNext, UNCHANGED <<podVars, sandboxVars>>
  PROVE  FakesInv'
<1>1. CASE EditWorld
  BY <1>1, FakesEdited
<1>2. CASE ~EditWorld
  <2>1. /\ pc \in Early \cup Loaded /\ pc' \in Early \cup Loaded \cup {"dumped", "failed"}
        /\ active' = active
    BY <1>2 DEF AddNext, RegisterRuntimes, LoadWorkspace, LoadProjectConfig,
       LoadAgentConfig,
       MapSecret, ReadAgentSettings, SetUpAgent, AddFails, AddAccepts, Step, Early, Loaded, loopVars
  <2>2. active' = <<>>
    BY <2>1 DEF HostsInv
  <2> QED
    BY <2>1, <2>2, NoneActive DEF Known, Detecting, Early, Loaded
<1> QED
  BY <1>1, <1>2

\* The next credential is looked for: nothing is found.
LEMMA NothingFound ==
  ASSUME FakesInv, pc \in {"detect", "intercept"}, pending # <<>>, Found(Head(pending)) = <<>>,
         UNCHANGED <<req, pc, cfg, active>>, world'["files"] = world["files"],
         world'["edited"] = world["edited"], pending' = Tail(pending)
  PROVE  FakesInv'
<1>1. ActiveInv'
  BY ActiveStays DEF FakesInv, ActiveInv, FilesNoted
<1>2. /\ pending \in Rests /\ \A a \in ToSet(active) : a.cred \notin ToSet(pending)
      /\ "files" \notin world["edited"] =>
           \A c \in CredentialNames \ ToSet(pending) : Wanted(c)
  BY DEF FakesInv, DetectInv, Detecting
<1>3. pending' \in Rests /\ ToSet(pending) = {Head(pending)} \cup ToSet(pending')
  BY <1>2, Pendings
<1>4. ASSUME NEW c \in CredentialNames \ ToSet(pending'), "files" \notin world["edited"]
      PROVE  Wanted(c)'
  <2>1. CASE c = Head(pending)
    <3>1. Found(c)' = <<>>
      BY <2>1 DEF Found
    <3> QED
      BY <3>1 DEF Wanted
  <2>2. CASE c # Head(pending)
    BY <1>2, <1>3, <1>4, <2>2, WantedStays
  <2> QED
    BY <2>1, <2>2
<1>5. DetectInv'
  BY <1>2, <1>3, <1>4 DEF DetectInv
<1>6. GivenInv'
  BY DEF GivenInv
<1> QED
  BY <1>1, <1>5, <1>6 DEF FakesInv

\* One is intercepted.
LEMMA OneMore ==
  ASSUME FakesInv, HostsInv, pc \in {"fake", "hosts"}, pc' \in {"detect", "intercept"},
         UNCHANGED req, cfg'.mounts = cfg.mounts, world'["files"] = world["files"],
         world'["edited"] = world["edited"], pending' = Tail(pending),
         NEW x, active' = Append(active, x), x.cred = Head(detected).cred,
         x.mount = Head(detected).mount,
         req.runtime = "podman" =>
           /\ x.fake.token = "placeholder"
           /\ "files" \notin world["edited"] /\ x.cred = "kubeconfig" =>
                x.fake.host = serverHost(world["files"][x.path])
  PROVE  FakesInv'
<1> DEFINE c0 == Head(pending)
<1>1. /\ pending \in Rests /\ pending # <<>>
      /\ \A a \in ToSet(active) : a.cred \notin ToSet(pending)
      /\ x.cred = c0 /\ MountOf(c0, x.mount)
      /\ "files" \notin world["edited"] =>
           \A c \in CredentialNames \ ToSet(pending) : Wanted(c)
  BY DEF FakesInv, DetectInv, Detecting
<1>2. /\ pending' \in Rests /\ ToSet(pending) = {c0} \cup ToSet(pending')
      /\ c0 \notin ToSet(pending')
  BY <1>1, Pendings
<1> HIDE DEF c0
<1>3. IsList(active) /\ ToSet(active') = ToSet(active) \cup {x}
  BY ListGrows DEF HostsInv
<1>4. ActiveInv'
  <2>1. ASSUME NEW i \in DOMAIN active', NEW j \in DOMAIN active', i # j
        PROVE  active'[i].cred # active'[j].cred
    <3>1. active \in Seq(ToSet(active)) /\ Len(active) \in Nat /\ DOMAIN active = 1..Len(active)
      BY <1>3 DEF IsList
    <3> DEFINE n == Len(active)
    <3>2. /\ DOMAIN active' = 1..(n + 1) /\ active'[n + 1] = x
          /\ \A k \in 1..n : active'[k] = active[k]
      BY <3>1, Appended
    <3>3. \A k \in 1..n : active[k].cred # c0
      <4>1. \A k \in 1..n : active[k] \in ToSet(active)
        BY <3>1 DEF ToSet
      <4> QED
        BY <1>1, <1>2, <4>1
    <3>4. \A k, l \in 1..n : k # l => active[k].cred # active[l].cred
      BY <3>1 DEF FakesInv, ActiveInv
    <3>5. i \in 1..n \/ i = n + 1
      BY <3>1, <3>2
    <3>6. j \in 1..n \/ j = n + 1
      BY <3>1, <3>2
    <3> HIDE DEF n
    <3>7. x.cred = c0 /\ active'[n + 1].cred = c0
      BY <1>1, <3>2
    <3>8. CASE i \in 1..n /\ j \in 1..n
      BY <2>1, <3>2, <3>4, <3>8
    <3>9. CASE i \in 1..n /\ j = n + 1
      BY <3>2, <3>3, <3>7, <3>9
    <3>10. CASE i = n + 1 /\ j \in 1..n
      BY <3>2, <3>3, <3>7, <3>10
    <3> QED
      BY <2>1, <3>5, <3>6, <3>8, <3>9, <3>10
  <2>2. ASSUME NEW a \in ToSet(active')
        PROVE  /\ MountOf(a.cred, a.mount)
               /\ req'.runtime = "podman" =>
                    /\ a.fake.token = "placeholder"
                    /\ "files" \notin world'["edited"] /\ a.cred = "kubeconfig" =>
                         a.fake.host = serverHost(world'["files"][a.path])
    <3>1. CASE a \in ToSet(active)
      BY <3>1 DEF FakesInv, ActiveInv
    <3>2. CASE a = x
      BY <1>1, <3>2
    <3> QED
      BY <1>3, <2>2, <3>1, <3>2
  <2>3. ASSUME NEW a \in ToSet(active') PROVE MountOf(a.cred, a.mount)'
    BY <2>2, <2>3 DEF MountOf
  <2> QED
    BY <2>1, <2>2, <2>3 DEF ActiveInv
<1>5. ASSUME NEW c \in CredentialNames \ ToSet(pending'), "files" \notin world["edited"]
      PROVE  Wanted(c)'
  <2>1. CASE c = c0
    <3>1. x \in ToSet(active') /\ x.cred = c
      BY <1>1, <1>3, <2>1
    <3> QED
      BY <3>1 DEF Wanted
  <2>2. CASE c # c0
    BY <1>1, <1>2, <1>3, <1>5, <2>2, WantedStays
  <2> QED
    BY <2>1, <2>2
<1>6. \A a \in ToSet(active') : a.cred \notin ToSet(pending')
  BY <1>1, <1>2, <1>3
<1>7. DetectInv'
  BY <1>2, <1>5, <1>6 DEF DetectInv
<1>8. GivenInv'
  BY DEF GivenInv
<1> QED
  BY <1>4, <1>7, <1>8 DEF FakesInv

\* All were looked for.
LEMMA AllLookedFor ==
  ASSUME FakesInv, pc \in {"detect", "intercept"}, pending = <<>>,
         UNCHANGED <<req, cfg, active>>, world' = world
  PROVE  "files" \notin world'["edited"] => \A c \in CredentialNames : Wanted(c)'
<1> SUFFICES ASSUME "files" \notin world["edited"], NEW c \in CredentialNames PROVE Wanted(c)'
  OBVIOUS
<1>1. c \notin ToSet(pending)
  BY Pendings
<1>2. Wanted(c)
  BY <1>1 DEF FakesInv, DetectInv, Detecting
<1> QED
  BY <1>2, WantedStays

\* OneCLI is given one more.
LEMMA ConfiguredNext ==
  ASSUME FakesInv, HostsInv, NEW k \in 1..Len(active),
         \A i \in 1..(k - 1) : Configured(i),
         UNCHANGED <<world, active>>,
         onecli' = Configure(onecli, active[k].cred, world["files"], active[k].path)
  PROVE  \A i \in 1..k : Configured(i)'
<1> DEFINE a == active[k]
           kube == world["files"][a.path]
           input == Input(<<"kubeconfig", kube.current>>, token(kube), serverHost(kube),
                          "", "Authorization")
<1>1. /\ Len(active) \in Nat /\ DOMAIN active = 1..Len(active)
      /\ \A i \in 1..Len(active) : active[i] \in ToSet(active)
  BY DEF HostsInv, IsList, ToSet
<1>2. \A i \in 1..Len(active) : active[i].cred \in {"gcloud", "kubeconfig"}
  BY <1>1 DEF FakesInv, ActiveInv, MountOf, CredentialNames
<1>3. \A i, j \in 1..Len(active) : i # j => active[i].cred # active[j].cred
  BY <1>1 DEF FakesInv, ActiveInv
<1>4. CASE a.cred = "gcloud"
  <2>1. \E v : onecli' = Updated(onecli, <<>>, v)
    BY <1>4 DEF Configure, ConnectApp
  <2>2. ASSUME NEW n, n \in DOMAIN onecli, n # <<>>
        PROVE  n \in DOMAIN onecli' /\ onecli'[n] = onecli[n]
    BY <2>1, <2>2 DEF Updated
  <2>3. ASSUME NEW i \in 1..k PROVE Configured(i)'
    <3>1. CASE i = k
      BY <1>4, <3>1 DEF Configured
    <3>2. CASE i # k
      <4> DEFINE name == <<"kubeconfig", world["files"][active[i].path].current>>
      <4>1. i \in 1..(k - 1) /\ name # <<>>
        BY <1>1, <3>2
      <4>2. name \in DOMAIN onecli => name \in DOMAIN onecli' /\ onecli'[name] = onecli[name]
        BY <2>2, <4>1
      <4>3. Configured(i)
        BY <4>1
      <4> QED
        BY <4>2, <4>3 DEF Configured
    <3> QED
      BY <3>1, <3>2
  <2> QED
    BY <2>3
<1>5. CASE a.cred = "kubeconfig"
  <2>1. onecli' = ProvisionOne(onecli, input)
    BY <1>5 DEF Configure
  <2>2. /\ input.name = <<"kubeconfig", kube.current>> /\ input.value = token(kube)
        /\ input.host = serverHost(kube)
    BY DEF Input
  <2> HIDE DEF input
  <2> DEFINE new == ProvisionOne(onecli, input)
  <2>3. /\ DOMAIN new = DOMAIN onecli \cup {input.name}
        /\ new[input.name].value = input.value /\ new[input.name].host = input.host
    BY OneProvisioned
  <2> HIDE DEF new
  <2>4. /\ input.name \in DOMAIN onecli' /\ onecli'[input.name].value = input.value
        /\ onecli'[input.name].host = input.host
    BY <2>1, <2>3 DEF new
  <2>5. ASSUME NEW i \in 1..k PROVE Configured(i)'
    <3>1. CASE i = k
      BY <2>2, <2>4, <3>1 DEF Configured
    <3>2. CASE i # k
      <4>1. active[i].cred # "kubeconfig"
        BY <1>1, <1>3, <1>5, <3>2
      <4> QED
        BY <4>1 DEF Configured
    <3> QED
      BY <3>1, <3>2
  <2> QED
    BY <2>5
<1> QED
  BY <1>2, <1>4, <1>5

\* The container is created with the placeholders.
LEMMA PodmanFaked ==
  ASSUME FakesInv, HostsInv, CreateContainer
  PROVE  FakesInv'
<1>1. /\ req.runtime = "podman" /\ pc = "configure" /\ pc' = "created" /\ pending = <<>>
      /\ container' = [env |-> ContainerEnv, mounts |-> ContainerMounts, ports |-> CollectPorts]
      /\ UNCHANGED <<world, req, cfg, active, onecli>>
  BY DEF CreateContainer, PodmanStep, Step, PodmanUnchanged, loopVars
<1>2. ActiveInv /\ ActiveInv'
  BY <1>1, ActiveStays DEF FakesInv, FilesNoted
<1>3. /\ Len(active) \in Nat /\ DOMAIN active = 1..Len(active)
  BY DEF HostsInv, IsList
<1>4. \A i \in 1..Len(active) : Configured(i)
  <2>1. \A i \in 1..(Len(active) - Len(pending)) : Configured(i)
    BY <1>1 DEF FakesInv, GivenInv
  <2>2. Len(pending) = 0 /\ Len(active) - 0 = Len(active)
    BY <1>1, <1>3
  <2> QED
    BY <2>1, <2>2
<1>5. \A m : m \in container'.mounts <=> m \in ContainerMounts
  BY <1>1
<1>6. ASSUME NEW m
      PROVE  m \in ContainerMounts <=>
               \/ \E b \in ToSet(active) :
                    m = [host |-> FakePath(b.cred), target |-> ContainerFilePath(b.cred), ro |-> TRUE]
               \/ m = [host |-> <<"src">>, target |-> <<"workspace", "sources">>, ro |-> FALSE]
               \/ \E x \in ToSet(cfg.mounts) : ~Intercepted(x) /\ m = mountVolumeArg(x)
  BY DEF ContainerMounts
<1>7. ASSUME NEW a \in ToSet(active)
      PROVE  MountsTo(FakePath(a.cred), ContainerFilePath(a.cred))'
  <2> DEFINE m == [host |-> FakePath(a.cred), target |-> ContainerFilePath(a.cred), ro |-> TRUE]
  <2>1. m \in ContainerMounts
    BY <1>6
  <2>2. m.host = FakePath(a.cred) /\ m.target = ContainerFilePath(a.cred)
    OBVIOUS
  <2> HIDE DEF m
  <2>3. \E y \in container'.mounts :
          y.host = FakePath(a.cred) /\ y.target = ContainerFilePath(a.cred)
    BY <1>5, <2>1, <2>2
  <2> QED
    BY <2>3 DEF MountsTo, FakePath
<1>8. ASSUME NEW a \in ToSet(active), MountsReal(a)' PROVE MountedAnyway(a)
  <2> DEFINE host == resolveHostPath(a.mount.host)
             target == resolveTargetPath(a.mount.target)
  <2>1. PICK m \in ContainerMounts : m.host = host /\ m.target = target
    BY <1>5, <1>8 DEF MountsReal, MountsTo
  <2>2. /\ a.cred \in CredentialNames
        /\ target \in {ContainerDir(a.cred), ContainerFilePath(a.cred)}
    BY <1>2, MountTarget DEF ActiveInv, MountOf
  <2>3. ASSUME NEW b \in ToSet(active),
               m = [host |-> FakePath(b.cred), target |-> ContainerFilePath(b.cred), ro |-> TRUE]
        PROVE  MountedAnyway(a)
    <3>1. m.host = FakePath(b.cred) /\ m.target = ContainerFilePath(b.cred)
      BY <2>3
    <3>2. b.cred \in CredentialNames
      BY <1>2 DEF ActiveInv, MountOf
    <3>3. b.cred = a.cred
      BY <2>1, <2>2, <3>1, <3>2, PathsApart
    <3> QED
      BY <2>1, <3>1, <3>3 DEF MountedAnyway
  <2>4. m # [host |-> <<"src">>, target |-> <<"workspace", "sources">>, ro |-> FALSE]
    <3>1. ASSUME m = [host |-> <<"src">>, target |-> <<"workspace", "sources">>, ro |-> FALSE]
          PROVE  m.target = <<"workspace", "sources">>
      BY <3>1
    <3> QED
      BY <2>1, <2>2, <3>1, PathsApart
  <2>5. ASSUME NEW x \in ToSet(cfg.mounts), ~Intercepted(x), m = mountVolumeArg(x)
        PROVE  MountedAnyway(a)
    <3>1. m.host = resolveHostPath(x.host) /\ m.target = resolveTargetPath(x.target)
      BY <2>5 DEF mountVolumeArg
    <3>2. ~SameMount(x, a.mount)
      BY <2>5 DEF Intercepted, SameMount
    <3> QED
      BY <2>1, <3>1, <3>2 DEF MountedAnyway
  <2> QED
    BY <1>6, <2>1, <2>3, <2>4, <2>5
<1>9. ASSUME NEW a \in ToSet(active), "files" \notin world["edited"], a.cred = "kubeconfig"
      PROVE  \E n \in DOMAIN onecli : /\ onecli[n].host = a.fake.host
                                      /\ onecli[n].value = token(world["files"][a.path])
  <2>1. a.fake.host = serverHost(world["files"][a.path])
    BY <1>1, <1>2, <1>9 DEF ActiveInv
  <2>2. PICK i \in 1..Len(active) : active[i] = a
    BY <1>3 DEF ToSet
  <2>3. Configured(i)
    BY <1>4
  <2> QED
    BY <1>9, <2>1, <2>2, <2>3 DEF Configured
<1>10. ASSUME "files" \notin world["edited"], NEW c \in CredentialNames PROVE Wanted(c)'
  <2>1. Wanted(c)
    BY <1>1, <1>10 DEF FakesInv, GivenInv
  <2> QED
    BY <1>1, <2>1, WantedStays
<1>11. \A a : MountedAnyway(a)' <=> MountedAnyway(a)
  BY <1>1 DEF MountedAnyway
<1>12. CredentialsFaked'
  <2>1. ASSUME NEW a \in ToSet(active')
        PROVE  /\ MountsTo(FakePath(a.cred), ContainerFilePath(a.cred))'
               /\ MountsReal(a)' => MountedAnyway(a)'
               /\ a.fake.token = "placeholder"
               /\ "files" \notin world'["edited"] /\ a.cred = "kubeconfig" =>
                    \E n \in DOMAIN onecli' : /\ onecli'[n].host = a.fake.host
                                              /\ onecli'[n].value = token(world'["files"][a.path])
    BY <1>1, <1>2, <1>7, <1>8, <1>9, <1>11 DEF ActiveInv
  <2>2. ASSUME "files" \notin world'["edited"], NEW c \in CredentialNames
        PROVE  Found(c)' # <<>> /\ ~FakeFileFails(c, world'["files"], Head(Found(c)').path)
                 => \E a \in ToSet(active') : a.cred = c
    BY <1>1, <1>10, <2>2 DEF Wanted
  <2>3. ~SandboxCreated'
    BY <1>1 DEF SandboxCreated
  <2> QED
    BY <2>1, <2>2, <2>3 DEF CredentialsFaked
<1>13. DetectInv'
  BY <1>1 DEF DetectInv, Detecting
<1>14. GivenInv'
  BY <1>1, <1>10, <1>12 DEF GivenInv
<1> QED
  BY <1>2, <1>13, <1>14 DEF FakesInv

\* Podman's steps.
LEMMA FakesInPodman ==
  ASSUME Inv, HostsInv, FakesInv, PodmanNext
  PROVE  FakesInv'
<1>1. /\ req.runtime = "podman" /\ UNCHANGED <<world, req, cfg>>
      /\ pc \in CreateStates /\ pc' \in CreateStates \cup {"created", "failed"}
  BY PodmanMoves
<1>2. CASE PodmanLoadConfig \/ PrepareFeatures \/ MergeFeatureOptions \/ BuildImage \/ KubePlay
  <2>1. /\ pc \in {"create", "features", "options", "pod"} /\ active' = active
        /\ pc' \in {"features", "options", "pod"} \/ (pc' = "detect" /\ pending' = CredentialList)
    BY <1>2 DEF PodmanLoadConfig, PrepareFeatures, MergeFeatureOptions, BuildImage,
       KubePlay,
                PodmanStep, Step, loopVars
  <2>2. active = <<>>
    BY <2>1 DEF HostsInv, FakesInv, ActiveInv, Loaded
  <2> QED
    BY <2>1, <2>2, NoneActive DEF Known, Detecting
<1>3. CASE DetectCredential
  <2> DEFINE c == Head(pending)
  <2>1. /\ pc = "detect" /\ pending # <<>> /\ detected' = Found(c) /\ active' = active
        /\ detected' = <<>> => pc' = pc /\ pending' = Tail(pending)
        /\ detected' # <<>> => pc' = "fake" /\ pending' = pending
    BY <1>3 DEF DetectCredential
  <2>2. CASE Found(c) = <<>>
    BY <1>1, <2>1, <2>2, NothingFound
  <2>3. CASE Found(c) # <<>>
    <3>1. /\ pending \in Rests /\ \A a \in ToSet(active) : a.cred \notin ToSet(pending)
          /\ "files" \notin world["edited"] =>
               \A b \in CredentialNames \ ToSet(pending) : Wanted(b)
      BY <2>1 DEF FakesInv, DetectInv, Detecting
    <3>2. c \in CredentialNames
      BY <2>1, <3>1, Pendings
    <3>3. IsConfig(cfg) /\ validate(cfg)
      BY <2>1 DEF Inv, ConfigInv, BeforeLoaded
    <3>4. Head(detected').cred = c /\ MountOf(c, Head(detected').mount)
      BY <2>1, <2>3, <3>2, <3>3, FoundIs
    <3>5. ActiveInv'
      BY <1>1, <2>1, <2>3, ActiveStays DEF FakesInv, FilesNoted
    <3>6. \A b : Wanted(b) => Wanted(b)'
      BY <1>1, <2>1, WantedStays
    <3>7. Found(Head(pending))' = Found(c)
      BY <1>1, <2>1, <2>3 DEF Found
    <3>8. DetectInv'
      BY <1>1, <2>1, <2>3, <3>1, <3>4, <3>6, <3>7 DEF DetectInv
    <3>9. GivenInv'
      BY <2>1, <2>3 DEF GivenInv
    <3> QED
      BY <3>5, <3>8, <3>9 DEF FakesInv
  <2> QED
    BY <2>2, <2>3
<1>4. CASE FakeCredential
  <2> DEFINE d == Head(detected)
             fake == FakeFile(d.cred, world["files"], d.path)
             x == [cred |-> d.cred, path |-> d.path, mount |-> d.mount, fake |-> fake]
  <2>1. /\ pc = "fake" /\ pc' = "detect" /\ pending' = Tail(pending)
        /\ active' = IF FakeFileFails(d.cred, world["files"], d.path) THEN active
                     ELSE Append(active, x)
    BY <1>4 DEF FakeCredential, PodmanStep, Step
  <2>2. CASE FakeFileFails(d.cred, world["files"], d.path)
    <3>1. /\ pending \in Rests /\ pending # <<>>
          /\ \A a \in ToSet(active) : a.cred \notin ToSet(pending)
          /\ d.cred = Head(pending)
          /\ "files" \notin world["edited"] =>
               /\ \A b \in CredentialNames \ ToSet(pending) : Wanted(b)
               /\ detected = Found(Head(pending))
      BY <2>1 DEF FakesInv, DetectInv, Detecting
    <3>2. pending' \in Rests /\ ToSet(pending) = {Head(pending)} \cup ToSet(pending')
      BY <2>1, <3>1, Pendings
    <3>3. ActiveInv'
      BY <1>1, <2>1, <2>2, ActiveStays DEF FakesInv, FilesNoted
    <3>4. ASSUME NEW b \in CredentialNames \ ToSet(pending'), "files" \notin world["edited"]
          PROVE  Wanted(b)'
      <4>1. Wanted(b)
        <5>1. CASE b = Head(pending)
          BY <1>1, <2>2, <3>1, <3>4, <5>1 DEF Wanted
        <5>2. CASE b # Head(pending)
          BY <3>1, <3>2, <3>4, <5>2
        <5> QED
          BY <5>1, <5>2
      <4> QED
        BY <1>1, <2>1, <2>2, <4>1, WantedStays
    <3>5. DetectInv'
      BY <1>1, <2>1, <2>2, <3>1, <3>2, <3>4 DEF DetectInv
    <3>6. GivenInv'
      BY <2>1 DEF GivenInv
    <3> QED
      BY <3>3, <3>5, <3>6 DEF FakesInv
  <2>3. CASE ~FakeFileFails(d.cred, world["files"], d.path)
    <3>1. x.cred = d.cred /\ x.mount = d.mount /\ x.path = d.path /\ x.fake = fake
      OBVIOUS
    <3>2. /\ fake.token = "placeholder"
          /\ d.cred = "kubeconfig" => fake.host = serverHost(world["files"][d.path])
      BY DEF FakeFile
    <3>3. active' = Append(active, x)
      BY <2>1, <2>3
    <3> HIDE DEF fake, x
    <3> QED
      BY <1>1, <2>1, <3>1, <3>2, <3>3, OneMore
  <2> QED
    BY <2>2, <2>3
<1>5. CASE SetupOnecli
  <2>1. /\ pc = "detect" /\ pc' = "configure" /\ pending = <<>> /\ pending' = active
        /\ active' = active
    BY <1>5 DEF SetupOnecli, PodmanStep, Step
  <2>2. "files" \notin world'["edited"] => \A c \in CredentialNames : Wanted(c)'
    BY <1>1, <2>1, AllLookedFor
  <2>3. Suffix(active, active) /\ Len(active) \in Nat /\ Len(active) - Len(active) = 0
    BY SuffixAll DEF HostsInv, IsList
  <2>4. Suffix(pending', active') /\ 1..(Len(active') - Len(pending')) = {}
    BY <2>1, <2>3
  <2>5. ActiveInv'
    BY <1>1, <2>1, ActiveStays DEF FakesInv, FilesNoted
  <2>6. DetectInv'
    BY <2>1 DEF DetectInv, Detecting
  <2>7. GivenInv'
    BY <2>1, <2>2, <2>4 DEF GivenInv
  <2> QED
    BY <2>5, <2>6, <2>7 DEF FakesInv
<1>6. CASE ConfigureCredential
  <2> DEFINE k == Len(active) - Len(pending) + 1
  <2>1. /\ pc = "configure" /\ pc' = "configure" /\ pending # <<>> /\ pending' = Tail(pending)
        /\ active' = active
        /\ onecli' = Configure(onecli, Head(pending).cred, world["files"], Head(pending).path)
    BY <1>6 DEF ConfigureCredential, PodmanStep, Step
  <2>2. /\ Suffix(pending, active) /\ \A i \in 1..(Len(active) - Len(pending)) : Configured(i)
    BY <2>1 DEF FakesInv, GivenInv
  <2>3. /\ Suffix(pending', active) /\ k \in 1..Len(active) /\ Head(pending) = active[k]
        /\ Len(active) - Len(pending') = k
    BY <2>1, <2>2, SuffixTail DEF HostsInv
  <2>4. k - 1 = Len(active) - Len(pending) /\ k \in Nat
    BY <2>2, <2>3 DEF Suffix, HostsInv, IsList
  <2> HIDE DEF k
  <2>5. \A i \in 1..k : Configured(i)'
    BY <1>1, <2>1, <2>2, <2>3, <2>4, ConfiguredNext
  <2>6. "files" \notin world'["edited"] => \A c \in CredentialNames : Wanted(c)'
    <3>1. \A c : Wanted(c) => Wanted(c)'
      BY <1>1, <2>1, WantedStays
    <3> QED
      BY <1>1, <2>1, <3>1 DEF FakesInv, GivenInv
  <2>7. ActiveInv'
    BY <1>1, <2>1, ActiveStays DEF FakesInv, FilesNoted
  <2>8. DetectInv'
    BY <2>1 DEF DetectInv, Detecting
  <2>9. GivenInv'
    BY <2>1, <2>3, <2>5, <2>6 DEF GivenInv
  <2> QED
    BY <2>7, <2>8, <2>9 DEF FakesInv
<1>7. CASE CreateContainer
  BY <1>7, PodmanFaked
<1>8. CASE PodmanFails
  <2>1. pc' = "failed" /\ active' = active
    BY <1>8 DEF PodmanFails, loopVars
  <2> QED
    BY <1>1, <2>1, Elsewhere DEF FakesInv, FilesNoted, Known, Detecting
<1> QED
  BY <1>2, <1>3, <1>4, <1>5, <1>6, <1>7, <1>8 DEF PodmanNext

\* A credential is taken out of the mounts; the other one is found no more than it was.
LEMMA FakesRemoved ==
  ASSUME Inv, FakesInv, InterceptCredential, Found(Head(pending)) # <<>>
  PROVE  FakesInv'
<1> DEFINE c == Head(pending)
           m == Head(Found(c)).mount
           list == cfg.mounts
           files == world["files"]
           k == CHOOSE i \in DOMAIN list : list[i] = m
<1>1. /\ req.runtime = "openshell" /\ pc = "intercept" /\ pending # <<>> /\ detected' = Found(c)
      /\ pc' = "hosts" /\ pending' = pending /\ cfg' = removeMountFromConfig(cfg, m)
      /\ UNCHANGED <<world, req, active>>
  BY DEF InterceptCredential, SandboxUnchanged
<1>2. IsConfig(cfg) /\ validate(cfg)
  BY <1>1 DEF Inv, ConfigInv, BeforeLoaded
<1>3. /\ pending \in Rests /\ \A a \in ToSet(active) : a.cred \notin ToSet(pending)
      /\ "files" \notin world["edited"] =>
           \A b \in CredentialNames \ ToSet(pending) : Wanted(b)
  BY <1>1 DEF FakesInv, DetectInv, Detecting
<1>4. c \in CredentialNames /\ c \in ToSet(pending)
  BY <1>1, <1>3, Pendings
<1>5. /\ Head(Found(c)).cred = c /\ MountOf(c, m)
      /\ \E i \in DOMAIN list : m = list[i]
  BY <1>2, <1>4, FoundIs
<1>6. IsList(list) /\ cfg'.mounts = RemoveAt(list, k)
  BY <1>1, <1>2 DEF removeMountFromConfig, IsConfig
<1> HIDE DEF c, m
<1>7. k \in 1..Len(list) /\ list[k] = m
  BY <1>5, <1>6 DEF IsList
<1> HIDE DEF k, list, files
<1>8. ASSUME NEW b \in CredentialNames \ ToSet(pending), Wanted(b) PROVE Wanted(b)'
  <2>1. ~UsableMount(b, list[k], files)
    <3>1. b # c
      BY <1>4
    <3>2. /\ resolveTarget(m.target) \in {ContainerDir(c), ContainerFilePath(c)}
          /\ resolveTarget(m.target) \in {ContainerDir(b), ContainerFilePath(b)} => b = c
      BY <1>4, <1>5, PathsApart DEF MountOf
    <3> QED
      BY <1>7, <3>1, <3>2 DEF UsableMount
  <2>2. FoundIn(b, RemoveAt(list, k), files) # <<>> => FoundIn(b, list, files) # <<>>
    BY <1>6, <1>7, <2>1, OtherRemoved
  <2>3. Found(b) = FoundIn(b, list, files)
    BY FoundHere DEF list, files
  <2>4. Found(b)' = FoundIn(b, RemoveAt(list, k), files)
    BY <1>1, <1>6 DEF Found, FoundIn, files
  <2> QED
    BY <1>1, <1>8, <2>2, <2>3, <2>4 DEF Wanted
<1>9. ActiveInv'
  BY <1>1, ActiveStays DEF FakesInv, FilesNoted
<1>10. DetectInv'
  <2>1. pending' # <<>> /\ detected' # <<>> /\ Head(detected').cred = Head(pending')
        /\ MountOf(Head(pending'), Head(detected').mount)
    BY <1>1, <1>5 DEF c, m
  <2>2. "files" \notin world'["edited"] => \A b \in CredentialNames \ ToSet(pending') : Wanted(b)'
    BY <1>1, <1>3, <1>8
  <2> QED
    BY <1>1, <1>3, <2>1, <2>2 DEF DetectInv
<1>11. GivenInv'
  BY <1>1 DEF GivenInv
<1> QED
  BY <1>9, <1>10, <1>11 DEF FakesInv

\* The sandbox has one more file.
LEMMA UploadedNext ==
  ASSUME HostsInv, NEW k \in 1..Len(active), \A i \in 1..(k - 1) : Uploaded(i),
         active' = active, "files" \in DOMAIN sandbox, NEW v,
         sandbox' = [sandbox EXCEPT !["files"] =
                       Updated(@, remapContainerPath(ContainerFilePath(active[k].cred)), v)]
  PROVE  "files" \in DOMAIN sandbox' /\ \A i \in 1..k : Uploaded(i)'
<1> DEFINE x == remapContainerPath(ContainerFilePath(active[k].cred))
           new == Updated(sandbox["files"], x, v)
<1>1. "files" \in DOMAIN sandbox' /\ sandbox'["files"] = new
  OBVIOUS
<1>2. DOMAIN new = DOMAIN sandbox["files"] \cup {x}
  BY DEF Updated
<1> HIDE DEF new
<1>3. Len(active) \in Nat
  BY DEF HostsInv, IsList
<1>4. ASSUME NEW i \in 1..k PROVE Uploaded(i)'
  <2>1. CASE i = k
    BY <1>1, <1>2, <2>1 DEF Uploaded
  <2>2. CASE i # k
    <3>1. i \in 1..(k - 1)
      BY <1>3, <2>2
    <3>2. remapContainerPath(ContainerFilePath(active[i].cred)) \in DOMAIN sandbox["files"]
      BY <3>1 DEF Uploaded
    <3> QED
      BY <1>1, <1>2, <3>2 DEF Uploaded
  <2> QED
    BY <2>1, <2>2
<1> QED
  BY <1>1, <1>4

\* A step of OpenShell's after the credentials, but for the sandbox's files.
LEMMA WantedInSandbox ==
  ASSUME FakesInv, pc \in {"providers", "upload", "policy"},
         UNCHANGED <<req, cfg, active>>, world'["files"] = world["files"],
         world'["edited"] = world["edited"], pc' \in {"providers", "upload", "policy", "created"}
  PROVE  /\ ActiveInv' /\ DetectInv'
         /\ "files" \notin world'["edited"] => \A c \in CredentialNames : Wanted(c)'
<1>1. ActiveInv'
  BY ActiveStays DEF FakesInv, FilesNoted
<1>2. DetectInv'
  BY DEF DetectInv, Detecting
<1>3. \A c : Wanted(c) => Wanted(c)'
  BY WantedStays
<1> QED
  BY <1>1, <1>2, <1>3 DEF FakesInv, GivenInv

\* OpenShell's steps.
LEMMA FakesInSandbox ==
  ASSUME Inv, HostsInv, FakesInv, SandboxNext
  PROVE  FakesInv'
<1>1. /\ req.runtime = "openshell" /\ UNCHANGED req
      /\ pc \in CreateStates /\ pc' \in CreateStates \cup {"created", "failed"}
      /\ world'["edited"] = world["edited"] /\ world'["files"] = world["files"]
  BY SandboxMoves, SandboxKeeps
<1>2. FilesNoted
  BY <1>1 DEF FilesNoted
<1>3. CASE SandboxGateway
  <2>1. /\ pc = "create" /\ active' = active /\ pc' = "intercept" /\ pending' = CredentialList
    BY <1>3 DEF SandboxGateway, SandboxStep, Step
  <2>2. active = <<>>
    BY <2>1 DEF HostsInv, Loaded
  <2> QED
    BY <2>1, <2>2, NoneActive
<1>4. CASE InterceptCredential
  <2>1. /\ pc = "intercept" /\ pending # <<>> /\ active' = active
        /\ Found(Head(pending)) = <<>> => pc' = pc /\ pending' = Tail(pending) /\ cfg' = cfg
    BY <1>4 DEF InterceptCredential
  <2>2. CASE Found(Head(pending)) = <<>>
    BY <1>1, <2>1, <2>2, NothingFound
  <2>3. CASE Found(Head(pending)) # <<>>
    BY <1>4, <2>3, FakesRemoved
  <2> QED
    BY <2>2, <2>3
<1>5. CASE AddCredentialHosts
  <2>1. /\ pc = "hosts" /\ pc' = "intercept" /\ pending' = Tail(pending)
        /\ active' = Append(active, Head(detected))
        /\ \E hosts : cfg' = addHostsToNetworkConfig(cfg, hosts)
    BY <1>5 DEF AddCredentialHosts, SandboxStep, Step
  <2>2. IsConfig(cfg)
    BY <2>1 DEF Inv, ConfigInv, BeforeLoaded
  <2>3. \E hosts : cfg' = [cfg EXCEPT !.hosts = hosts]
    BY <2>1 DEF addHostsToNetworkConfig
  <2>4. cfg'.mounts = cfg.mounts
    BY <2>2, <2>3 DEF IsConfig
  <2> QED
    BY <1>1, <2>1, <2>4, OneMore
<1>6. CASE ListProviders
  <2>1. /\ pc = "intercept" /\ pc' = "providers" /\ pending = <<>>
        /\ UNCHANGED <<world, cfg, active>>
    BY <1>6 DEF ListProviders, SandboxStep, Step
  <2>2. "files" \notin world'["edited"] => \A c \in CredentialNames : Wanted(c)'
    BY <1>1, <2>1, AllLookedFor
  <2>3. ActiveInv'
    BY <1>1, <1>2, <2>1, ActiveStays DEF FakesInv
  <2>4. DetectInv' /\ GivenInv'
    BY <2>1, <2>2 DEF DetectInv, Detecting, GivenInv
  <2> QED
    BY <2>3, <2>4 DEF FakesInv
<1>7. CASE EnsureProvider
  <2>1. pc = "providers" /\ pc' = "providers" /\ UNCHANGED <<cfg, active>>
    BY <1>7 DEF EnsureProvider, SandboxStep, Step
  <2>2. /\ ActiveInv' /\ DetectInv'
        /\ "files" \notin world'["edited"] => \A c \in CredentialNames : Wanted(c)'
    BY <1>1, <2>1, WantedInSandbox
  <2> QED
    BY <2>1, <2>2 DEF FakesInv, GivenInv
<1>8. CASE CreateSandbox
  <2>1. /\ pc = "providers" /\ pc' = "upload" /\ pending' = active /\ UNCHANGED <<cfg, active>>
        /\ sandbox' = [files |-> Nothing, settings |-> Nothing, env |-> Nothing, ports |-> {},
                       policy |-> {}, endpoints |-> {}, restricted |-> FALSE]
    BY <1>8 DEF CreateSandbox, SandboxStep, Step
  <2>2. /\ ActiveInv' /\ DetectInv'
        /\ "files" \notin world'["edited"] => \A c \in CredentialNames : Wanted(c)'
    BY <1>1, <2>1, WantedInSandbox
  <2>3. Suffix(active, active) /\ Len(active) \in Nat /\ Len(active) - Len(active) = 0
    BY SuffixAll DEF HostsInv, IsList
  <2>4. Suffix(pending', active') /\ 1..(Len(active') - Len(pending')) = {}
    BY <2>1, <2>3
  <2>5. "files" \in DOMAIN sandbox'
    BY <2>1
  <2> QED
    BY <2>1, <2>2, <2>4, <2>5 DEF FakesInv, GivenInv
<1>9. CASE UploadCredential
  <2> DEFINE k == Len(active) - Len(pending) + 1
  <2>1. /\ pc = "upload" /\ pc' = "upload" /\ pending # <<>> /\ pending' = Tail(pending)
        /\ UNCHANGED <<cfg, active>>
        /\ \E v : sandbox' = [sandbox EXCEPT !["files"] =
                    Updated(@, remapContainerPath(ContainerFilePath(Head(pending).cred)), v)]
    BY <1>9 DEF UploadCredential, SandboxStep, Step
  <2>2. /\ Suffix(pending, active) /\ "files" \in DOMAIN sandbox
        /\ \A i \in 1..(Len(active) - Len(pending)) : Uploaded(i)
    BY <2>1 DEF FakesInv, GivenInv
  <2>3. /\ Suffix(pending', active) /\ k \in 1..Len(active) /\ Head(pending) = active[k]
        /\ Len(active) - Len(pending') = k
    BY <2>1, <2>2, SuffixTail DEF HostsInv
  <2>4. k - 1 = Len(active) - Len(pending) /\ k \in Nat
    BY <2>2, <2>3 DEF Suffix, HostsInv, IsList
  <2> HIDE DEF k
  <2>5. "files" \in DOMAIN sandbox' /\ \A i \in 1..k : Uploaded(i)'
    BY <2>1, <2>2, <2>3, <2>4, UploadedNext
  <2>6. /\ ActiveInv' /\ DetectInv'
        /\ "files" \notin world'["edited"] => \A c \in CredentialNames : Wanted(c)'
    BY <1>1, <2>1, WantedInSandbox
  <2>7. GivenInv'
    BY <2>1, <2>3, <2>5, <2>6 DEF GivenInv
  <2> QED
    BY <2>6, <2>7 DEF FakesInv
<1>10. CASE WriteSandboxFiles
  <2>1. /\ pc = "upload" /\ pc' = "policy" /\ pending = <<>> /\ UNCHANGED <<cfg, active>>
        /\ \E s, e, p : sandbox' = [sandbox EXCEPT !.settings = s, !.env = e, !.ports = p]
    BY <1>10 DEF WriteSandboxFiles, SandboxStep, Step, loopVars
  <2>2. /\ "files" \in DOMAIN sandbox
        /\ \A i \in 1..(Len(active) - Len(pending)) : Uploaded(i)
    BY <2>1 DEF FakesInv, GivenInv
  <2>3. Len(pending) = 0 /\ Len(active) \in Nat /\ Len(active) - 0 = Len(active)
    BY <2>1 DEF HostsInv, IsList
  <2>4. DOMAIN sandbox' = DOMAIN sandbox /\ sandbox'["files"] = sandbox["files"]
    BY <2>1
  <2>5. \A i \in 1..Len(active) : Uploaded(i)'
    BY <2>1, <2>2, <2>3, <2>4 DEF Uploaded
  <2>6. /\ ActiveInv' /\ DetectInv'
        /\ "files" \notin world'["edited"] => \A c \in CredentialNames : Wanted(c)'
    BY <1>1, <2>1, WantedInSandbox
  <2>7. GivenInv'
    BY <2>1, <2>2, <2>4, <2>5, <2>6 DEF GivenInv
  <2> QED
    BY <2>6, <2>7 DEF FakesInv
<1>11. CASE ApplyNetworkPolicy
  <2>1. /\ pc = "policy" /\ pc' = "created" /\ UNCHANGED <<cfg, active>>
        /\ \E s, p, e : sandbox' = [sandbox EXCEPT !.restricted = s, !.policy = p, !.endpoints = e]
    BY <1>11 DEF ApplyNetworkPolicy, SandboxStep, Step, loopVars
  <2>2. \A i \in 1..Len(active) : Uploaded(i)
    BY <2>1 DEF FakesInv, GivenInv
  <2>3. sandbox'["files"] = sandbox["files"]
    BY <2>1
  <2>4. /\ ActiveInv' /\ DetectInv'
        /\ "files" \notin world'["edited"] => \A c \in CredentialNames : Wanted(c)'
    BY <1>1, <2>1, WantedInSandbox
  <2>5. ASSUME NEW a \in ToSet(active)
        PROVE  remapContainerPath(ContainerFilePath(a.cred)) \in DOMAIN sandbox'["files"]
    <3>1. PICK i \in 1..Len(active) : active[i] = a
      BY DEF HostsInv, IsList, ToSet
    <3> QED
      BY <2>2, <2>3, <3>1 DEF Uploaded
  <2>6. CredentialsFaked'
    <3>1. ~PodmanCreated'
      BY <1>1 DEF PodmanCreated
    <3>2. ASSUME NEW c \in CredentialNames, Found(c)' # <<>>, "files" \notin world'["edited"]
          PROVE  \E a \in ToSet(active') : a.cred = c
      BY <1>1, <2>4, <3>2 DEF Wanted
    <3> QED
      BY <2>1, <2>5, <3>1, <3>2 DEF CredentialsFaked
  <2>7. GivenInv'
    BY <2>1, <2>4, <2>6 DEF GivenInv
  <2> QED
    BY <2>4, <2>7 DEF FakesInv
<1>12. CASE SandboxFails
  <2>1. pc' = "failed" /\ active' = active
    BY <1>12 DEF SandboxFails, loopVars
  <2> QED
    BY <1>1, <1>2, <2>1, Elsewhere DEF FakesInv, Known, Detecting
<1> QED
  BY <1>3, <1>4, <1>5, <1>6, <1>7, <1>8, <1>9, <1>10, <1>11, <1>12 DEF SandboxNext

\* Every step.
LEMMA FakesNext ==
  ASSUME Inv, HostsInv, FakesInv, [Next]_vars
  PROVE  FakesInv'
<1>1. CASE UNCHANGED vars
  BY <1>1 DEF vars, addVars, loopVars, podVars, sandboxVars, FakesInv, ActiveInv,
     DetectInv, GivenInv,
     Wanted, Found, Configured, Uploaded, CredentialsFaked, MountsTo, MountsReal, MountedAnyway,
     PodmanCreated, SandboxCreated
<1> QED
  BY <1>1, FakesInAdd, FakesInPodman, FakesInSandbox DEF Next

\* What is known of the credentials while they are intercepted and handed over: each
\* once, found at its own path, and none that can be is left out.
THEOREM FakesInvariance == Spec => []FakesInv
<1>1. CreationInit => FakesInv
  <2>1. CreationInit => pc = "start" /\ active = <<>>
    BY DEF CreationInit, Init
  <2>2. ToSet(<<>>) = {} /\ DOMAIN <<>> = {}
    BY DEF ToSet
  <2> QED
    BY <2>1, <2>2 DEF FakesInv, ActiveInv, DetectInv, GivenInv, Detecting
<1>2. Inv /\ HostsInv /\ FakesInv /\ [Next]_vars => FakesInv'
  BY FakesNext
<1>3. Spec => []HostsInv
  BY CreateInvariance, PTL
<1> QED
  BY <1>1, <1>2, <1>3, Invariance, PTL DEF Spec

\* The placeholder is mounted in place of the credential, and OneCLI has the real one
\* for its server; OpenShell's sandbox has the file.
THEOREM CredentialsAreFaked == Spec => []CredentialsFaked
<1>1. FakesInv => CredentialsFaked
  BY DEF FakesInv, GivenInv, CredentialsFaked, PodmanCreated, SandboxCreated
<1> QED
  BY <1>1, FakesInvariance, PTL

-----------------------------------------------------------------------------
(* The features.  Installed in the order Kahn's algorithm finds, one after *)
(* the other, each with the options it was given.                          *)

\* The head of a queue of features: the least rank, as natural numbers have one.
LEMMA FirstIs ==
  ASSUME NEW queue, queue # {}, queue \subseteq DOMAIN Catalog
  PROVE  /\ First(queue) \in queue
         /\ \A j \in queue : Catalog[First(queue)].rank <= Catalog[j].rank
<1> DEFINE R == {Catalog[i].rank : i \in queue}
<1>1. R \subseteq Nat /\ R # {}
  BY CatalogAssumption
<1>2. /\ \A i \in queue : Catalog[i].rank \in R
      /\ \A y \in R : \E i \in queue : y = Catalog[i].rank
  OBVIOUS
<1> HIDE DEF R
<1>3. PICK x \in R : \A y \in R : x <= y
  <2> DEFINE L == OpToRel(<, Nat)
  <2>1. IsWellFoundedOn(L, Nat)
    BY NatLessThanWellFounded
  <2>2. \A m, n \in Nat : m < n => <<m, n>> \in L
    BY DEF OpToRel
  <2> HIDE DEF L
  <2>3. PICK x \in R : \A y \in R : ~(<<y, x>> \in L)
    BY <1>1, <2>1, WFMin
  <2>4. ASSUME NEW y \in R PROVE x <= y
    <3>1. x \in Nat /\ y \in Nat /\ ~(y < x)
      BY <1>1, <2>2, <2>3
    <3> QED
      BY <3>1
  <2> QED
    BY <2>4
<1>4. \E i \in queue : \A j \in queue : Catalog[i].rank <= Catalog[j].rank
  BY <1>2, <1>3
<1> QED
  BY <1>4 DEF First

\* What is ready is to be placed, and is not.
LEMMA ReadyIs ==
  ASSUME NEW ids, NEW meta, NEW placed
  PROVE  \A i : i \in Ready(ids, meta, placed) <=>
                  /\ i \in ids /\ i \notin ToSet(placed)
                  /\ Before(ids, meta, i) \subseteq ToSet(placed)
BY DEF Ready

\* A step keeps the type of the list.
LEMMA PlaceType ==
  ASSUME NEW ids, ids \subseteq DOMAIN Catalog, NEW meta, NEW placed \in Seq(ids)
  PROVE  Place(ids, meta, placed) \in Seq(ids)
<1> DEFINE queue == Ready(ids, meta, placed)
<1>1. queue \subseteq ids
  BY ReadyIs
<1>2. queue # {} => First(queue) \in ids
  BY <1>1, FirstIs
<1>3. Place(ids, meta, placed) = IF queue = {} THEN placed ELSE Append(placed, First(queue))
  BY DEF Place
<1> HIDE DEF queue
<1> QED
  BY <1>2, <1>3

\* The algorithm has the intermediate results of a loop of as many steps as there
\* are features.
LEMMA PlaceLoop ==
  ASSUME NEW ids, IsFiniteSet(ids), ids \subseteq DOMAIN Catalog, NEW meta
  PROVE  \E f : /\ f[0] = <<>> /\ f[Cardinality(ids)] = Ordered(ids, meta)
                /\ \A k \in 1..Cardinality(ids) : f[k] = Place(ids, meta, f[k - 1])
<1> DEFINE N == Cardinality(ids)
           E == 1..N
           seq == [n \in 1..N |-> n]
           X == Seq(ids)
           base == <<>>
           F == [p \in X \X E |-> Place(ids, meta, p[1])]
           Is(iter) == iter = [s \in SUBSET DOMAIN seq |->
                         IF s = {} THEN base ELSE Place(ids, meta, iter[s \ {Max(s)}])]
           it == CHOOSE iter : Is(iter)
           f == [k \in 0..N |-> it[1..k]]
<1>0. N \in Nat
  BY FS_CardinalityType
<1>1. seq \in Seq(E) /\ Len(seq) = N
  <2>1. seq \in [1..N -> E]
    OBVIOUS
  <2> HIDE DEF N, E, seq
  <2> QED
    BY <1>0, <2>1, ListOf DEF E
<1>2. base \in X
  OBVIOUS
<1>3. F \in [X \X E -> X]
  BY PlaceType
<1>4. \A p \in X \X E : F[p] = Place(ids, meta, p[1])
  OBVIOUS
<1>5. Ordered(ids, meta) = FoldLeft(LAMBDA placed, n : Place(ids, meta, placed), base, seq)
  BY DEF Ordered
<1> HIDE DEF X, F, E, seq, base, N
<1>6. PICK g \in [SUBSET DOMAIN seq -> X] : Iterates(g, base, seq, F)
  BY <1>1, <1>2, <1>3, IterExists
<1>7. Is(g)
  <2>1. \A s \in SUBSET DOMAIN seq : s # {} =>
          g[s \ {Max(s)}] \in X /\ seq[Max(s)] \in E
    BY <1>1, LastOf
  <2> QED
    BY <1>4, <1>6, <2>1 DEF Iterates
<1>8. Is(it)
  BY <1>7
<1>9. Ordered(ids, meta) = it[DOMAIN seq]
  BY <1>5 DEF FoldLeft, MapThenFoldSet
<1> HIDE DEF it
<1>10. /\ DOMAIN seq = 1..N /\ 1..0 = {} /\ 0 \in 0..N /\ N \in 0..N
       /\ \A k \in 1..N :
            /\ 1..k \in SUBSET DOMAIN seq /\ 1..k # {} /\ Max(1..k) = k
            /\ (1..k) \ {k} = 1..(k - 1) /\ k \in 0..N /\ k - 1 \in 0..N
  BY <1>1, OneToIn
<1>11. \A k \in 1..N : it[1..k] = Place(ids, meta, it[1..(k - 1)])
  <2> SUFFICES ASSUME NEW k \in 1..N
               PROVE  it[1..k] = Place(ids, meta, it[1..(k - 1)])
    OBVIOUS
  <2> HIDE DEF f
  <2> QED
    BY <1>8, <1>10
<1>12. it[{}] = base
  BY <1>8
<1>13. f[0] = base /\ f[N] = it[DOMAIN seq]
  BY <1>10, <1>12
<1>14. \A k \in 1..N : f[k] = Place(ids, meta, f[k - 1])
  BY <1>10, <1>11
<1> QED
  BY <1>9, <1>13, <1>14 DEF N, base

\* Placed in order: none twice, each after the features it depends on, and each
\* with the least rank of those that could have been placed there.
InOrder(ids, meta, list) ==
  /\ list \in Seq(ids)
  /\ \A i, j \in DOMAIN list : list[i] = list[j] => i = j
  /\ \A j \in DOMAIN list : \A d \in Before(ids, meta, list[j]) :
       \E i \in 1..(j - 1) : list[i] = d
  /\ \A i \in DOMAIN list : \A x \in ids :
       Catalog[x].rank < Catalog[list[i]].rank
         => \/ \E k \in 1..(i - 1) : list[k] = x
            \/ \E d \in Before(ids, meta, x) : \A k \in 1..(i - 1) : list[k] # d

\* One more is.
LEMMA PlaceStep ==
  ASSUME NEW ids, ids \subseteq DOMAIN Catalog, NEW meta, NEW list, InOrder(ids, meta, list)
  PROVE  InOrder(ids, meta, Place(ids, meta, list))
<1> DEFINE queue == Ready(ids, meta, list)
           e == First(queue)
           r == Append(list, e)
           n == Len(list)
           bef(x) == Before(ids, meta, x)
<1>1. CASE queue = {}
  BY <1>1 DEF Place
<1>2. CASE queue # {}
  <2>1. \A i : i \in queue <=> /\ i \in ids /\ i \notin ToSet(list)
                              /\ bef(i) \subseteq ToSet(list)
    BY ReadyIs
  <2>2. e \in queue /\ \A j \in queue : Catalog[e].rank <= Catalog[j].rank
    <3>1. queue \subseteq DOMAIN Catalog
      BY <2>1
    <3> HIDE DEF queue
    <3> QED
      BY <1>2, <3>1, FirstIs
  <2>3. Place(ids, meta, list) = r
    BY <1>2 DEF Place
  <2>4. \A x \in ids : Catalog[x].rank \in Nat
    BY CatalogAssumption
  <2> HIDE DEF queue, e, bef
  <2>5. list \in Seq(ids) /\ e \in ids
    BY <2>1, <2>2 DEF InOrder
  <2>6. /\ r \in Seq(ids) /\ n \in Nat /\ DOMAIN list = 1..n /\ DOMAIN r = 1..(n + 1) /\ r[n + 1] = e
        /\ \A i \in 1..n : r[i] = list[i] /\ list[i] \in ids
    BY <2>5
  <2> HIDE DEF r, n
  <2>7. \A d : d \in ToSet(list) <=> \E i \in 1..n : list[i] = d
    BY <2>6 DEF ToSet
  <2>8. /\ \A i, j \in 1..n : list[i] = list[j] => i = j
        /\ \A j \in 1..n : \A d \in bef(list[j]) : \E i \in 1..(j - 1) : list[i] = d
        /\ \A i \in 1..n : \A x \in ids :
             Catalog[x].rank < Catalog[list[i]].rank
               => \/ \E k \in 1..(i - 1) : list[k] = x
                  \/ \E d \in bef(x) : \A k \in 1..(i - 1) : list[k] # d
    BY <2>6 DEF InOrder, bef
  <2>9. \A i \in 1..(n + 1) : i = n + 1 \/ i \in 1..n
    BY <2>6
  <2>10. ASSUME NEW i \in 1..(n + 1), NEW j \in 1..(n + 1), r[i] = r[j] PROVE i = j
    <3>1. \A k \in 1..n : list[k] # e
      BY <2>1, <2>2, <2>7
    <3> QED
      BY <2>6, <2>8, <2>9, <2>10, <3>1
  <2>11. \A i \in 1..(n + 1) : \A k \in 1..(i - 1) : k \in 1..n /\ r[k] = list[k]
    BY <2>6
  <2>12. ASSUME NEW j \in 1..(n + 1), NEW d \in bef(r[j]) PROVE \E i \in 1..(j - 1) : r[i] = d
    <3>1. CASE j = n + 1
      <4>1. d \in ToSet(list) /\ j - 1 = n
        BY <2>1, <2>2, <2>6, <2>12, <3>1
      <4> QED
        BY <2>6, <2>7, <4>1
    <3>2. CASE j \in 1..n
      <4>1. PICK i \in 1..(j - 1) : list[i] = d
        BY <2>6, <2>8, <2>12, <3>2
      <4> QED
        BY <2>11, <4>1
    <3> QED
      BY <2>9, <3>1, <3>2
  <2>13. ASSUME NEW i \in 1..(n + 1), NEW x \in ids, Catalog[x].rank < Catalog[r[i]].rank
         PROVE  \/ \E k \in 1..(i - 1) : r[k] = x
                \/ \E d \in bef(x) : \A k \in 1..(i - 1) : r[k] # d
    <3>1. CASE i = n + 1
      <4>1. Catalog[x].rank < Catalog[e].rank /\ i - 1 = n
        BY <2>6, <2>13, <3>1
      <4>2. x \notin queue
        BY <2>2, <2>4, <2>5, <4>1
      <4>3. x \in ToSet(list) \/ \E d \in bef(x) : d \notin ToSet(list)
        BY <2>1, <4>2
      <4> QED
        BY <2>6, <2>7, <4>1, <4>3
    <3>2. CASE i \in 1..n
      <4>1. \/ \E k \in 1..(i - 1) : list[k] = x
            \/ \E d \in bef(x) : \A k \in 1..(i - 1) : list[k] # d
        BY <2>6, <2>8, <2>13, <3>2
      <4> QED
        BY <2>11, <4>1
    <3> QED
      BY <2>9, <3>1, <3>2
  <2>14. InOrder(ids, meta, r)
    <3>1. \A i, j \in DOMAIN r : r[i] = r[j] => i = j
      BY <2>6, <2>10
    <3>2. \A j \in DOMAIN r : \A d \in Before(ids, meta, r[j]) : \E i \in 1..(j - 1) : r[i] = d
      BY <2>6, <2>12 DEF bef
    <3>3. \A i \in DOMAIN r : \A x \in ids :
            Catalog[x].rank < Catalog[r[i]].rank
              => \/ \E k \in 1..(i - 1) : r[k] = x
                 \/ \E d \in Before(ids, meta, x) : \A k \in 1..(i - 1) : r[k] # d
      BY <2>6, <2>13 DEF bef
    <3> QED
      BY <2>6, <3>1, <3>2, <3>3, Zenon DEF InOrder
  <2> QED
    BY <2>3, <2>14
<1> QED
  BY <1>1, <1>2

\* What the features wait for that cannot be placed: one another.
Cyclic(ids, meta) ==
  \E S \in SUBSET ids : S # {} /\ \A x \in S : Before(ids, meta, x) \cap S # {}

\* Order (features.go) for every set of features: what it places is in order; and
\* it places all of them unless some of them depend on one another in a cycle.
THEOREM OrderIsSound ==
  ASSUME NEW ids, IsFiniteSet(ids), ids \subseteq DOMAIN Catalog, NEW meta
  PROVE  LET r == Ordered(ids, meta)
         IN /\ InOrder(ids, meta, r)
            /\ Len(r) = Cardinality(ids) => ToSet(r) = ids
            /\ Len(r) # Cardinality(ids) => Cyclic(ids, meta)
<1> DEFINE N == Cardinality(ids)
           r == Ordered(ids, meta)
<1>1. N \in Nat
  BY FS_CardinalityType
<1>2. PICK f : /\ f[0] = <<>> /\ f[N] = r
               /\ \A k \in 1..N : f[k] = Place(ids, meta, f[k - 1])
  BY PlaceLoop
<1> DEFINE T == {k \in 0..N : /\ InOrder(ids, meta, f[k])
                             /\ (Len(f[k]) = k \/ Ready(ids, meta, f[k]) = {})}
<1>3. 0 \in T
  <2>1. InOrder(ids, meta, <<>>) /\ Len(<<>>) = 0
    BY DEF InOrder
  <2> QED
    BY <1>1, <1>2, <2>1
<1>4. ASSUME NEW k \in 1..N, k - 1 \in T PROVE k \in T
  <2> DEFINE p == f[k - 1]
             queue == Ready(ids, meta, p)
  <2>1. InOrder(ids, meta, p) /\ (Len(p) = k - 1 \/ queue = {})
    BY <1>4
  <2>2. f[k] = Place(ids, meta, p) /\ k \in 0..N
    BY <1>1, <1>2
  <2>3. InOrder(ids, meta, f[k])
    BY <2>1, <2>2, PlaceStep
  <2>4. CASE queue = {}
    <3>1. f[k] = p
      BY <2>2, <2>4 DEF Place
    <3> QED
      BY <2>2, <2>3, <2>4, <3>1
  <2>5. CASE queue # {}
    <3>1. f[k] = Append(p, First(queue)) /\ p \in Seq(ids)
      BY <2>1, <2>2, <2>5 DEF Place, InOrder
    <3>2. Len(f[k]) = Len(p) + 1
      BY <3>1
    <3> QED
      BY <2>1, <2>2, <2>3, <2>5, <3>2
  <2> QED
    BY <2>4, <2>5
<1> HIDE DEF T
<1>5. N \in T
  <2>1. 0..N \subseteq T
    BY <1>1, <1>3, <1>4, Upward
  <2> QED
    BY <1>1, <2>1
<1>6. InOrder(ids, meta, r) /\ (Len(r) = N \/ Ready(ids, meta, r) = {})
  BY <1>2, <1>5 DEF T
<1> HIDE DEF r
<1>7. r \in [1..Len(r) -> ids] /\ Len(r) \in Nat /\ \A i, j \in 1..Len(r) : r[i] = r[j] => i = j
  BY <1>6 DEF InOrder
<1>8. ToSet(r) \subseteq ids /\ \A x : x \in ToSet(r) <=> \E i \in 1..Len(r) : r[i] = x
  BY <1>7 DEF ToSet
<1>9. ASSUME Len(r) = N PROVE ToSet(r) = ids
  <2>1. r \in Injection(1..N, ids)
    BY <1>7, <1>9 DEF Injection, IsInjective
  <2>2. Cardinality(1..N) = N
    <3>1. 1 \in Int /\ N \in Int
      BY <1>1
    <3>2. Cardinality(1..N) = IF 1 > N THEN 0 ELSE N - 1 + 1
      BY <3>1, FS_Interval
    <3> QED
      BY <1>1, <3>2
  <2>3. r \in Surjection(1..N, ids)
    BY <2>1, <2>2, FS_Injection
  <2>4. \A t \in ids : \E i \in 1..N : r[i] = t
    BY <2>3 DEF Surjection
  <2> QED
    BY <1>8, <1>9, <2>4
<1>10. ASSUME Len(r) # N PROVE Cyclic(ids, meta)
  <2> DEFINE S == ids \ ToSet(r)
  <2>1. S # {}
    <3> SUFFICES ASSUME ids \subseteq ToSet(r) PROVE FALSE
      OBVIOUS
    <3>1. r \in Bijection(1..Len(r), ids)
      BY <1>7, <1>8 DEF Bijection, Injection, Surjection, IsInjective
    <3>2. Cardinality(1..Len(r)) = Len(r) /\ IsFiniteSet(1..Len(r))
      <4>1. 1 \in Int /\ Len(r) \in Int
        BY <1>7
      <4>2. /\ Cardinality(1..Len(r)) = IF 1 > Len(r) THEN 0 ELSE Len(r) - 1 + 1
            /\ IsFiniteSet(1..Len(r))
        BY <4>1, FS_Interval
      <4> QED
        BY <1>7, <4>2
    <3>3. Cardinality(ids) = Len(r)
      BY <3>1, <3>2, FS_Bijection DEF ExistsBijection
    <3> QED
      BY <1>10, <3>3
  <2>2. ASSUME NEW x \in S PROVE Before(ids, meta, x) \cap S # {}
    <3>1. x \notin Ready(ids, meta, r)
      BY <1>6, <1>10
    <3>2. ~(Before(ids, meta, x) \subseteq ToSet(r)) /\ Before(ids, meta, x) \subseteq ids
      BY <3>1, ReadyIs DEF Before
    <3> QED
      BY <3>2
  <2> QED
    BY <2>1, <2>2 DEF Cyclic
<1> QED
  BY <1>6, <1>9, <1>10 DEF r

\* The features of a configuration are some of the Catalog.
IsKnown(c) == IsFiniteSet(DOMAIN c.features) /\ DOMAIN c.features \subseteq DOMAIN Catalog

KnownInv == cfg # NoConfig => IsKnown(cfg)

\* An installed feature has the values that were given for it.
Optioned(f) ==
  LET user == cfg.features[f.id]
  IN \A k \in DOMAIN user :
       \E x \in DOMAIN user : 
         NormKey[x] = NormKey[k] /\ f.options[NormKey[k]] = optionValue(Metadata[f.id].options[x], user[x])

\* The first n have been installed.
Installed(n) ==
  \A i \in 1..n : /\ image.features[i].id = Ordered(FeatureIDs, Metadata)[i]
                  /\ Optioned(image.features[i])

\* Where podman's creation has the order of all the features.
Ordering == {"options", "pod", "detect", "fake", "configure", "created"}

InstallInv ==
  /\ image = [env |-> image.env, features |-> image.features, settings |-> image.settings]
  /\ IsList(image.features)
  /\ req.runtime = "podman" =>
       /\ pc \in Early \cup Loaded \cup {"features"} => image.features = <<>>
       /\ pc \in Ordering =>
            LET n == Len(image.features)
                order == Ordered(FeatureIDs, Metadata)
            IN /\ ~OrderFails(FeatureIDs, Metadata)
               /\ Installed(n)
               /\ IF pc = "options" THEN Suffix(pending, order) /\ n = Len(order) - Len(pending)
                  ELSE n = Len(order)

\* A document's are.
LEMMA DocumentsAre ==
  ASSUME WorldInv
  PROVE  /\ world["workspace"] \in {Broken, NoConfig} \/ IsKnown(world["workspace"])
         /\ world["projects"] = Broken
              \/ \A k \in DOMAIN world["projects"] : IsKnown(world["projects"][k])
         /\ world["agents"] = Broken
              \/ \A k \in DOMAIN world["agents"] : IsKnown(world["agents"][k])
<1>1. /\ IsPart("workspace", world["workspace"]) /\ IsPart("projects", world["projects"])
      /\ IsPart("agents", world["agents"])
  BY DEF WorldInv, WorldParts
<1> QED
  BY <1>1 DEF IsPart, IsDocument, IsKnown

\* Those of two levels together.
LEMMA MergeIsKnown ==
  ASSUME NEW base, NEW override, IsKnown(base), IsKnown(override)
  PROVE  IsKnown(Merge(base, override))
<1>1. Merge(base, override).features = Over(override.features, base.features)
  BY DEF Merge, mergeFeatures
<1>2. DOMAIN Over(override.features, base.features)
        = DOMAIN override.features \cup DOMAIN base.features
  BY DEF Over
<1>3. IsFiniteSet(DOMAIN override.features \cup DOMAIN base.features)
  BY FS_Union DEF IsKnown
<1> QED
  BY <1>1, <1>2, <1>3 DEF IsKnown

\* None.
LEMMA EmptyIsKnown == IsKnown(EmptyConfig)
<1>1. EmptyConfig.features = <<>> /\ DOMAIN <<>> = {}
  BY DEF EmptyConfig
<1> QED
  BY <1>1, FS_EmptySet DEF IsKnown

\* A level over a configuration or none.
LEMMA NextIsKnown ==
  ASSUME NEW c, NEW level, c = NoConfig \/ IsKnown(c), IsKnown(level)
  PROVE  IsKnown(NextLevel(c, level))
BY MergeIsKnown DEF NextLevel

\* A step that keeps the features of a configuration.
LEMMA KnownStays ==
  ASSUME KnownInv, cfg' = cfg \/ (cfg # NoConfig /\ cfg'.features = cfg.features)
  PROVE  KnownInv'
BY DEF KnownInv, IsKnown

\* After they are loaded no step changes the features.
LEMMA FeaturesStay ==
  ASSUME Inv, [Next]_vars
  PROVE  \/ LoadWorkspace \/ LoadProjectConfig \/ LoadAgentConfig
         \/ cfg' = cfg
         \/ cfg # NoConfig /\ cfg'.features = cfg.features
<1>0. WorldInv /\ ConfigInv
  BY DEF Inv
<1>1. pc \notin BeforeLoaded => IsConfig(cfg) /\ cfg # NoConfig
  BY <1>0, NoneIsNoConfig DEF ConfigInv
<1>2. CASE UNCHANGED vars \/ PodmanNext
  BY <1>2, PodmanMoves DEF vars, addVars
<1>3. CASE EditWorld \/ RegisterRuntimes \/ MapSecret \/ ReadAgentSettings \/ AddFails
  BY <1>3 DEF EditWorld, RegisterRuntimes, MapSecret, ReadAgentSettings, AddFails
<1>4. CASE SetUpAgent
  <2>1. pc = "setup" /\ (cfg' = cfg \/ cfg' = [cfg EXCEPT !.mounts = @ \o SkillMounts])
    BY <1>4 DEF SetUpAgent, Step
  <2>2. \E list : cfg' = cfg \/ cfg' = [cfg EXCEPT !.mounts = list]
    BY <2>1
  <2>3. IsConfig(cfg) /\ cfg # NoConfig
    BY <1>1, <2>1 DEF BeforeLoaded
  <2> QED
    BY <2>2, <2>3 DEF IsConfig
<1>5. CASE SandboxNext
  <2>1. IsConfig(cfg) /\ cfg # NoConfig
    BY <1>1, <1>5, SandboxMoves DEF CreateStates, BeforeLoaded
  <2>2. CASE InterceptCredential
    <3>1. cfg' = cfg \/ \E m : cfg' = removeMountFromConfig(cfg, m)
      BY <2>2 DEF InterceptCredential
    <3>2. \E list : cfg' = cfg \/ cfg' = [cfg EXCEPT !.mounts = list]
      BY <3>1 DEF removeMountFromConfig
    <3> QED
      BY <2>1, <3>2 DEF IsConfig
  <2>3. CASE AddCredentialHosts
    <3>1. \E hosts : cfg' = addHostsToNetworkConfig(cfg, hosts)
      BY <2>3 DEF AddCredentialHosts
    <3>2. \E list : cfg' = [cfg EXCEPT !.hosts = list]
      BY <3>1 DEF addHostsToNetworkConfig
    <3> QED
      BY <2>1, <3>2 DEF IsConfig
  <2>4. CASE ~InterceptCredential /\ ~AddCredentialHosts
    <3>1. cfg' = cfg
      BY <1>5, <2>4 DEF SandboxNext, EnsureProvider, SandboxGateway, ListProviders,
         CreateSandbox, UploadCredential, WriteSandboxFiles, ApplyNetworkPolicy,
         SandboxFails, SandboxUnchanged
    <3> QED
      BY <3>1
  <2> QED
    BY <2>2, <2>3, <2>4
<1> QED
  BY <1>2, <1>3, <1>4, <1>5 DEF Next, AddNext

\* Every step keeps them in the Catalog.
LEMMA KnownNext ==
  ASSUME Inv, KnownInv, [Next]_vars
  PROVE  KnownInv'
<1>0. WorldInv
  BY DEF Inv
<1>1. CASE LoadWorkspace
  <2>1. cfg' = world["workspace"] /\ WorkspaceLoads(world["workspace"])
    BY <1>1 DEF LoadWorkspace
  <2> QED
    BY <1>0, <2>1, DocumentsAre DEF WorkspaceLoads, KnownInv, IsKnown
<1>2. CASE LoadProjectConfig
  <2> DEFINE level == LoadProject(world["projects"], req.project)
  <2>1. cfg' = NextLevel(cfg, level) /\ ProjectLoads(world["projects"], req.project)
    BY <1>2 DEF LoadProjectConfig
  <2>2. \A k \in DOMAIN world["projects"] : IsKnown(world["projects"][k])
    BY <1>0, <2>1, DocumentsAre DEF ProjectLoads
  <2>3. IsKnown(level)
    BY <2>2, ProjectIs, MergeIsKnown, EmptyIsKnown
  <2> HIDE DEF level
  <2>4. IsKnown(cfg')
    BY <2>1, <2>3, NextIsKnown DEF KnownInv
  <2> QED
    BY <2>4 DEF KnownInv, IsKnown
<1>3. CASE LoadAgentConfig
  <2> DEFINE level == LoadAgent(world["agents"], req.agent)
             merged == NextLevel(cfg, level)
  <2>1. cfg' \in {merged, TransformConfig(merged)} /\ AgentLoads(world["agents"], req.agent)
    BY <1>3 DEF LoadAgentConfig
  <2>2. IsKnown(level)
    BY <1>0, <2>1, DocumentsAre, EmptyIsKnown DEF AgentLoads, LoadAgent
  <2>3. IsConfig(level) /\ validate(level)
    BY <1>0, <2>1, PartsAre, EmptyIsValid DEF AgentLoads, LoadAgent
  <2> HIDE DEF level
  <2>4. IsKnown(merged) /\ IsConfig(merged)
    BY <2>2, <2>3, NextIsKnown, NextIsValid DEF KnownInv, Inv, ConfigInv
  <2> HIDE DEF merged
  <2>5. TransformConfig(merged).features = merged.features
    BY <2>4 DEF TransformConfig, IsConfig
  <2>6. IsKnown(cfg')
    BY <2>1, <2>4, <2>5 DEF IsKnown
  <2> QED
    BY <2>6 DEF KnownInv, IsKnown
<1> QED
  BY <1>1, <1>2, <1>3, KnownStays, FeaturesStay

\* The user's values are among those an option may get.
LEMMA GivenWins ==
  ASSUME NEW specs, NEW user, ~MergeOptionsFails(specs, user),
         NEW o \in MergeOptions(specs, user), NEW k \in DOMAIN user
  PROVE  \E x \in DOMAIN user :
           NormKey[x] = NormKey[k] /\ o[NormKey[k]] = optionValue(specs[x], user[x])
<1> DEFINE given_(n) == {optionValue(specs[x], user[x]) : x \in {y \in DOMAIN user : NormKey[y] = n}}
           default(n) == {optionValue(specs[x], specs[x].default) :
                            x \in {y \in DOMAIN specs : NormKey[y] = n /\ specs[y].default # NoDefault}}
           values(n) == IF given_(n) # {} THEN given_(n) ELSE default(n)
           names == {n \in {NormKey[x] : x \in DOMAIN specs} : values(n) # {}}
<1>1. o \in {r \in [names -> UNION {values(n) : n \in names}] : \A n \in names : r[n] \in values(n)}
  BY DEF MergeOptions
<1>2. k \in DOMAIN specs
  BY DEF MergeOptionsFails
<1>3. \A v : v \in given_(NormKey[k]) <=>
        \E x \in DOMAIN user : NormKey[x] = NormKey[k] /\ v = optionValue(specs[x], user[x])
  OBVIOUS
<1>4. given_(NormKey[k]) # {}
  BY <1>3
<1>5. values(NormKey[k]) = given_(NormKey[k]) /\ NormKey[k] \in names
  BY <1>2, <1>4
<1>6. \A n \in names : o[n] \in values(n)
  BY <1>1
<1> HIDE DEF names, values, given_
<1>7. o[NormKey[k]] \in given_(NormKey[k])
  BY <1>5, <1>6
<1> QED
  BY <1>3, <1>7

\* The order is a list of the features.
LEMMA OrderIsList ==
  ASSUME cfg # NoConfig, KnownInv
  PROVE  /\ IsFiniteSet(FeatureIDs) /\ FeatureIDs \subseteq DOMAIN Catalog
         /\ InOrder(FeatureIDs, Metadata, Ordered(FeatureIDs, Metadata))
         /\ IsList(Ordered(FeatureIDs, Metadata))
<1> DEFINE r == Ordered(FeatureIDs, Metadata)
           meta == Metadata
<1>1. IsFiniteSet(FeatureIDs) /\ FeatureIDs \subseteq DOMAIN Catalog
  BY DEF KnownInv, IsKnown, FeatureIDs
<1> HIDE DEF meta
<1>2. InOrder(FeatureIDs, meta, Ordered(FeatureIDs, meta))
  BY <1>1, OrderIsSound
<1>3. r \in Seq(FeatureIDs)
  BY <1>2 DEF InOrder, meta
<1> HIDE DEF r
<1>4. IsList(r)
  BY <1>3, ListIs
<1> QED
  BY <1>1, <1>2, <1>4 DEF r, meta

\* A step that installs nothing.
LEMMA InstallStays ==
  ASSUME InstallInv, UNCHANGED <<image, req>>,
         req.runtime = "podman" =>
           /\ pc' \in Early \cup Loaded \cup {"features"} => pc \in Early \cup Loaded \cup {"features"}
           /\ pc' \in Ordering =>
                /\ pc \in Ordering /\ cfg' = cfg
                /\ IF pc' = "options" THEN pc = "options" /\ pending' = pending ELSE pc # "options"
  PROVE  InstallInv'
<1>1. ASSUME cfg' = cfg
      PROVE  /\ FeatureIDs' = FeatureIDs /\ Metadata' = Metadata
             /\ \A n : Installed(n)' = Installed(n)
  BY <1>1 DEF FeatureIDs, Metadata, Installed, Optioned
<1>2. CASE req.runtime = "podman" /\ pc' \in Ordering
  BY <1>1, <1>2 DEF InstallInv, Ordering, Early, Loaded
<1>3. CASE ~(req.runtime = "podman" /\ pc' \in Ordering)
  BY <1>3 DEF InstallInv, Ordering, Early, Loaded
<1> QED
  BY <1>2, <1>3

\* The order stands and nothing is installed yet.
LEMMA OrderPrepared ==
  ASSUME Inv, KnownInv, InstallInv, PrepareFeatures
  PROVE  InstallInv'
<1> DEFINE order == Ordered(FeatureIDs, Metadata)
<1>1. /\ req.runtime = "podman" /\ pc = "features" /\ pc' = "options"
      /\ UNCHANGED <<image, req, cfg>>
      /\ ~OrderFails(FeatureIDs, Metadata) /\ pending' = order
  BY DEF PrepareFeatures, PodmanStep, Step, podVars, PodmanUnchanged
<1>2. FeatureIDs' = FeatureIDs /\ Metadata' = Metadata
  BY <1>1 DEF FeatureIDs, Metadata
<1>3. cfg # NoConfig
  BY <1>1, NoneIsNoConfig DEF Inv, ConfigInv, BeforeLoaded
<1>4. IsList(order)
  BY <1>3, OrderIsList
<1>5. image.features = <<>> /\ Len(image.features) = 0
  BY <1>1 DEF InstallInv
<1>6. order' = order
  BY <1>2
<1> HIDE DEF order
<1>7. Suffix(order, order) /\ 0 = Len(order) - Len(order)
  BY <1>4, SuffixAll DEF IsList
<1>8. Installed(0)'
  BY DEF Installed
<1> QED
  BY <1>1, <1>2, <1>5, <1>6, <1>7, <1>8 DEF InstallInv, Early, Loaded, order

\* The next feature of the order is installed.
LEMMA OneInstalled ==
  ASSUME Inv, KnownInv, InstallInv, MergeFeatureOptions
  PROVE  InstallInv'
<1> DEFINE order == Ordered(FeatureIDs, Metadata)
           id == Head(pending)
           user == cfg.features[id]
<1>0. PICK n : n = Len(image.features)
  OBVIOUS
<1>1. /\ req.runtime = "podman" /\ pc = "options" /\ pc' = "options"
      /\ UNCHANGED <<req, cfg>> /\ pending # <<>> /\ pending' = Tail(pending)
  BY DEF MergeFeatureOptions, PodmanStep, Step, PodmanUnchanged
<1>2. PICK o : /\ o \in MergeOptions(Metadata[id].options, user)
               /\ ~MergeOptionsFails(Metadata[id].options, user)
               /\ image' = [image EXCEPT !.features = Append(image.features, [id |-> id, options |-> o])]
  BY DEF MergeFeatureOptions
<1> DEFINE new == [id |-> id, options |-> o]
<1>3. /\ image = [env |-> image.env, features |-> image.features, settings |-> image.settings]
      /\ IsList(image.features) /\ ~OrderFails(FeatureIDs, Metadata)
      /\ Installed(n) /\ Suffix(pending, order) /\ n = Len(order) - Len(pending)
  BY <1>0, <1>1 DEF InstallInv, Ordering
<1>4. /\ FeatureIDs' = FeatureIDs /\ Metadata' = Metadata /\ order' = order
      /\ \A f : Optioned(f)' = Optioned(f)
  BY <1>1 DEF FeatureIDs, Metadata, Optioned
<1>5. cfg # NoConfig
  BY <1>1, NoneIsNoConfig DEF Inv, ConfigInv, BeforeLoaded
<1>6. IsList(order)
  BY <1>5, OrderIsList
<1>7. Optioned(new)
  <2>1. new.id = id /\ new.options = o
    OBVIOUS
  <2> HIDE DEF new
  <2>2. \A k \in DOMAIN user : \E x \in DOMAIN user :
         NormKey[x] = NormKey[k] /\ o[NormKey[k]] = optionValue(Metadata[id].options[x], user[x])
    BY <1>2, GivenWins
  <2> QED
    BY <2>1, <2>2 DEF Optioned
<1>8. new.id = id
  OBVIOUS
<1> HIDE DEF new
<1>9. /\ image'.features = Append(image.features, new)
      /\ image' = [env |-> image'.env, features |-> image'.features, settings |-> image'.settings]
  BY <1>2, <1>3 DEF new
<1>10. /\ IsList(image'.features) /\ Len(image'.features) = n + 1 /\ n \in Nat
       /\ image'.features[n + 1] = new
       /\ \A i \in 1..n : image'.features[i] = image.features[i]
  <2>1. IsList(image'.features)
    BY <1>3, <1>9, ListGrows
  <2>2. image.features \in Seq(ToSet(image.features))
    BY <1>3 DEF IsList
  <2> QED
    BY <1>0, <1>9, <2>1, <2>2
<1> HIDE DEF order, id
<1>11. /\ Suffix(pending', order) /\ id = order[n + 1] /\ n + 1 = Len(order) - Len(pending')
  <2> DEFINE k == Len(order) - Len(pending) + 1
  <2>1. /\ Suffix(Tail(pending), order) /\ Head(pending) = order[k]
        /\ Len(order) - Len(Tail(pending)) = k
    BY <1>1, <1>3, <1>6, SuffixTail
  <2>2. k = n + 1
    BY <1>3
  <2> QED
    BY <1>1, <2>1, <2>2 DEF id
<1>12. ASSUME NEW i \in 1..(n + 1)
       PROVE  image'.features[i].id = order[i] /\ Optioned(image'.features[i])
  <2>1. i = n + 1 \/ i \in 1..n
    BY <1>10
  <2>2. CASE i = n + 1
    BY <1>7, <1>8, <1>10, <1>11, <2>2
  <2>3. CASE i \in 1..n
    <3>1. image.features[i].id = order[i] /\ Optioned(image.features[i])
      BY <1>3, <2>3 DEF Installed, order
    <3> QED
      BY <1>10, <2>3, <3>1
  <2> QED
    BY <2>1, <2>2, <2>3
<1>13. /\ \A i \in 1..(n + 1) : image'.features[i].id = order[i]
       /\ \A i \in 1..(n + 1) : \A k \in DOMAIN cfg.features[image'.features[i].id] :
            \E x \in DOMAIN cfg.features[image'.features[i].id] :
              /\ NormKey[x] = NormKey[k]
              /\ image'.features[i].options[NormKey[k]] =
                   optionValue(Metadata[image'.features[i].id].options[x],
                               cfg.features[image'.features[i].id][x])
  BY <1>12 DEF Optioned
<1>14. order' = Ordered(FeatureIDs', Metadata') /\ cfg' = cfg
  BY <1>1 DEF order
<1>15. Installed(n + 1)'
  BY <1>4, <1>13, <1>14 DEF Installed, Optioned
<1>16. Installed(Len(image.features))'
  BY <1>10, <1>15
<1>17. ~OrderFails(FeatureIDs', Metadata')
  BY <1>3, <1>4
<1> QED
  BY <1>1, <1>4, <1>9, <1>10, <1>11, <1>14, <1>16, <1>17 DEF InstallInv, Early, Loaded

\* Every step.
LEMMA InstallNext ==
  ASSUME Inv, KnownInv, InstallInv, [Next]_vars
  PROVE  InstallInv'
<1>1. CASE UNCHANGED vars
  BY <1>1, InstallStays DEF vars, addVars, loopVars, podVars
<1>2. CASE AddNext /\ UNCHANGED podVars
  <2>1. UNCHANGED <<image, req>>
    BY <1>2 DEF AddNext, EditWorld, RegisterRuntimes, LoadWorkspace, LoadProjectConfig,
       LoadAgentConfig, MapSecret, ReadAgentSettings, SetUpAgent, AddFails, podVars
  <2>2. CASE EditWorld
    BY <2>1, <2>2, InstallStays DEF EditWorld, loopVars
  <2>3. CASE ~EditWorld
    <3>1. /\ pc \in Early \cup Loaded
          /\ pc' \in Early \cup Loaded \cup {"dumped", "failed"}
      BY <1>2, <2>3 DEF AddNext, RegisterRuntimes, LoadWorkspace, LoadProjectConfig,
         LoadAgentConfig, MapSecret, ReadAgentSettings, SetUpAgent, AddFails, AddAccepts, Step,
         Early, Loaded
    <3> QED
      BY <2>1, <3>1, InstallStays DEF Ordering, Early, Loaded
  <2> QED
    BY <2>2, <2>3
<1>3. CASE SandboxNext /\ UNCHANGED podVars
  BY <1>3, SandboxMoves, InstallStays DEF podVars
<1>4. CASE PrepareFeatures
  BY <1>4, OrderPrepared
<1>5. CASE MergeFeatureOptions
  BY <1>5, OneInstalled
<1>6. CASE PodmanLoadConfig
  <2>1. /\ req.runtime = "podman" /\ pc = "create" /\ pc' = "features" /\ req' = req
        /\ \E env : image' = [image EXCEPT !.env = env]
    BY <1>6 DEF PodmanLoadConfig, PodmanStep, Step, PodmanUnchanged
  <2>2. /\ image = [env |-> image.env, features |-> image.features, settings |-> image.settings]
        /\ IsList(image.features) /\ image.features = <<>>
    BY <2>1 DEF InstallInv, Loaded
  <2>3. /\ image' = [env |-> image'.env, features |-> image'.features, settings |-> image'.settings]
        /\ image'.features = image.features
    BY <2>1, <2>2
  <2> QED
    BY <2>1, <2>2, <2>3 DEF InstallInv, Ordering
<1>7. CASE BuildImage
  <2>1. /\ req.runtime = "podman" /\ pc = "options" /\ pc' = "pod" /\ req' = req /\ cfg' = cfg
        /\ pending = <<>> /\ \E s : image' = [image EXCEPT !.settings = s]
    BY <1>7 DEF BuildImage, PodmanStep, Step, PodmanUnchanged
  <2> DEFINE order == Ordered(FeatureIDs, Metadata)
  <2>2. /\ image = [env |-> image.env, features |-> image.features, settings |-> image.settings]
        /\ IsList(image.features) /\ ~OrderFails(FeatureIDs, Metadata)
        /\ Installed(Len(image.features))
        /\ Suffix(pending, order) /\ Len(image.features) = Len(order) - Len(pending)
    BY <2>1 DEF InstallInv, Ordering
  <2>3. /\ image' = [env |-> image'.env, features |-> image'.features, settings |-> image'.settings]
        /\ image'.features = image.features
    BY <2>1, <2>2
  <2>4. FeatureIDs' = FeatureIDs /\ Metadata' = Metadata
    BY <2>1 DEF FeatureIDs, Metadata
  <2>5. Installed(Len(image.features))'
    BY <2>1, <2>2, <2>3, <2>4 DEF Installed, Optioned
  <2>6. Len(image.features) = Len(order)
    <3>1. cfg # NoConfig
      BY <2>1, NoneIsNoConfig DEF Inv, ConfigInv, BeforeLoaded
    <3>2. Len(order) \in Nat /\ Len(pending) = 0
      BY <2>1, <3>1, OrderIsList DEF IsList
    <3> QED
      BY <2>2, <3>2
  <2> QED
    BY <2>1, <2>2, <2>3, <2>4, <2>5, <2>6 DEF InstallInv, Early, Loaded
<1>8. CASE \/ KubePlay \/ DetectCredential \/ FakeCredential \/ SetupOnecli
           \/ ConfigureCredential \/ CreateContainer \/ PodmanFails
  <2>1. UNCHANGED <<image, req, cfg>>
    BY <1>8 DEF KubePlay, DetectCredential, FakeCredential, SetupOnecli,
       ConfigureCredential,
       CreateContainer, PodmanFails, PodmanUnchanged, podVars
  <2>2. \/ pc' = "failed"
        \/ pc \in Ordering \ {"options"} /\ pc' \in Ordering \ {"options"}
    BY <1>8 DEF KubePlay, DetectCredential, FakeCredential, SetupOnecli,
       ConfigureCredential,
       CreateContainer, PodmanFails, PodmanStep, Step, Ordering
  <2> QED
    BY <2>1, <2>2, InstallStays DEF Ordering, Early, Loaded
<1> QED
  BY <1>1, <1>2, <1>3, <1>4, <1>5, <1>6, <1>7, <1>8 DEF Next, PodmanNext

\* Throughout podman's creation (podman/create.go, prepareFeatures) what is installed
\* so far is the beginning of the order that was computed from the configuration as
\* it still is, each feature with every option the user gave.
THEOREM InstallInvariance == Spec => [](KnownInv /\ InstallInv)
<1>1. CreationInit => KnownInv /\ InstallInv
  <2> SUFFICES ASSUME CreationInit PROVE KnownInv /\ InstallInv
    OBVIOUS
  <2>1. /\ pc = "start" /\ cfg = NoConfig
        /\ image = [env |-> Nothing, features |-> <<>>, settings |-> Nothing]
    BY DEF CreationInit, Init, PodmanInit
  <2>2. IsList(<<>>)
    BY DEF IsList, ToSet
  <2> QED
    BY <2>1, <2>2 DEF KnownInv, InstallInv, Ordering
<1>2. Inv /\ [Next]_vars /\ KnownInv /\ InstallInv => KnownInv' /\ InstallInv'
  BY KnownNext, InstallNext
<1> QED
  BY <1>1, <1>2, Invariance, PTL DEF Spec

\* Every feature of the configuration is installed once and after those it depends
\* on; of those that could be next the one with the smallest ID is; and an option has
\* the value the user gave it (features.go, Order; metadata.go, MergeOptions).
THEOREM FeaturesAreInOrder == Spec => []FeaturesInOrder
<1>1. Inv /\ KnownInv /\ InstallInv => FeaturesInOrder
  <2> SUFFICES ASSUME Inv, KnownInv, InstallInv, PodmanCreated PROVE FeaturesInOrder
    BY DEF FeaturesInOrder
  <2> DEFINE f == image.features
             ids == FeatureIDs
             meta == Metadata
             order == Ordered(ids, meta)
             n == Cardinality(ids)
             before(i) == {d \in FeatureIDs : featureBaseID(d) \in Metadata[f[i].id].after}
  <2>1. cfg # NoConfig
    BY NoneIsNoConfig DEF Inv, ConfigInv, BeforeLoaded, PodmanCreated
  <2>2. /\ IsList(f) /\ ~OrderFails(ids, meta) /\ Installed(Len(f)) /\ Len(f) = Len(order)
    BY DEF InstallInv, PodmanCreated, Ordering
  <2>3. IsFiniteSet(ids) /\ ids \subseteq DOMAIN Catalog /\ InOrder(ids, meta, order)
    BY <2>1, OrderIsList
  <2>4. Len(order) = n /\ n \in Nat
    BY <2>2, <2>3, FS_CardinalityType DEF OrderFails
  <2> HIDE DEF meta, n, ids
  <2>5. ToSet(order) = ids
    BY <2>3, <2>4, OrderIsSound DEF n
  <2>6. /\ DOMAIN f = 1..n /\ Len(f) = n
        /\ \A i \in 1..n : f[i].id = order[i] /\ Optioned(f[i])
    BY <2>2, <2>4 DEF IsList, Installed, ids, meta
  <2>7. \A i \in 1..n : before(i) = Before(ids, meta, order[i])
    BY <2>6 DEF Before, ids, meta
  <2> HIDE DEF f, order, before
  <2>8. /\ order \in Seq(ids) /\ DOMAIN order = 1..n
        /\ \A i, j \in 1..n : order[i] = order[j] => i = j
        /\ \A j \in 1..n : \A d \in before(j) : \E i \in 1..(j - 1) : order[i] = d
        /\ \A i \in 1..n : \A x \in ids :
             Catalog[x].rank < Catalog[order[i]].rank
               => \/ \E k \in 1..(i - 1) : order[k] = x
                  \/ \E d \in Before(ids, meta, x) : \A k \in 1..(i - 1) : order[k] # d
    <3>1. order \in Seq(ids) /\ DOMAIN order = 1..n
      BY <2>3, <2>4 DEF InOrder
    <3> QED
      BY <2>3, <2>7, <3>1 DEF InOrder
  <2>9. \A i \in 1..n : \A k \in 1..(i - 1) : k \in 1..n /\ k < i
    BY <2>4
  <2>10. {f[i].id : i \in DOMAIN f} = ids
    <3>1. \A x : x \in ids <=> \E i \in 1..n : order[i] = x
      BY <2>5, <2>8 DEF ToSet
    <3> QED
      BY <2>6, <3>1
  <2>11. ASSUME NEW i \in 1..n, NEW j \in 1..n, f[i].id \in before(j) PROVE i < j
    <3>1. PICK k \in 1..(j - 1) : order[k] = f[i].id
      BY <2>8, <2>11
    <3> QED
      BY <2>6, <2>8, <2>9, <3>1
  <2>12. ASSUME NEW i \in 1..n, NEW j \in 1..n, i < j,
                Catalog[f[j].id].rank < Catalog[f[i].id].rank
         PROVE  \E d \in before(j) : d \notin {f[k].id : k \in 1..(i - 1)}
    <3>1. ASSUME NEW k \in 1..(i - 1) PROVE order[k] # order[j]
      <4>1. k \in 1..n /\ k # j
        BY <2>4, <2>9, <2>12
      <4>2. \A a, b \in 1..n : order[a] = order[b] => a = b
        BY <2>8
      <4>3. order[k] = order[j] => k = j
        BY <4>1, <4>2, Zenon
      <4> QED
        BY <4>1, <4>3
    <3>2. order[j] \in ids
      <4>1. order \in Seq(ids) /\ j \in DOMAIN order
        BY <2>8
      <4> QED
        BY <4>1
    <3>3. PICK d \in before(j) : \A k \in 1..(i - 1) : order[k] # d
      BY <2>6, <2>7, <2>8, <2>12, <3>1, <3>2
    <3>4. \A k \in 1..(i - 1) : f[k].id # d
      BY <2>6, <2>9, <3>3
    <3> QED
      BY <3>3, <3>4
  <2>13. \A i \in 1..n :
           LET user == cfg.features[f[i].id]
           IN \A k \in DOMAIN user :
                \E x \in DOMAIN user : /\ NormKey[x] = NormKey[k]
                                       /\ f[i].options[NormKey[k]] = optionValue(Metadata[f[i].id].options[x], user[x])
    BY <2>6 DEF Optioned
  <2>14. /\ Len(f) = Cardinality(ids) /\ {f[i].id : i \in DOMAIN f} = ids
         /\ \A i, j \in DOMAIN f : f[i].id \in before(j) => i < j
         /\ \A i, j \in DOMAIN f :
              i < j /\ Catalog[f[j].id].rank < Catalog[f[i].id].rank
                => \E d \in before(j) : d \notin {f[k].id : k \in 1..(i - 1)}
         /\ \A i \in DOMAIN f :
              LET user == cfg.features[f[i].id]
              IN \A k \in DOMAIN user :
                   \E x \in DOMAIN user : /\ NormKey[x] = NormKey[k]
                                          /\ f[i].options[NormKey[k]] = optionValue(Metadata[f[i].id].options[x], user[x])
    <3>1. Len(f) = Cardinality(ids)
      BY <2>6 DEF n
    <3>2. DOMAIN f = 1..n
      BY <2>6
    <3> HIDE DEF ids
    <3> QED
      BY <2>10, <2>11, <2>12, <2>13, <3>1, <3>2
  <2> QED
    BY <2>14, Zenon DEF FeaturesInOrder, f, before, ids
<1> QED
  BY <1>1, Invariance, InstallInvariance, PTL

-----------------------------------------------------------------------------
(* The agent's settings.                                                   *)

\* A list is within another if it has the same elements up to its length.
LEMMA PrefixIs ==
  ASSUME NEW s, NEW t, IsList(s), IsList(t)
  PROVE  /\ Len(s) \in Nat /\ Len(t) \in Nat
         /\ IsPrefix(s, t) <=> Len(s) <= Len(t) /\ \A i \in 1..Len(s) : s[i] = t[i]
<1>1. /\ Len(s) \in Nat /\ Len(t) \in Nat /\ s \in Seq(ToSet(s)) /\ t \in Seq(ToSet(t))
      /\ DOMAIN s = 1..Len(s) /\ DOMAIN t = 1..Len(t)
  BY DEF IsList
<1>2. CASE Len(s) <= Len(t)
  <2> DEFINE a == SubSeq(s, 1, Len(s))
             b == SubSeq(t, 1, Len(s))
  <2>1. /\ a \in Seq(ToSet(s)) /\ Len(a) = Len(s) /\ \A i \in 1..Len(s) : a[i] = s[i]
        /\ b \in Seq(ToSet(t)) /\ Len(b) = Len(s) /\ \A i \in 1..Len(s) : b[i] = t[i]
    BY <1>1, <1>2
  <2> HIDE DEF a, b
  <2>2. a = b <=> \A i \in 1..Len(s) : s[i] = t[i]
    BY <1>1, <2>1
  <2>3. IsPrefix(s, t) <=> a = b
    BY <1>2 DEF IsPrefix, a, b
  <2> QED
    BY <1>1, <1>2, <2>2, <2>3
<1>3. CASE ~(Len(s) <= Len(t))
  BY <1>1, <1>3 DEF IsPrefix
<1> QED
  BY <1>2, <1>3

\* A field under a key.
IsField(f) == IsList(f) /\ f # <<>>

\* Fields under different keys are in no conflict.
LEMMA KeysConflict ==
  ASSUME NEW f, NEW g, IsField(f), IsField(g), Conflict(f, g)
  PROVE  f[1] = g[1]
<1>1. f \in Seq(ToSet(f)) /\ g \in Seq(ToSet(g)) /\ f # <<>> /\ g # <<>>
  BY DEF IsField, IsList
<1>2. Len(f) \in Nat \ {0} /\ Len(g) \in Nat \ {0}
  BY <1>1
<1>3. 1 \in 1..Len(f) /\ 1 \in 1..Len(g)
  BY <1>2
<1> QED
  BY <1>3, PrefixIs DEF Conflict, IsField

\* The fields that are written here, of up to four keys.
LEMMA FieldsAre ==
  /\ \A a : IsField(<<a>>) /\ <<a>>[1] = a
  /\ \A a, b : IsField(<<a, b>>) /\ <<a, b>>[1] = a
  /\ \A a, b, c : IsField(<<a, b, c>>) /\ <<a, b, c>>[1] = a
<1>1. ASSUME NEW a PROVE IsField(<<a>>) /\ <<a>>[1] = a
  <2>1. <<a>> \in Seq({a})
    OBVIOUS
  <2> QED
    BY <2>1, ListIs DEF IsField
<1>2. ASSUME NEW a, NEW b PROVE IsField(<<a, b>>) /\ <<a, b>>[1] = a
  <2>1. <<a, b>> \in Seq({a, b})
    OBVIOUS
  <2> QED
    BY <2>1, ListIs DEF IsField
<1>3. ASSUME NEW a, NEW b, NEW c PROVE IsField(<<a, b, c>>) /\ <<a, b, c>>[1] = a
  <2>1. <<a, b, c>> \in Seq({a, b, c})
    OBVIOUS
  <2> QED
    BY <2>1, ListIs DEF IsField
<1> QED
  BY <1>1, <1>2, <1>3

\* A field of an OpenCode provider, and of an MCP entry.
LEMMA ProviderFieldIs ==
  ASSUME NEW p, NEW rest, IsList(rest)
  PROVE  IsField(ProviderField(p, rest)) /\ ProviderField(p, rest)[1] = "provider"
<1> DEFINE r == ProviderField(p, rest)
           E == {"provider", p} \cup ToSet(rest)
<1>1. rest \in Seq(E) /\ <<"provider", p>> \in Seq(E)
  BY DEF IsList
<1>2. r \in Seq(E) /\ Len(r) = 2 + Len(rest) /\ r[1] = "provider" /\ Len(rest) \in Nat
  BY <1>1 DEF ProviderField
<1>3. IsList(r) /\ r # <<>>
  BY <1>2, ListIs
<1> QED
  BY <1>2, <1>3 DEF IsField

-----------------------------------------------------------------------------

\* What an edit of a document that writes the fields of W leaves alone.
Keeps(W, doc, new) ==
  \A f \in DOMAIN doc :
    IsField(f) /\ (\A w \in W : ~Conflict(f, w)) => f \in DOMAIN new /\ new[f] = doc[f]

LEMMA KeepsMore ==
  ASSUME NEW W, NEW V, W \subseteq V, NEW doc, NEW new, Keeps(W, doc, new)
  PROVE  Keeps(V, doc, new)
BY DEF Keeps

LEMMA KeepsBoth ==
  ASSUME NEW W, NEW doc, NEW next, NEW new, Keeps(W, doc, next), Keeps(W, next, new)
  PROVE  Keeps(W, doc, new)
BY DEF Keeps

LEMMA KeepsSame ==
  ASSUME NEW W, NEW doc
  PROVE  Keeps(W, doc, doc)
BY DEF Keeps

\* Fields under other keys than those of W are kept.
LEMMA KeepsOthers ==
  ASSUME NEW W, NEW doc, NEW new, Keeps(W, doc, new),
         \A w \in W : IsField(w),
         NEW f \in DOMAIN doc, IsField(f), \A w \in W : w[1] # f[1]
  PROVE  f \in DOMAIN new /\ new[f] = doc[f]
<1>1. \A w \in W : ~Conflict(f, w)
  BY KeysConflict
<1> QED
  BY <1>1 DEF Keeps, IsField

\* The fields are set, and what is in conflict with none of them is kept.
LEMMA PutAllIs ==
  ASSUME NEW doc, NEW fields
  PROVE  LET r == PutAll(doc, fields)
         IN /\ \A f \in DOMAIN fields : f \in DOMAIN r /\ r[f] = fields[f]
            /\ Keeps(DOMAIN fields, doc, r)
<1> DEFINE r == PutAll(doc, fields)
           kept == {f \in DOMAIN doc : \A g \in DOMAIN fields : ~Conflict(f, g)}
<1>1. \A f : f \in DOMAIN r <=> f \in DOMAIN fields \/ f \in kept
  BY DEF PutAll, Over
<1>2. /\ \A f \in DOMAIN fields : r[f] = fields[f]
      /\ \A f \in kept : f \notin DOMAIN fields => r[f] = doc[f]
  BY DEF PutAll, Over
<1>3. \A f \in kept : IsField(f) => f \notin DOMAIN fields
  BY PrefixIs DEF Conflict, IsField
<1>4. Keeps(DOMAIN fields, doc, r)
  <2> HIDE DEF r
  <2> QED
    BY <1>1, <1>2, <1>3 DEF Keeps
<1> QED
  BY <1>1, <1>2, <1>4

LEMMA PutIs ==
  ASSUME NEW doc, NEW field, NEW value
  PROVE  LET r == Put(doc, field, value)
         IN field \in DOMAIN r /\ r[field] = value /\ Keeps({field}, doc, r)
<1>1. DOMAIN At(field, value) = {field} /\ At(field, value)[field] = value
  BY DEF At
<1> QED
  BY <1>1, PutAllIs DEF Put

LEMMA OverIs ==
  ASSUME NEW a, NEW x, NEW b, NEW y
  PROVE  DOMAIN Over(At(a, x), At(b, y)) = {a, b}
BY DEF Over, At

LEMMA SetContentIs ==
  ASSUME NEW s, NEW path, NEW doc
  PROVE  /\ \A p : p \in DOMAIN SetContent(s, path, doc) <=> p \in DOMAIN s \/ p = path
         /\ SetContent(s, path, doc)[path] = doc
         /\ \A p \in DOMAIN s : p # path => SetContent(s, path, doc)[p] = s[p]
         /\ GetContent(SetContent(s, path, doc), path) = doc
         /\ \A p : p # path => GetContent(SetContent(s, path, doc), p) = GetContent(s, p)
BY DEF SetContent, GetContent, Over, At

\* A document that has a field is not null.
LEMMA NotNull ==
  ASSUME NEW doc, NEW f \in DOMAIN doc, f # <<>>
  PROVE  doc # NullDoc
BY DEF NullDoc, At

-----------------------------------------------------------------------------

LEMMA AppendedKey ==
  ASSUME NEW prefix, IsField(prefix), NEW n
  PROVE  /\ IsField(Append(prefix, n)) /\ Append(prefix, n)[1] = prefix[1]
         /\ Last(Append(prefix, n)) = n
<1> DEFINE E == ToSet(prefix) \cup {n}
           r == Append(prefix, n)
<1>1. prefix \in Seq(E) /\ n \in E /\ prefix # <<>>
  BY DEF IsField, IsList
<1>2. /\ r \in Seq(E) /\ Len(r) = Len(prefix) + 1 /\ r[Len(r)] = n /\ r[1] = prefix[1]
      /\ Len(prefix) \in Nat
  BY <1>1
<1>3. Last(r) = n
  BY <1>2 DEF Last
<1> HIDE DEF r
<1>4. IsList(r) /\ r # <<>>
  BY <1>2, ListIs
<1> QED
  BY <1>2, <1>3, <1>4 DEF IsField, r

LEMMA AppendedKeys ==
  /\ \A a, n : Append(<<a>>, n) = <<a, n>>
  /\ \A a, b, n : Append(<<a, b>>, n) = <<a, b, n>>
<1>1. ASSUME NEW a, NEW n PROVE Append(<<a>>, n) = <<a, n>>
  <2> DEFINE r == Append(<<a>>, n)
             t == <<a, n>>
  <2>1. <<a>> \in Seq({a, n}) /\ Len(<<a>>) = 1 /\ <<a>>[1] = a
    OBVIOUS
  <2>2. r \in Seq({a, n}) /\ Len(r) = 2 /\ r[1] = a /\ r[2] = n
    BY <2>1
  <2>3. t \in Seq({a, n}) /\ Len(t) = 2 /\ t[1] = a /\ t[2] = n
    OBVIOUS
  <2> HIDE DEF r, t
  <2>4. \A i \in 1..2 : r[i] = t[i]
    BY <2>2, <2>3
  <2>5. r = t
    BY <2>2, <2>3, <2>4
  <2> QED
    BY <2>5 DEF r, t
<1>2. ASSUME NEW a, NEW b, NEW n PROVE Append(<<a, b>>, n) = <<a, b, n>>
  <2> DEFINE r == Append(<<a, b>>, n)
             t == <<a, b, n>>
  <2>1. <<a, b>> \in Seq({a, b, n}) /\ Len(<<a, b>>) = 2 /\ <<a, b>>[1] = a /\ <<a, b>>[2] = b
    OBVIOUS
  <2>2. r \in Seq({a, b, n}) /\ Len(r) = 3 /\ r[1] = a /\ r[2] = b /\ r[3] = n
    BY <2>1
  <2>3. t \in Seq({a, b, n}) /\ Len(t) = 3 /\ t[1] = a /\ t[2] = b /\ t[3] = n
    OBVIOUS
  <2> HIDE DEF r, t
  <2>4. \A i \in 1..3 : r[i] = t[i]
    BY <2>2, <2>3
  <2>5. r = t
    BY <2>2, <2>3, <2>4
  <2> QED
    BY <2>5 DEF r, t
<1> QED
  BY <1>1, <1>2

\* The entries of a list that names nothing twice.
LEMMA McpEntriesAre ==
  ASSUME NEW prefix, IsField(prefix), NEW list, NoRepeat(list), NEW kind
  PROVE  /\ \A f : f \in DOMAIN McpEntries(prefix, list, kind)
                    <=> \E n \in NamesOf(list) : f = Append(prefix, n)
         /\ \A e \in ToSet(list) :
              McpEntries(prefix, list, kind)[Append(prefix, e.name)] = <<kind, e.val>>
<1> DEFINE r == McpEntries(prefix, list, kind)
<1>1. \A f : f \in DOMAIN r <=> \E n \in NamesOf(list) : f = Append(prefix, n)
  BY DEF McpEntries
<1>2. ASSUME NEW e \in ToSet(list) PROVE r[Append(prefix, e.name)] = <<kind, e.val>>
  <2>1. e.name \in NamesOf(list)
    BY DEF NamesOf, ToSet
  <2>2. r[Append(prefix, e.name)] = <<kind, Entry(list, Last(Append(prefix, e.name))).val>>
    BY <2>1 DEF McpEntries
  <2>3. Entry(list, e.name) = e
    BY TheEntry
  <2> QED
    BY <2>2, <2>3, AppendedKey
<1> QED
  BY <1>1, <1>2

\* An entry of a list of commands or servers is in a document.
HasEntries(doc, prefix, list, kind) ==
  \A e \in ToSet(list) : /\ Append(prefix, e.name) \in DOMAIN doc
                         /\ doc[Append(prefix, e.name)] = <<kind, e.val>>

\* The entries of commands and servers of which no two have a name.
LEMMA PutMCPIs ==
  ASSUME NEW doc, NEW prefix, IsField(prefix), NEW cmds, NEW srvs,
         NoRepeat(cmds), NoRepeat(srvs), NamesOf(cmds) \cap NamesOf(srvs) = {},
         NEW stdio, NEW remote
  PROVE  /\ Keeps({Append(prefix, n) : n \in NamesOf(cmds) \cup NamesOf(srvs)}, doc,
                  PutMCP(doc, prefix, cmds, srvs, stdio, remote))
         /\ HasEntries(PutMCP(doc, prefix, cmds, srvs, stdio, remote), prefix, cmds, stdio)
         /\ HasEntries(PutMCP(doc, prefix, cmds, srvs, stdio, remote), prefix, srvs, remote)
<1> DEFINE c == McpEntries(prefix, cmds, stdio)
           v == McpEntries(prefix, srvs, remote)
           both == Over(v, c)
           r == PutMCP(doc, prefix, cmds, srvs, stdio, remote)
           W == {Append(prefix, n) : n \in NamesOf(cmds) \cup NamesOf(srvs)}
<1>1. ASSUME NEW list, NEW kind, NoRepeat(list)
      PROVE  LET m == McpEntries(prefix, list, kind)
             IN /\ \A f : f \in DOMAIN m <=> \E n \in NamesOf(list) : f = Append(prefix, n)
                /\ \A e \in ToSet(list) : m[Append(prefix, e.name)] = <<kind, e.val>>
  BY <1>1, McpEntriesAre
<1>2. /\ \A f : f \in DOMAIN c <=> \E n \in NamesOf(cmds) : f = Append(prefix, n)
      /\ \A e \in ToSet(cmds) : c[Append(prefix, e.name)] = <<stdio, e.val>>
      /\ \A f : f \in DOMAIN v <=> \E n \in NamesOf(srvs) : f = Append(prefix, n)
      /\ \A e \in ToSet(srvs) : v[Append(prefix, e.name)] = <<remote, e.val>>
  BY <1>1, Zenon
<1>3. \A m, n : Append(prefix, m) = Append(prefix, n) => m = n
  BY AppendedKey
<1>4. /\ \A e \in ToSet(cmds) : e.name \in NamesOf(cmds)
      /\ \A e \in ToSet(srvs) : e.name \in NamesOf(srvs)
  BY DEF NamesOf, ToSet
<1> HIDE DEF c, v
<1>5. /\ \A f : f \in DOMAIN both <=> f \in DOMAIN c \/ f \in DOMAIN v
      /\ \A f \in DOMAIN v : both[f] = v[f]
      /\ \A f \in DOMAIN c : f \notin DOMAIN v => both[f] = c[f]
  BY DEF Over
<1>6. r = PutAll(doc, both)
  BY DEF PutMCP, c, v
<1> HIDE DEF both, r
<1>7. /\ \A f \in DOMAIN both : f \in DOMAIN r /\ r[f] = both[f]
      /\ Keeps(DOMAIN both, doc, r)
  BY <1>6, PutAllIs
<1>8. \A e \in ToSet(cmds) : /\ Append(prefix, e.name) \in DOMAIN r
                             /\ r[Append(prefix, e.name)] = <<stdio, e.val>>
  <2> TAKE e \in ToSet(cmds)
  <2>1. Append(prefix, e.name) \in DOMAIN c /\ Append(prefix, e.name) \notin DOMAIN v
    BY <1>2, <1>3, <1>4
  <2> QED
    BY <1>2, <1>5, <1>7, <2>1
<1>9. \A e \in ToSet(srvs) : /\ Append(prefix, e.name) \in DOMAIN r
                             /\ r[Append(prefix, e.name)] = <<remote, e.val>>
  BY <1>2, <1>4, <1>5, <1>7
<1>10. \A f \in DOMAIN both : f \in W
  BY <1>2, <1>5
<1>11. Keeps(W, doc, r)
  BY <1>7, <1>10, KeepsMore
<1>12. HasEntries(r, prefix, cmds, stdio) /\ HasEntries(r, prefix, srvs, remote)
  BY <1>8, <1>9 DEF HasEntries
<1> QED
  BY <1>11, <1>12 DEF r

-----------------------------------------------------------------------------

ClaudeFields ==
  {<<"hasCompletedOnboarding">>, <<"customApiKeyResponses", "approved">>,
   <<"projects", "sources", "hasTrustDialogAccepted">>}

\* The approved keys are the user's and the new ones.
LEMMA ClaudeOnboardedIs ==
  ASSUME NEW doc, NEW keys
  PROVE  LET r == ClaudeOnboarded(doc, keys)
             approved == <<"customApiKeyResponses", "approved">>
         IN /\ Keeps(ClaudeFields, doc, r)
            /\ <<"hasCompletedOnboarding">> \in DOMAIN r
            /\ keys # {} => approved \in DOMAIN r /\ keys \subseteq r[approved]
            /\ approved \in DOMAIN doc => approved \in DOMAIN r /\ doc[approved] \subseteq r[approved]
<1> DEFINE hc == <<"hasCompletedOnboarding">>
           ta == <<"projects", "sources", "hasTrustDialogAccepted">>
           approved == <<"customApiKeyResponses", "approved">>
           old == IF approved \in DOMAIN doc THEN doc[approved] ELSE {}
           t == PutAll(doc, Over(At(hc, TRUE), At(ta, TRUE)))
           u == Put(t, approved, old \cup keys)
           r == ClaudeOnboarded(doc, keys)
<1>1. /\ IsField(hc) /\ hc[1] = "hasCompletedOnboarding" /\ IsField(ta) /\ ta[1] = "projects"
      /\ IsField(approved) /\ approved[1] = "customApiKeyResponses"
  BY FieldsAre
<1>2. r = IF keys = {} THEN t ELSE u
  BY DEF ClaudeOnboarded
<1>3. DOMAIN Over(At(hc, TRUE), At(ta, TRUE)) = {hc, ta}
  BY OverIs
<1> HIDE DEF hc, ta, approved, r
<1>4. Keeps({hc, ta}, doc, t) /\ hc \in DOMAIN t
  BY <1>3, PutAllIs
<1>5. approved \in DOMAIN doc => approved \in DOMAIN t /\ t[approved] = doc[approved]
  <2>1. ~Conflict(approved, hc) /\ ~Conflict(approved, ta)
    BY <1>1, KeysConflict
  <2> QED
    BY <1>1, <1>4, <2>1 DEF Keeps
<1> HIDE DEF t, old
<1>6. Keeps({approved}, t, u) /\ approved \in DOMAIN u /\ u[approved] = old \cup keys
  BY PutIs
<1>7. hc \in DOMAIN u
  BY <1>1, <1>4, <1>6, KeepsOthers
<1> HIDE DEF u
<1>8. Keeps({hc, approved, ta}, doc, t)
  BY <1>4, KeepsMore
<1>9. Keeps({hc, approved, ta}, doc, u)
  <2>1. Keeps({hc, approved, ta}, t, u)
    BY <1>6, KeepsMore
  <2> QED
    BY <1>8, <2>1, KeepsBoth
<1>10. Keeps(ClaudeFields, doc, r)
  BY <1>2, <1>8, <1>9 DEF ClaudeFields, hc, approved, ta
<1>11. keys # {} => approved \in DOMAIN r /\ keys \subseteq r[approved]
  BY <1>2, <1>6
<1>12. approved \in DOMAIN doc => approved \in DOMAIN r /\ doc[approved] \subseteq r[approved]
  BY <1>2, <1>5, <1>6 DEF old
<1>13. hc \in DOMAIN r
  BY <1>2, <1>4, <1>7
<1> QED
  BY <1>10, <1>11, <1>12, <1>13 DEF r, hc, approved

LEMMA CursorModelIs ==
  ASSUME NEW doc, NEW model
  PROVE  LET r == CursorModel(doc, model)
         IN /\ Keeps({<<"model">>, <<"hasChangedDefaultModel">>}, doc, r)
            /\ <<"model">> \in DOMAIN r
<1> DEFINE a == <<"model">>
           b == <<"hasChangedDefaultModel">>
<1> HIDE DEF a, b
<1>1. DOMAIN Over(At(a, model.name), At(b, TRUE)) = {a, b}
  BY OverIs
<1> QED
  BY <1>1, PutAllIs DEF CursorModel, a, b

\* Telemetry is turned off unless the user says something of it.
LEMMA GooseOnboardedIs ==
  ASSUME NEW doc, \A f \in DOMAIN doc : IsField(f)
  PROVE  LET r == GooseOnboarded(doc)
             key == <<"GOOSE_TELEMETRY_ENABLED">>
         IN /\ Keeps({}, doc, r)
            /\ \E f \in DOMAIN r : IsField(f) /\ IsPrefix(key, f)
<1> DEFINE key == <<"GOOSE_TELEMETRY_ENABLED">>
           r == GooseOnboarded(doc)
<1>1. IsField(key) /\ Len(key) = 1
  BY FieldsAre
<1>2. CASE \E f \in DOMAIN doc : IsPrefix(key, f)
  BY <1>2, KeepsSame DEF GooseOnboarded
<1>3. CASE ~\E f \in DOMAIN doc : IsPrefix(key, f)
  <2>1. r = Put(doc, key, FALSE)
    BY <1>3 DEF GooseOnboarded
  <2> HIDE DEF key, r
  <2>2. key \in DOMAIN r /\ Keeps({key}, doc, r)
    BY <2>1, PutIs
  <2>3. ASSUME NEW f \in DOMAIN doc PROVE ~Conflict(f, key)
    <3>1. SUFFICES ASSUME IsPrefix(f, key) PROVE FALSE
      BY <1>3 DEF Conflict
    <3>2. f \in Seq(ToSet(f)) /\ f # <<>> /\ IsField(f) /\ IsList(f)
      BY DEF IsField, IsList
    <3>3. Len(f) \in Nat /\ Len(f) # 0
      BY <3>2
    <3>4. Len(f) <= 1 /\ \A i \in 1..Len(f) : f[i] = key[i]
      BY <1>1, <3>1, <3>2, PrefixIs DEF IsField
    <3>5. Len(f) = 1 /\ \A i \in 1..1 : key[i] = f[i]
      <4>1. Len(f) = 1
        BY <3>3, <3>4
      <4> QED
        BY <3>4, <4>1
    <3>6. IsPrefix(key, f)
      BY <1>1, <3>2, <3>5, PrefixIs DEF IsField
    <3> QED
      BY <1>3, <3>6
  <2>4. Keeps({}, doc, r)
    BY <2>2, <2>3 DEF Keeps
  <2>5. IsPrefix(key, key)
    BY <1>1, PrefixIs DEF IsField
  <2> QED
    BY <1>1, <2>2, <2>4, <2>5 DEF r, key
<1> QED
  BY <1>2, <1>3

GooseFields == {<<"GOOSE_MODEL">>, <<"GOOSE_PROVIDER">>, <<"OPENAI_BASE_URL">>}

LEMMA GooseModelIs ==
  ASSUME NEW doc, NEW model, NEW host
  PROVE  LET r == GooseModel(doc, model, host)
         IN Keeps(GooseFields, doc, r) /\ <<"GOOSE_MODEL">> \in DOMAIN r
<1> DEFINE a == <<"GOOSE_MODEL">>
           b == <<"GOOSE_PROVIDER">>
           c == <<"OPENAI_BASE_URL">>
           r == GooseModel(doc, model, host)
<1>1. IsField(a) /\ IsField(c) /\ a[1] = "GOOSE_MODEL" /\ c[1] = "OPENAI_BASE_URL"
  BY FieldsAre
<1>2. PICK p, u : LET named == PutAll(doc, Over(At(a, model.name), At(b, p)))
                  IN r = IF model.url = NoURL THEN named ELSE Put(named, c, u)
  BY DEF GooseModel
<1> DEFINE named == PutAll(doc, Over(At(a, model.name), At(b, p)))
<1> HIDE DEF a, b, c, r
<1>3. DOMAIN Over(At(a, model.name), At(b, p)) = {a, b}
  BY OverIs
<1>4. Keeps({a, b}, doc, named) /\ a \in DOMAIN named
  BY <1>3, PutAllIs
<1> HIDE DEF named
<1>5. Keeps({c}, named, Put(named, c, u))
  BY PutIs
<1>6. a \in DOMAIN Put(named, c, u)
  BY <1>1, <1>4, <1>5, KeepsOthers
<1>7. Keeps({a, b, c}, doc, named) /\ Keeps({a, b, c}, named, Put(named, c, u))
  BY <1>4, <1>5, KeepsMore
<1>8. Keeps({a, b, c}, doc, Put(named, c, u))
  BY <1>7, KeepsBoth
<1>9. Keeps({a, b, c}, doc, r) /\ a \in DOMAIN r
  BY <1>2, <1>4, <1>6, <1>7, <1>8 DEF named
<1> QED
  BY <1>9 DEF GooseFields, a, b, c, r

OpenclawFields ==
  {<<"gateway", "auth">>, <<"gateway", "bind">>, <<"gateway", "mode">>,
   <<"gateway", "controlUi", "enabled">>, <<"gateway", "controlUi", "allowedOrigins">>}

LEMMA OpenclawOnboardedIs ==
  ASSUME NEW doc
  PROVE  LET r == OpenclawOnboarded(doc)
         IN Keeps(OpenclawFields, doc, r) /\ <<"gateway", "mode">> \in DOMAIN r
<1> DEFINE a == <<"gateway", "auth">>
           b == <<"gateway", "bind">>
           m == <<"gateway", "mode">>
           e == <<"gateway", "controlUi", "enabled">>
           o == <<"gateway", "controlUi", "allowedOrigins">>
           fields == Over(At(a, "token"), Over(Over(At(e, TRUE), At(o, {"*"})),
                                               Over(At(b, "lan"), At(m, "local"))))
           r == OpenclawOnboarded(doc)
<1>1. r = PutAll(doc, fields)
  BY DEF OpenclawOnboarded
<1> HIDE DEF a, b, m, e, o, r
<1>2. \A f : f \in DOMAIN fields <=> f \in {a, b, m, e, o}
  BY DEF Over, At
<1> HIDE DEF fields
<1>3. DOMAIN fields = {a, b, m, e, o}
  BY <1>2
<1>4. Keeps({a, b, m, e, o}, doc, r) /\ m \in DOMAIN r
  BY <1>1, <1>3, PutAllIs
<1> QED
  BY <1>4 DEF OpenclawFields, a, b, m, e, o, r

\* The names an agent may have for a provider.
LEMMA AliasIs ==
  /\ \A p : Alias([gemini |-> "google", vertexai |-> "anthropic-vertex"], p)
             \in {p, "google", "anthropic-vertex"}
  /\ \A p : Alias([gemini |-> "google", vertexai |-> "google-vertex-anthropic"], p)
             \in {p, "google", "google-vertex-anthropic"}
BY DEF Alias

OpenclawModelFields(P) ==
  {<<"agents", "defaults", "model">>} \cup {<<"models", "providers", p>> : p \in P}

LEMMA OpenclawModelIs ==
  ASSUME NEW doc, NEW model, NEW host, NEW P,
         {model.provider, "google", "anthropic-vertex", "local"} \subseteq P
  PROVE  LET r == OpenclawModel(doc, model, host)
         IN Keeps(OpenclawModelFields(P), doc, r) /\ <<"agents", "defaults", "model">> \in DOMAIN r
<1> DEFINE a == <<"agents", "defaults", "model">>
           W == OpenclawModelFields(P)
           r == OpenclawModel(doc, model, host)
           own == Alias([gemini |-> "google", vertexai |-> "anthropic-vertex"], model.provider)
           provider == IF own = "" /\ model.url # NoURL THEN "local" ELSE own
           b == <<"models", "providers", provider>>
           named == Put(doc, a, <<provider, model.name>>)
           value == [baseUrl |-> RewriteURLWithHost(model.url, host), model |-> model.name]
           full == Put(named, b, value)
<1>1. r = IF model.url = NoURL THEN named ELSE full
  BY DEF OpenclawModel, configureOpenclawProvider
<1>2. provider \in P
  BY AliasIs
<1>3. IsField(a) /\ IsField(b) /\ a[1] = "agents" /\ b[1] = "models"
  BY FieldsAre
<1>4. a \in W /\ b \in W
  BY <1>2 DEF OpenclawModelFields
<1> HIDE DEF a, b, W, r, value, provider
<1>5. Keeps({a}, doc, named) /\ a \in DOMAIN named
  BY PutIs
<1> HIDE DEF named
<1>6. Keeps({b}, named, full)
  BY PutIs
<1>7. a \in DOMAIN full
  BY <1>3, <1>5, <1>6, KeepsOthers
<1> HIDE DEF full
<1>8. Keeps(W, doc, named) /\ Keeps(W, named, full)
  BY <1>4, <1>5, <1>6, KeepsMore
<1>9. Keeps(W, doc, full)
  BY <1>8, KeepsBoth
<1> QED
  BY <1>1, <1>5, <1>7, <1>8, <1>9 DEF r, W, a

\* The model of a provider, unless the document describes it.
DescribedIn(doc, provider, name) ==
  LET entry == ProviderField(provider, <<"models", name>>)
  IN IF \E f \in DOMAIN doc : IsPrefix(entry, f) THEN {} ELSE {entry}

ProviderFields(doc, P, name) ==
  UNION {{ProviderField(p, <<"name">>), ProviderField(p, <<"npm">>),
          ProviderField(p, <<"options", "baseURL">>)} \cup DescribedIn(doc, p, name) : p \in P}

OpenCodeFields(doc, P, name) == {<<"model">>} \cup ProviderFields(doc, P, name)

LEMMA configureProviderIs ==
  ASSUME NEW doc, NEW provider, NEW shown, NEW name, NEW url, NEW P, provider \in P
  PROVE  Keeps(ProviderFields(doc, P, name), doc,
               configureProvider(doc, provider, shown, name, url))
<1> DEFINE entry == ProviderField(provider, <<"models", name>>)
           n == ProviderField(provider, <<"name">>)
           m == ProviderField(provider, <<"npm">>)
           u == ProviderField(provider, <<"options", "baseURL">>)
           W == ProviderFields(doc, P, name)
           r == configureProvider(doc, provider, shown, name, url)
<1>1. PICK fields : /\ r = PutAll(doc, fields)
                    /\ \A f \in DOMAIN fields :
                         f \in {n, m, u} \/ f \in DescribedIn(doc, provider, name)
  <2> DEFINE sdk == IF provider \in nativeProviders \cup vertexAIProviders THEN EmptyDoc
                    ELSE Over(At(n, shown), At(m, "openai-compatible"))
             base == IF url = NoURL THEN EmptyDoc ELSE At(u, url)
             described == IF \E f \in DOMAIN doc : IsPrefix(entry, f) THEN EmptyDoc
                          ELSE At(entry, IF provider \in vertexAIProviders THEN EmptyDoc ELSE name)
             fields == Over(sdk, Over(base, described))
  <2>1. r = PutAll(doc, fields)
    BY DEF configureProvider
  <2>2. \A f \in DOMAIN described : f \in DescribedIn(doc, provider, name)
    BY DEF At, EmptyDoc, DescribedIn
  <2> HIDE DEF n, m, u, r, entry
  <2>3. \A f \in DOMAIN sdk : f \in {n, m}
    BY DEF At, EmptyDoc, Over
  <2>4. \A f \in DOMAIN base : f = u
    BY DEF At, EmptyDoc
  <2> HIDE DEF sdk, base, described
  <2>5. \A f \in DOMAIN fields : f \in DOMAIN sdk \/ f \in DOMAIN base \/ f \in DOMAIN described
    BY DEF Over
  <2>6. \A f \in DOMAIN fields : f \in {n, m, u} \/ f \in DescribedIn(doc, provider, name)
    BY <2>2, <2>3, <2>4, <2>5
  <2> QED
    BY <2>1, <2>6
<1> HIDE DEF r
<1>2. \A f \in DOMAIN fields : f \in W
  BY <1>1 DEF ProviderFields
<1>3. Keeps(DOMAIN fields, doc, r)
  BY <1>1, PutAllIs
<1> HIDE DEF W
<1>4. Keeps(W, doc, r)
  BY <1>2, <1>3, KeepsMore
<1> QED
  BY <1>4 DEF W, r

LEMMA OpenCodeModelIs ==
  ASSUME NEW doc, \A f \in DOMAIN doc : IsField(f), NEW model, NEW host, NEW P,
         {model.provider, "google", "google-vertex-anthropic", "custom"} \subseteq P
  PROVE  LET r == OpenCodeModel(doc, model, host)
         IN Keeps(OpenCodeFields(doc, P, model.name), doc, r) /\ <<"model">> \in DOMAIN r
<1> DEFINE a == <<"model">>
           W == OpenCodeFields(doc, P, model.name)
           r == OpenCodeModel(doc, model, host)
<1>1. PICK provider, shown, url, value :
        LET named == Put(doc, a, value)
        IN /\ provider \in P
           /\ r \in {named, configureProvider(named, provider, shown, model.name, url)}
  <2> DEFINE alias == Alias([gemini |-> "google", vertexai |-> "google-vertex-anthropic"],
                            model.provider)
             url == IF model.url = NoURL THEN defaultProviderBaseURL(alias, host)
                    ELSE RewriteURLWithHost(model.url, host)
             real == isRealOpenAI(alias, url)
             provider == IF alias = "openai" /\ ~real THEN "custom" ELSE alias
             named == Put(doc, <<"model">>, <<provider, model.name>>)
             shown == IF provider = "custom" /\ url # NoURL THEN url.host ELSE provider
  <2>1. r \in {named, configureProvider(named, provider, shown, model.name, url)}
    BY DEF OpenCodeModel
  <2>2. provider \in P
    BY AliasIs
  <2> HIDE DEF provider, shown, url
  <2> QED
    BY <2>1, <2>2
<1> DEFINE named == Put(doc, a, value)
           block == configureProvider(named, provider, shown, model.name, url)
           V == ProviderFields(named, P, model.name)
<1>2. IsField(a) /\ a[1] = "model"
  BY FieldsAre
<1> HIDE DEF a, r
<1>3. Keeps({a}, doc, named) /\ a \in DOMAIN named
  BY PutIs
<1>4. \A p, rest : IsList(rest) => IsField(ProviderField(p, rest)) /\ ProviderField(p, rest)[1] = "provider"
  BY ProviderFieldIs
<1>5. \A n : IsList(<<n>>) /\ IsList(<<"models", n>>) /\ IsList(<<"options", n>>)
  BY FieldsAre DEF IsField
<1> HIDE DEF named
<1>6. ASSUME NEW p PROVE DescribedIn(named, p, model.name) \subseteq DescribedIn(doc, p, model.name)
  <2> DEFINE entry == ProviderField(p, <<"models", model.name>>)
  <2>1. IsField(entry) /\ entry[1] = "provider"
    BY <1>4, <1>5
  <2> HIDE DEF entry
  <2>2. ASSUME NEW f \in DOMAIN doc, IsPrefix(entry, f) PROVE f \in DOMAIN named
    <3>1. IsField(f) /\ Conflict(entry, f)
      BY <2>2 DEF Conflict
    <3>2. f[1] = "provider"
      BY <2>1, <3>1, KeysConflict
    <3> QED
      BY <1>2, <1>3, <3>1, <3>2, KeepsOthers
  <2> QED
    BY <2>2 DEF DescribedIn, entry
<1>7. V \subseteq W
  BY <1>6 DEF OpenCodeFields, ProviderFields
<1>8. a \in W
  BY DEF OpenCodeFields, a
<1>9. ASSUME NEW w \in V PROVE IsField(w) /\ w[1] = "provider"
  <2>1. PICK p \in P : w \in {ProviderField(p, <<"name">>), ProviderField(p, <<"npm">>),
                             ProviderField(p, <<"options", "baseURL">>),
                             ProviderField(p, <<"models", model.name>>)}
    BY DEF ProviderFields, DescribedIn
  <2> QED
    BY <1>4, <1>5, <2>1
<1>10. Keeps(V, named, block)
  BY <1>1, configureProviderIs
<1> HIDE DEF V, W, block
<1>11. Keeps(W, doc, named) /\ Keeps(W, named, block)
  BY <1>3, <1>7, <1>8, <1>10, KeepsMore
<1>12. Keeps(W, doc, block)
  BY <1>11, KeepsBoth
<1>13. a \in DOMAIN block
  BY <1>2, <1>3, <1>9, <1>10, KeepsOthers
<1>14. Keeps(W, doc, r) /\ a \in DOMAIN r
  BY <1>1, <1>3, <1>11, <1>12, <1>13 DEF named, block
<1> QED
  BY <1>14 DEF W, r, a

\* What is read of a file that is not broken.
LEMMA ParsedIs ==
  ASSUME NEW s, IsSettings(s), NEW path
  PROVE  /\ GetContent(s, path) # Broken => \A f \in DOMAIN Parsed(s, path) : IsField(f)
         /\ path \in DOMAIN s /\ s[path] # NullDoc => Parsed(s, path) = s[path]
<1>1. CASE GetContent(s, path) = NullDoc
  <2>1. Parsed(s, path) = <<>> /\ DOMAIN <<>> = {}
    BY <1>1 DEF Parsed, EmptyDoc
  <2> QED
    BY <1>1, <2>1 DEF GetContent
<1>2. CASE GetContent(s, path) # NullDoc /\ path \in DOMAIN s
  BY <1>2 DEF Parsed, GetContent, IsSettings, IsField
<1>3. CASE GetContent(s, path) # NullDoc /\ path \notin DOMAIN s
  <2>1. Parsed(s, path) = <<>> /\ DOMAIN <<>> = {}
    BY <1>3 DEF Parsed, GetContent, EmptyDoc
  <2> QED
    BY <1>3, <2>1
<1> QED
  BY <1>1, <1>2, <1>3

\* A document that has a field is read as it is.
LEMMA ParsedAgain ==
  ASSUME NEW s, NEW path, NEW f \in DOMAIN GetContent(s, path), f # <<>>
  PROVE  Parsed(s, path) = GetContent(s, path)
BY NotNull DEF Parsed

\* The edits of an agent's settings, one after the other.
Edited(agent, s, keys, id, host) ==
  IF id = <<>> THEN SkipOnboarding(agent, s, keys)
  ELSE SetModel(agent, SkipOnboarding(agent, s, keys), ParseModelID(id), host)

\* Claude's settings r, edited from s.
ClaudeEdits(s, r, keys, id, cmds, srvs) ==
  LET old == Parsed(s, ClaudeJSONPath)
      doc == r[ClaudeJSONPath]
      approved == <<"customApiKeyResponses", "approved">>
      MCP == {<<"mcpServers", n>> : n \in NamesOf(cmds) \cup NamesOf(srvs)}
  IN /\ DOMAIN s \subseteq DOMAIN r /\ ClaudeJSONPath \in DOMAIN r
     /\ \A p \in DOMAIN s : p \notin {ClaudeJSONPath, ClaudeSettingsPath} => r[p] = s[p]
     /\ Keeps(ClaudeFields \cup MCP, old, doc)
     /\ <<"hasCompletedOnboarding">> \in DOMAIN doc
     /\ keys # {} => approved \in DOMAIN doc /\ keys \subseteq doc[approved]
     /\ approved \in DOMAIN old => approved \in DOMAIN doc /\ old[approved] \subseteq doc[approved]
     /\ HasEntries(doc, <<"mcpServers">>, cmds, "stdio")
     /\ HasEntries(doc, <<"mcpServers">>, srvs, "sse")
     /\ id = <<>> /\ ClaudeSettingsPath \in DOMAIN s
          => r[ClaudeSettingsPath] = s[ClaudeSettingsPath]
     /\ id # <<>> => /\ ClaudeSettingsPath \in DOMAIN r
                     /\ <<"model">> \in DOMAIN r[ClaudeSettingsPath]
                     /\ Keeps({<<"model">>}, Parsed(s, ClaudeSettingsPath), r[ClaudeSettingsPath])

\* Claude: two files, of which the first is edited twice.
LEMMA ClaudeIsSetUp ==
  ASSUME NEW s, NEW keys, NEW id, NEW host, NEW cmds, NEW srvs,
         NoRepeat(cmds), NoRepeat(srvs), NamesOf(cmds) \cap NamesOf(srvs) = {}
  PROVE  ClaudeEdits(s, SetMCPServers("claude", Edited("claude", s, keys, id, host), cmds, srvs),
                     keys, id, cmds, srvs)
<1> DEFINE J == ClaudeJSONPath
           S == ClaudeSettingsPath
           old == Parsed(s, J)
           first == ClaudeOnboarded(old, keys)
           s1 == SkipOnboarding("claude", s, keys)
           m == ClaudeModel(Parsed(s1, S), ParseModelID(id))
           s2 == Edited("claude", s, keys, id, host)
           doc == ClaudeMCP(GetContent(s2, J), cmds, srvs)
           r == SetMCPServers("claude", s2, cmds, srvs)
           approved == <<"customApiKeyResponses", "approved">>
           hc == <<"hasCompletedOnboarding">>
           prefix == <<"mcpServers">>
           MCP == {<<"mcpServers", n>> : n \in NamesOf(cmds) \cup NamesOf(srvs)}
<1>1. J # S
  BY DEF ClaudeJSONPath, ClaudeSettingsPath
<1>2. s1 = SetContent(s, J, first)
  BY DEF SkipOnboarding, OnboardingPath
<1>3. s2 = IF id = <<>> THEN s1 ELSE SetContent(s1, S, m)
  BY DEF Edited, SetModel, ModelPath
<1>4. r = SetContent(s2, J, doc)
  BY DEF SetMCPServers
<1>5. doc = PutMCP(GetContent(s2, J), prefix, cmds, srvs, "stdio", "sse")
  BY DEF ClaudeMCP
<1>6. m = Put(Parsed(s1, S), <<"model">>, ParseModelID(id).name)
  BY DEF ClaudeModel
<1> HIDE DEF s2, r, doc, m, s1
<1> HIDE DEF J, S
<1>7. /\ Keeps(ClaudeFields, old, first) /\ hc \in DOMAIN first
      /\ keys # {} => approved \in DOMAIN first /\ keys \subseteq first[approved]
      /\ approved \in DOMAIN old => approved \in DOMAIN first /\ old[approved] \subseteq first[approved]
  BY ClaudeOnboardedIs
<1> HIDE DEF first, old
<1>8. /\ DOMAIN s1 = DOMAIN s \cup {J} /\ GetContent(s1, J) = first
      /\ \A p \in DOMAIN s : p # J => s1[p] = s[p]
      /\ GetContent(s1, S) = GetContent(s, S)
  BY <1>1, <1>2, SetContentIs
<1>9. /\ DOMAIN s1 \subseteq DOMAIN s2 /\ GetContent(s2, J) = first
      /\ \A p \in DOMAIN s1 : p # S => s2[p] = s1[p]
      /\ id = <<>> => s2 = s1
      /\ id # <<>> => S \in DOMAIN s2 /\ s2[S] = m
  BY <1>1, <1>3, <1>8, SetContentIs
<1>10. /\ DOMAIN r = DOMAIN s2 \cup {J} /\ r[J] = doc
       /\ \A p \in DOMAIN s2 : p # J => r[p] = s2[p]
  BY <1>4, SetContentIs
<1>11. IsField(prefix) /\ IsField(hc) /\ IsField(approved) /\ hc[1] # prefix[1] /\ approved[1] # prefix[1]
  BY FieldsAre
<1>12. \A n : Append(prefix, n) = <<"mcpServers", n>>
  BY AppendedKeys
<1>13. MCP = {Append(prefix, n) : n \in NamesOf(cmds) \cup NamesOf(srvs)}
  BY <1>12
<1> HIDE DEF hc, approved, prefix
<1>14. /\ Keeps(MCP, first, doc)
       /\ HasEntries(doc, prefix, cmds, "stdio") /\ HasEntries(doc, prefix, srvs, "sse")
  BY <1>5, <1>9, <1>11, <1>13, PutMCPIs
<1>15. \A w \in MCP : IsField(w) /\ w[1] = prefix[1]
  BY <1>11, <1>12, AppendedKey DEF MCP
<1> HIDE DEF MCP, doc
<1>16. /\ hc \in DOMAIN doc
       /\ approved \in DOMAIN first => approved \in DOMAIN doc /\ doc[approved] = first[approved]
  BY <1>7, <1>11, <1>14, <1>15, KeepsOthers
<1>17. Keeps(ClaudeFields \cup MCP, old, doc)
  BY <1>7, <1>14, KeepsMore, KeepsBoth
<1>18. id # <<>> => <<"model">> \in DOMAIN m /\ Keeps({<<"model">>}, Parsed(s, S), m)
  <2>1. Parsed(s1, S) = Parsed(s, S)
    BY <1>8 DEF Parsed
  <2> QED
    BY <1>6, <2>1, PutIs
<1>19. /\ DOMAIN s \subseteq DOMAIN r /\ J \in DOMAIN r /\ r[J] = doc
       /\ \A p \in DOMAIN s : p \notin {J, S} => r[p] = s[p]
       /\ id = <<>> /\ S \in DOMAIN s => r[S] = s[S]
       /\ id # <<>> => S \in DOMAIN r /\ r[S] = m
  BY <1>1, <1>8, <1>9, <1>10
<1>20. /\ keys # {} => approved \in DOMAIN doc /\ keys \subseteq doc[approved]
       /\ approved \in DOMAIN old => approved \in DOMAIN doc /\ old[approved] \subseteq doc[approved]
  BY <1>7, <1>16
<1> QED
  BY <1>14, <1>16, <1>17, <1>18, <1>19, <1>20
     DEF ClaudeEdits, r, s2, old, approved, hc, prefix, MCP, J, S

\* Cursor: two files, of which the first is written unread.
LEMMA CursorIsSetUp ==
  ASSUME NEW s, NEW keys, NEW id, NEW host, NEW cmds, NEW srvs
  PROVE  LET r == SetMCPServers("cursor", Edited("cursor", s, keys, id, host), cmds, srvs)
             T == CursorTrustPath
             C == CursorCLIConfigPath
         IN /\ T # C /\ T \in DOMAIN r /\ <<"workspacePath">> \in DOMAIN r[T]
            /\ \A p \in DOMAIN s : p \in DOMAIN r /\ (p \notin {T, C} => r[p] = s[p])
            /\ id = <<>> /\ C \in DOMAIN s => r[C] = s[C]
            /\ id # <<>> => /\ C \in DOMAIN r /\ <<"model">> \in DOMAIN r[C]
                            /\ Keeps({<<"model">>, <<"hasChangedDefaultModel">>}, Parsed(s, C), r[C])
<1> DEFINE T == CursorTrustPath
           C == CursorCLIConfigPath
           s1 == SkipOnboarding("cursor", s, keys)
           m == CursorModel(Parsed(s1, C), ParseModelID(id))
           r == SetMCPServers("cursor", Edited("cursor", s, keys, id, host), cmds, srvs)
<1>1. T # C
  BY DEF CursorTrustPath, CursorCLIConfigPath
<1>2. s1 = SetContent(s, T, CursorTrust)
  BY DEF SkipOnboarding, OnboardingPath
<1>3. r = IF id = <<>> THEN s1 ELSE SetContent(s1, C, m)
  BY DEF Edited, SetModel, ModelPath, SetMCPServers
<1>4. <<"workspacePath">> \in DOMAIN CursorTrust
  BY DEF CursorTrust, At
<1>5. <<"model">> \in DOMAIN m /\ Keeps({<<"model">>, <<"hasChangedDefaultModel">>}, Parsed(s1, C), m)
  BY CursorModelIs
<1> HIDE DEF T, C, s1, m, r
<1>6. /\ T \in DOMAIN s1 /\ s1[T] = CursorTrust
      /\ \A p \in DOMAIN s : p \in DOMAIN s1 /\ (p # T => s1[p] = s[p])
      /\ GetContent(s1, C) = GetContent(s, C)
  BY <1>1, <1>2, SetContentIs
<1>7. Parsed(s1, C) = Parsed(s, C)
  BY <1>6 DEF Parsed
<1>8. /\ T \in DOMAIN r /\ r[T] = s1[T]
      /\ \A p \in DOMAIN s1 : p \in DOMAIN r /\ (p # C => r[p] = s1[p])
      /\ id = <<>> => r = s1
      /\ id # <<>> => C \in DOMAIN r /\ r[C] = m
  BY <1>1, <1>3, <1>6, SetContentIs
<1> QED
  BY <1>1, <1>4, <1>5, <1>6, <1>7, <1>8 DEF T, C, r

\* What the edits of a single file leave of the others.
OneFile(s, r, path) ==
  /\ path \in DOMAIN r
  /\ \A p \in DOMAIN s : p \in DOMAIN r /\ (p # path => r[p] = s[p])

LEMMA OneFileIs ==
  ASSUME NEW s, NEW path, NEW doc
  PROVE  OneFile(s, SetContent(s, path, doc), path)
BY SetContentIs DEF OneFile

LEMMA OneFileTwice ==
  ASSUME NEW s, NEW s1, NEW path, OneFile(s, s1, path), NEW doc
  PROVE  OneFile(s, SetContent(s1, path, doc), path)
BY SetContentIs DEF OneFile

\* Goose: what is set last does not undo what was set before.
LEMMA GooseIsSetUp ==
  ASSUME NEW s, IsSettings(s), GetContent(s, GooseConfigPath) # Broken,
         NEW keys, NEW id, NEW host, NEW cmds, NEW srvs
  PROVE  LET r == SetMCPServers("goose", Edited("goose", s, keys, id, host), cmds, srvs)
             G == GooseConfigPath
         IN /\ OneFile(s, r, G)
            /\ Keeps(IF id = <<>> THEN {} ELSE GooseFields, Parsed(s, G), r[G])
            /\ HasField(r[G], <<"GOOSE_TELEMETRY_ENABLED">>)
            /\ id # <<>> => <<"GOOSE_MODEL">> \in DOMAIN r[G]
<1> DEFINE G == GooseConfigPath
           key == <<"GOOSE_TELEMETRY_ENABLED">>
           old == Parsed(s, G)
           first == GooseOnboarded(old)
           s1 == SkipOnboarding("goose", s, keys)
           m == GooseModel(first, ParseModelID(id), host)
           r == SetMCPServers("goose", Edited("goose", s, keys, id, host), cmds, srvs)
<1>1. s1 = SetContent(s, G, first)
  BY DEF SkipOnboarding, OnboardingPath
<1>2. r = IF id = <<>> THEN s1
          ELSE SetContent(s1, G, GooseModel(Parsed(s1, G), ParseModelID(id), host))
  BY DEF Edited, SetModel, ModelPath, OnboardingPath, SetMCPServers
<1>3. \A f \in DOMAIN old : IsField(f)
  BY ParsedIs
<1> HIDE DEF G, old
<1>4. Keeps({}, old, first) /\ \E f \in DOMAIN first : IsField(f) /\ IsPrefix(key, f)
  BY <1>3, GooseOnboardedIs
<1>5. PICK f \in DOMAIN first : IsField(f) /\ IsPrefix(key, f)
  BY <1>4
<1> HIDE DEF first, s1, r
<1>6. GetContent(s1, G) = first /\ OneFile(s, s1, G) /\ s1[G] = first
  BY <1>1, SetContentIs, OneFileIs
<1>7. Parsed(s1, G) = first
  BY <1>5, <1>6, ParsedAgain DEF IsField
<1>8. Keeps(GooseFields, first, m) /\ <<"GOOSE_MODEL">> \in DOMAIN m
  BY GooseModelIs
<1>9. f \in DOMAIN m
  <2>1. IsField(key) /\ key[1] = "GOOSE_TELEMETRY_ENABLED"
    BY FieldsAre
  <2>2. f[1] = "GOOSE_TELEMETRY_ENABLED"
    BY <1>5, <2>1, KeysConflict DEF Conflict
  <2>3. \A w \in GooseFields : IsField(w) /\ w[1] # "GOOSE_TELEMETRY_ENABLED"
    BY FieldsAre DEF GooseFields
  <2> QED
    BY <1>5, <1>8, <2>2, <2>3, KeepsOthers
<1> HIDE DEF m
<1>10. Keeps(GooseFields, old, m)
  <2>1. Keeps(GooseFields, old, first)
    BY <1>4, KeepsMore
  <2> QED
    BY <1>8, <2>1, KeepsBoth
<1>11. id = <<>> => r = s1
  BY <1>2
<1>12. id # <<>> => r = SetContent(s1, G, m)
  BY <1>2, <1>7 DEF m
<1>13. OneFile(s, r, G)
  BY <1>6, <1>11, <1>12, OneFileTwice
<1>14. id = <<>> => r[G] = first
  BY <1>6, <1>11
<1>15. id # <<>> => r[G] = m
  BY <1>12, SetContentIs
<1>16. HasField(r[G], key)
  BY <1>5, <1>9, <1>14, <1>15 DEF HasField
<1>17. Keeps(IF id = <<>> THEN {} ELSE GooseFields, old, r[G])
  BY <1>4, <1>10, <1>14, <1>15
<1> QED
  BY <1>8, <1>13, <1>15, <1>16, <1>17 DEF G, key, old, r

\* OpenClaw: three edits of one file, under different keys.
LEMMA OpenclawIsSetUp ==
  ASSUME NEW s, NEW keys, NEW id, NEW host, NEW cmds, NEW srvs,
         NoRepeat(cmds), NoRepeat(srvs), NamesOf(cmds) \cap NamesOf(srvs) = {},
         NEW P, {ParseModelID(id).provider, "google", "anthropic-vertex", "local"} \subseteq P
  PROVE  LET r == SetMCPServers("openclaw", Edited("openclaw", s, keys, id, host), cmds, srvs)
             O == OpenclawConfigPath
             MCP == {<<"mcp", "servers", n>> : n \in NamesOf(cmds) \cup NamesOf(srvs)}
         IN /\ OneFile(s, r, O)
            /\ Keeps((IF id = <<>> THEN {} ELSE OpenclawModelFields(P)) \cup OpenclawFields \cup MCP,
                     Parsed(s, O), r[O])
            /\ <<"gateway", "mode">> \in DOMAIN r[O]
            /\ id # <<>> => <<"agents", "defaults", "model">> \in DOMAIN r[O]
            /\ HasEntries(r[O], <<"mcp", "servers">>, cmds, "command")
            /\ HasEntries(r[O], <<"mcp", "servers">>, srvs, "streamable-http")
<1> DEFINE O == OpenclawConfigPath
           mode == <<"gateway", "mode">>
           field == <<"agents", "defaults", "model">>
           prefix == <<"mcp", "servers">>
           old == Parsed(s, O)
           first == OpenclawOnboarded(old)
           s1 == SkipOnboarding("openclaw", s, keys)
           s2 == Edited("openclaw", s, keys, id, host)
           m == IF id = <<>> THEN first ELSE OpenclawModel(first, ParseModelID(id), host)
           doc == PutMCP(m, prefix, cmds, srvs, "command", "streamable-http")
           r == SetMCPServers("openclaw", s2, cmds, srvs)
           MCP == {<<"mcp", "servers", n>> : n \in NamesOf(cmds) \cup NamesOf(srvs)}
           M == IF id = <<>> THEN {} ELSE OpenclawModelFields(P)
           W == M \cup OpenclawFields \cup MCP
<1>1. s1 = SetContent(s, O, first)
  BY DEF SkipOnboarding, OnboardingPath
<1>2. s2 = IF id = <<>> THEN s1
           ELSE SetContent(s1, O, OpenclawModel(Parsed(s1, O), ParseModelID(id), host))
  BY DEF Edited, SetModel, ModelPath, OnboardingPath
<1>3. r = SetContent(s2, O, PutMCP(GetContent(s2, O), prefix, cmds, srvs, "command", "streamable-http"))
  BY DEF SetMCPServers, OpenclawMCP
<1>4. Keeps(OpenclawFields, old, first) /\ mode \in DOMAIN first
  BY OpenclawOnboardedIs
<1>5. /\ IsField(mode) /\ mode[1] = "gateway" /\ IsField(field) /\ field[1] = "agents"
      /\ IsField(prefix) /\ prefix[1] = "mcp"
  BY FieldsAre
<1>6. \A n : Append(prefix, n) = <<"mcp", "servers", n>>
  BY AppendedKeys
<1>7. MCP = {Append(prefix, n) : n \in NamesOf(cmds) \cup NamesOf(srvs)}
  BY <1>6
<1> HIDE DEF O, old, first, s1, s2, r
<1>8. GetContent(s1, O) = first /\ OneFile(s, s1, O)
  BY <1>1, SetContentIs, OneFileIs
<1>9. Parsed(s1, O) = first
  BY <1>4, <1>5, <1>8, ParsedAgain DEF IsField
<1>10. GetContent(s2, O) = m /\ OneFile(s, s2, O)
  <2>1. CASE id = <<>>
    BY <1>2, <1>8, <2>1
  <2>2. CASE id # <<>>
    <3>1. s2 = SetContent(s1, O, m)
      BY <1>2, <1>9, <2>2
    <3> HIDE DEF m
    <3> QED
      BY <1>8, <3>1, SetContentIs, OneFileTwice
  <2> QED
    BY <2>1, <2>2
<1>11. Keeps(M, first, m) /\ mode \in DOMAIN m /\ (id # <<>> => field \in DOMAIN m)
  <2>1. CASE id = <<>>
    BY <1>4, <2>1, KeepsSame
  <2>2. CASE id # <<>>
    <3>1. Keeps(M, first, m) /\ field \in DOMAIN m
      BY <2>2, OpenclawModelIs
    <3>2. \A w \in M : IsField(w) /\ w[1] # mode[1]
      BY <1>5, <2>2, FieldsAre DEF OpenclawModelFields
    <3> HIDE DEF m, mode, M
    <3>3. mode \in DOMAIN m
      BY <1>4, <1>5, <3>1, <3>2, KeepsOthers
    <3> QED
      BY <3>1, <3>3
  <2> QED
    BY <2>1, <2>2
<1> HIDE DEF mode, field, prefix, m
<1>12. r = SetContent(s2, O, doc)
  BY <1>3, <1>10
<1>13. /\ Keeps(MCP, m, doc)
       /\ HasEntries(doc, prefix, cmds, "command") /\ HasEntries(doc, prefix, srvs, "streamable-http")
  BY <1>5, <1>7, PutMCPIs
<1>14. \A w \in MCP : IsField(w) /\ w[1] = "mcp"
  BY FieldsAre
<1> HIDE DEF MCP, doc, M, W
<1>15. mode \in DOMAIN doc /\ (id # <<>> => field \in DOMAIN doc)
  BY <1>5, <1>11, <1>13, <1>14, KeepsOthers
<1>16. Keeps(W, old, doc)
  <2>1. Keeps(W, old, first) /\ Keeps(W, first, m) /\ Keeps(W, m, doc)
    <3>1. OpenclawFields \subseteq W /\ M \subseteq W /\ MCP \subseteq W
      BY DEF W
    <3> QED
      BY <1>4, <1>11, <1>13, <3>1, KeepsMore
  <2> QED
    BY <2>1, KeepsBoth
<1>17. OneFile(s, r, O) /\ r[O] = doc
  BY <1>10, <1>12, OneFileTwice, SetContentIs
<1> QED
  BY <1>13, <1>15, <1>16, <1>17 DEF O, mode, field, prefix, old, r, s2, W, M, MCP

\* OpenCode: one edit.
LEMMA OpenCodeIsSetUp ==
  ASSUME NEW s, IsSettings(s), GetContent(s, OpenCodeConfigPath) # Broken,
         NEW keys, NEW id, id # <<>>, NEW host, NEW cmds, NEW srvs, NEW P,
         {ParseModelID(id).provider, "google", "google-vertex-anthropic", "custom"} \subseteq P
  PROVE  LET r == SetMCPServers("opencode", Edited("opencode", s, keys, id, host), cmds, srvs)
             C == OpenCodeConfigPath
             old == Parsed(s, C)
         IN /\ OneFile(s, r, C)
            /\ Keeps(OpenCodeFields(old, P, ParseModelID(id).name), old, r[C])
            /\ <<"model">> \in DOMAIN r[C]
<1> DEFINE C == OpenCodeConfigPath
           old == Parsed(s, C)
           model == ParseModelID(id)
           m == OpenCodeModel(old, model, host)
           r == SetMCPServers("opencode", Edited("opencode", s, keys, id, host), cmds, srvs)
<1>1. r = SetContent(s, C, m)
  BY DEF Edited, SetModel, ModelPath, OnboardingPath, SetMCPServers, SkipOnboarding
<1>2. \A f \in DOMAIN old : IsField(f)
  BY ParsedIs
<1> HIDE DEF C, old, model, r
<1>3. Keeps(OpenCodeFields(old, P, model.name), old, m) /\ <<"model">> \in DOMAIN m
  BY <1>2, OpenCodeModelIs DEF model
<1> HIDE DEF m
<1>4. OneFile(s, r, C) /\ r[C] = m
  BY <1>1, OneFileIs, SetContentIs
<1> QED
  BY <1>3, <1>4 DEF C, old, model, r

\* The settings that were read, until they are edited.
SettingsInv == pc = "setup" => settings = given /\ IsSettings(given)

\* UserFieldsKept of one file, with the fields W that kdn writes and the settings new.
FileKept(path, W, new) ==
  /\ path \in DOMAIN new
  /\ given[path] \notin {Broken, NullDoc} =>
       \A f \in DOMAIN given[path] :
         (\A w \in W : ~Conflict(f, w)) => f \in DOMAIN new[path] /\ new[path][f] = given[path][f]

\* A file that no edit is of, and one whose edits keep the others of its fields.
LEMMA FileIsKept ==
  ASSUME IsSettings(given), NEW path \in DOMAIN given, NEW V, NEW new, path \in DOMAIN new,
         \/ new[path] = given[path]
         \/ \E W : W \subseteq V /\ Keeps(W, Parsed(given, path), new[path])
  PROVE  FileKept(path, V, new)
<1>1. CASE new[path] = given[path]
  BY <1>1 DEF FileKept
<1>2. ASSUME NEW W, W \subseteq V, Keeps(W, Parsed(given, path), new[path])
      PROVE  FileKept(path, V, new)
  <2>1. CASE given[path] \notin {Broken, NullDoc}
    <3>1. Parsed(given, path) = given[path]
      BY <2>1, ParsedIs
    <3>2. \A f \in DOMAIN given[path] : IsField(f)
      BY <2>1 DEF IsSettings, IsField
    <3> QED
      BY <1>2, <3>1, <3>2 DEF Keeps, FileKept
  <2> QED
    BY <2>1 DEF FileKept
<1> QED
  BY <1>1, <1>2

\* A file of a configuration's agent has the field itself.
LEMMA HasItself ==
  ASSUME NEW doc, NEW f \in DOMAIN doc, IsField(f)
  PROVE  HasField(doc, f)
BY PrefixIs DEF HasField, IsField

\* AgentIsSetUp of the settings new, before they replace the others.
SetUpIs(new) ==
  LET approved == <<"customApiKeyResponses", "approved">>
      doc == new[ClaudeJSONPath]
      old == Parsed(given, ClaudeJSONPath)
  IN /\ \A path \in DOMAIN given : FileKept(path, Written(path), new)
     /\ \A f \in Onboarding : HasField(GetContent(new, OnboardingPath(req.agent)), f)
     /\ req.model # <<>> => ModelField \in DOMAIN GetContent(new, ModelPath(req.agent))
     /\ req.agent = "claude" =>
          /\ secretEnvVars # {} => approved \in DOMAIN doc /\ "placeholder" \in doc[approved]
          /\ ClaudeJSONPath \in DOMAIN given /\ approved \in DOMAIN old
               => approved \in DOMAIN doc /\ old[approved] \subseteq doc[approved]
          /\ HasEntries(doc, <<"mcpServers">>, cfg.cmds, "stdio")
          /\ HasEntries(doc, <<"mcpServers">>, cfg.srvs, "sse")
     /\ req.agent = "openclaw" =>
          /\ HasEntries(new[OpenclawConfigPath], <<"mcp", "servers">>, cfg.cmds, "command")
          /\ HasEntries(new[OpenclawConfigPath], <<"mcp", "servers">>, cfg.srvs, "streamable-http")

\* The settings as they are after the edits.
SetUpSettings ==
  SetMCPServers(req.agent, Edited(req.agent, given, approvedKeys, req.model, ContainerHostname),
                cfg.cmds, cfg.srvs)

LEMMA ClaudeSetUp ==
  ASSUME IsSettings(given), req.agent = "claude", ValidMCPIs(cfg)
  PROVE  SetUpIs(SetUpSettings)
<1> DEFINE r == SetUpSettings
           J == ClaudeJSONPath
           S == ClaudeSettingsPath
           approved == <<"customApiKeyResponses", "approved">>
           hc == <<"hasCompletedOnboarding">>
           MCP == {<<"mcpServers", n>> : n \in NamesOf(cfg.cmds) \cup NamesOf(cfg.srvs)}
           old == Parsed(given, J)
<1>0. ClaudeEdits(given, SetUpSettings, approvedKeys, req.model, cfg.cmds, cfg.srvs)
  BY ClaudeIsSetUp DEF ValidMCPIs, SetUpSettings
<1>1. /\ DOMAIN given \subseteq DOMAIN r /\ J \in DOMAIN r
      /\ \A p \in DOMAIN given : p \notin {J, S} => r[p] = given[p]
      /\ Keeps(ClaudeFields \cup MCP, old, r[J])
      /\ hc \in DOMAIN r[J]
      /\ approvedKeys # {} => approved \in DOMAIN r[J] /\ approvedKeys \subseteq r[J][approved]
      /\ approved \in DOMAIN old => approved \in DOMAIN r[J] /\ old[approved] \subseteq r[J][approved]
      /\ HasEntries(r[J], <<"mcpServers">>, cfg.cmds, "stdio")
      /\ HasEntries(r[J], <<"mcpServers">>, cfg.srvs, "sse")
      /\ req.model = <<>> /\ S \in DOMAIN given => r[S] = given[S]
      /\ req.model # <<>> => /\ S \in DOMAIN r /\ <<"model">> \in DOMAIN r[S]
                             /\ Keeps({<<"model">>}, Parsed(given, S), r[S])
  BY <1>0 DEF ClaudeEdits
<1>2. J # S /\ OnboardingPath(req.agent) = J /\ ModelPath(req.agent) = S
  BY DEF ClaudeJSONPath, ClaudeSettingsPath, OnboardingPath, ModelPath
<1>3. /\ OtherFields = ClaudeFields \cup MCP
      /\ ModelFields = IF req.model = <<>> THEN {} ELSE {<<"model">>}
      /\ ModelField = <<"model">> /\ Onboarding = {hc}
  BY DEF OtherFields, ClaudeFields, MCPNames, ModelFields, ModelField, Onboarding
<1>4. secretEnvVars # {} => approvedKeys = {"placeholder"}
  BY DEF approvedKeys
<1>5. IsField(hc)
  BY FieldsAre
<1> HIDE DEF r, J, S, MCP, approved, hc, old
<1>6. Written(J) = ClaudeFields \cup MCP
  BY <1>2, <1>3 DEF Written
<1>7. req.model # <<>> => Written(S) = {<<"model">>}
  BY <1>2, <1>3 DEF Written
<1>8. ASSUME NEW path \in DOMAIN given PROVE FileKept(path, Written(path), r)
  <2>1. CASE path = J
    BY <1>1, <1>6, <2>1, FileIsKept DEF old
  <2>2. CASE path = S
    BY <1>1, <1>7, <2>2, FileIsKept
  <2>3. CASE path \notin {J, S}
    BY <1>1, <2>3, FileIsKept
  <2> QED
    BY <2>1, <2>2, <2>3
<1>9. GetContent(r, J) = r[J] /\ (req.model # <<>> => GetContent(r, S) = r[S])
  BY <1>1 DEF GetContent
<1>10. HasField(r[J], hc)
  BY <1>1, <1>5, HasItself
<1>11. /\ \A f \in Onboarding : HasField(GetContent(r, OnboardingPath(req.agent)), f)
       /\ req.model # <<>> => ModelField \in DOMAIN GetContent(r, ModelPath(req.agent))
  BY <1>1, <1>2, <1>3, <1>9, <1>10
<1>12. /\ secretEnvVars # {} => approved \in DOMAIN r[J] /\ "placeholder" \in r[J][approved]
       /\ approved \in DOMAIN old => approved \in DOMAIN r[J] /\ old[approved] \subseteq r[J][approved]
  BY <1>1, <1>4
<1>13. HasEntries(r[J], <<"mcpServers">>, cfg.cmds, "stdio") /\ HasEntries(r[J], <<"mcpServers">>, cfg.srvs, "sse")
  BY <1>1
<1> QED
  BY <1>8, <1>11, <1>12, <1>13 DEF SetUpIs, r, J, approved, old

LEMMA CursorSetUp ==
  ASSUME IsSettings(given), req.agent = "cursor"
  PROVE  SetUpIs(SetUpSettings)
<1> DEFINE r == SetUpSettings
           T == CursorTrustPath
           C == CursorCLIConfigPath
           W == {<<"model">>, <<"hasChangedDefaultModel">>}
           wp == <<"workspacePath">>
<1>1. /\ T # C /\ T \in DOMAIN r /\ wp \in DOMAIN r[T]
      /\ \A p \in DOMAIN given : p \in DOMAIN r /\ (p \notin {T, C} => r[p] = given[p])
      /\ req.model = <<>> /\ C \in DOMAIN given => r[C] = given[C]
      /\ req.model # <<>> => /\ C \in DOMAIN r /\ <<"model">> \in DOMAIN r[C]
                             /\ Keeps(W, Parsed(given, C), r[C])
  BY CursorIsSetUp DEF SetUpSettings
<1>2. OnboardingPath(req.agent) = T /\ ModelPath(req.agent) = C
  BY DEF OnboardingPath, ModelPath
<1>3. /\ OtherFields = {<<>>} /\ ModelField = <<"model">> /\ Onboarding = {wp}
      /\ ModelFields = IF req.model = <<>> THEN {} ELSE W
  BY DEF OtherFields, ModelFields, ModelField, Onboarding
<1>4. IsField(wp)
  BY FieldsAre
<1> HIDE DEF r, T, C, W, wp
<1>5. <<>> \in Written(T) /\ (req.model # <<>> => Written(C) = W)
  BY <1>1, <1>2, <1>3 DEF Written
<1>6. ASSUME NEW path \in DOMAIN given PROVE FileKept(path, Written(path), r)
  <2>1. CASE path = T
    <3>1. given[T] \notin {Broken, NullDoc} => \A f \in DOMAIN given[T] : Conflict(f, <<>>)
      <4>1. ASSUME NEW f, IsList(f) PROVE Conflict(f, <<>>)
        <5>1. IsList(<<>>) /\ Len(<<>>) = 0
          BY DEF IsList, ToSet
        <5> QED
          BY <4>1, <5>1, PrefixIs DEF Conflict
      <4> QED
        BY <2>1, <4>1 DEF IsSettings
    <3> QED
      BY <1>1, <1>5, <2>1, <3>1 DEF FileKept
  <2>2. CASE path = C
    BY <1>1, <1>5, <2>2, FileIsKept
  <2>3. CASE path \notin {T, C}
    BY <1>1, <2>3, FileIsKept
  <2> QED
    BY <2>1, <2>2, <2>3
<1>7. GetContent(r, T) = r[T] /\ (req.model # <<>> => GetContent(r, C) = r[C])
  BY <1>1 DEF GetContent
<1>8. HasField(r[T], wp)
  BY <1>1, <1>4, HasItself
<1>9. /\ \A f \in Onboarding : HasField(GetContent(r, OnboardingPath(req.agent)), f)
      /\ req.model # <<>> => ModelField \in DOMAIN GetContent(r, ModelPath(req.agent))
  BY <1>1, <1>2, <1>3, <1>7, <1>8
<1> QED
  BY <1>6, <1>9 DEF SetUpIs, r

\* The agents with one file.
LEMMA OneFileKept ==
  ASSUME IsSettings(given), NEW r, NEW F, OneFile(given, r, F), NEW W, W \subseteq Written(F),
         Keeps(W, Parsed(given, F), r[F])
  PROVE  /\ \A path \in DOMAIN given : FileKept(path, Written(path), r)
         /\ GetContent(r, F) = r[F]
<1>1. ASSUME NEW path \in DOMAIN given PROVE FileKept(path, Written(path), r)
  BY FileIsKept DEF OneFile
<1> QED
  BY <1>1 DEF OneFile, GetContent

LEMMA GooseSetUp ==
  ASSUME IsSettings(given), req.agent = "goose", GetContent(given, GooseConfigPath) # Broken
  PROVE  SetUpIs(SetUpSettings)
<1> DEFINE r == SetUpSettings
           G == GooseConfigPath
           W == IF req.model = <<>> THEN {} ELSE GooseFields
           key == <<"GOOSE_TELEMETRY_ENABLED">>
<1>1. /\ OneFile(given, r, G) /\ Keeps(W, Parsed(given, G), r[G])
      /\ HasField(r[G], key)
      /\ req.model # <<>> => <<"GOOSE_MODEL">> \in DOMAIN r[G]
  BY GooseIsSetUp DEF SetUpSettings
<1>2. OnboardingPath(req.agent) = G /\ ModelPath(req.agent) = G
  BY DEF OnboardingPath, ModelPath
<1>3. ModelFields = W /\ ModelField = <<"GOOSE_MODEL">> /\ Onboarding = {key}
  BY DEF ModelFields, GooseFields, ModelField, Onboarding
<1> HIDE DEF r, G, W, key
<1>4. W \subseteq Written(G)
  BY <1>2, <1>3 DEF Written
<1>5. (\A path \in DOMAIN given : FileKept(path, Written(path), r)) /\ GetContent(r, G) = r[G]
  BY <1>1, <1>4, OneFileKept
<1> QED
  BY <1>1, <1>2, <1>3, <1>5 DEF SetUpIs, r

LEMMA OpenclawSetUp ==
  ASSUME IsSettings(given), req.agent = "openclaw", ValidMCPIs(cfg)
  PROVE  SetUpIs(SetUpSettings)
<1> DEFINE r == SetUpSettings
           O == OpenclawConfigPath
           MCP == {<<"mcp", "servers", n>> : n \in NamesOf(cfg.cmds) \cup NamesOf(cfg.srvs)}
           M == IF req.model = <<>> THEN {} ELSE OpenclawModelFields(Providers)
           W == M \cup OpenclawFields \cup MCP
           mode == <<"gateway", "mode">>
<1>1. {ParseModelID(req.model).provider, "google", "anthropic-vertex", "local"} \subseteq Providers
  BY DEF Providers
<1>2. /\ OneFile(given, r, O) /\ Keeps(W, Parsed(given, O), r[O])
      /\ mode \in DOMAIN r[O]
      /\ req.model # <<>> => <<"agents", "defaults", "model">> \in DOMAIN r[O]
      /\ HasEntries(r[O], <<"mcp", "servers">>, cfg.cmds, "command")
      /\ HasEntries(r[O], <<"mcp", "servers">>, cfg.srvs, "streamable-http")
  BY <1>1, OpenclawIsSetUp DEF ValidMCPIs, SetUpSettings
<1>3. OnboardingPath(req.agent) = O /\ ModelPath(req.agent) = O
  BY DEF OnboardingPath, ModelPath
<1>4. /\ ModelFields = M /\ OtherFields = OpenclawFields \cup MCP
      /\ ModelField = <<"agents", "defaults", "model">> /\ Onboarding = {mode}
  BY DEF ModelFields, OpenclawModelFields, OtherFields, OpenclawFields, MCPNames, ModelField,
         Onboarding
<1>5. IsField(mode)
  BY FieldsAre
<1> HIDE DEF r, O, M, MCP, mode
<1>6. W \subseteq Written(O)
  BY <1>3, <1>4 DEF Written
<1> HIDE DEF W
<1>7. (\A path \in DOMAIN given : FileKept(path, Written(path), r)) /\ GetContent(r, O) = r[O]
  BY <1>2, <1>6, OneFileKept
<1>8. HasField(r[O], mode)
  BY <1>2, <1>5, HasItself
<1> QED
  BY <1>2, <1>3, <1>4, <1>7, <1>8 DEF SetUpIs, r, O

\* Without a model OpenCode's settings stay as they are.
LEMMA OpenCodeSetUp ==
  ASSUME IsSettings(given), req.agent = "opencode",
         req.model # <<>> => GetContent(given, OpenCodeConfigPath) # Broken
  PROVE  SetUpIs(SetUpSettings)
<1> DEFINE r == SetUpSettings
           C == OpenCodeConfigPath
           name == ParseModelID(req.model).name
<1>1. ModelPath(req.agent) = C /\ Onboarding = {} /\ ModelField = <<"model">>
  BY DEF OnboardingPath, ModelPath, Onboarding, ModelField
<1>2. CASE req.model = <<>>
  <2>1. r = given
    BY <1>2 DEF SetUpSettings, SetMCPServers, Edited, SkipOnboarding
  <2>2. \A path \in DOMAIN given : FileKept(path, Written(path), r)
    BY <2>1 DEF FileKept
  <2> HIDE DEF r
  <2> QED
    BY <1>1, <1>2, <2>2 DEF SetUpIs, r
<1>3. CASE req.model # <<>>
  <2> DEFINE W == OpenCodeFields(Parsed(given, C), Providers, name)
  <2>1. {ParseModelID(req.model).provider, "google", "google-vertex-anthropic", "custom"}
          \subseteq Providers
    BY DEF Providers
  <2>2. OneFile(given, r, C) /\ Keeps(W, Parsed(given, C), r[C]) /\ <<"model">> \in DOMAIN r[C]
    BY <1>3, <2>1, OpenCodeIsSetUp DEF SetUpSettings
  <2>3. \A p : Described(p) = DescribedIn(Parsed(given, C), p, name)
    BY <1>1 DEF Described, DescribedIn, ModelFile
  <2>4. W \subseteq ModelFields
    BY <1>3, <2>3 DEF ModelFields, OpenCodeFields, ProviderFields
  <2> HIDE DEF r, C, W
  <2>5. W \subseteq Written(C)
    BY <1>1, <2>4 DEF Written
  <2>6. (\A path \in DOMAIN given : FileKept(path, Written(path), r)) /\ GetContent(r, C) = r[C]
    BY <2>2, <2>5, OneFileKept
  <2> QED
    BY <1>1, <2>2, <2>6 DEF SetUpIs, r
<1> QED
  BY <1>2, <1>3

\* No edit is refused: the files the agents edit are not broken.
LEMMA EditsSucceed ==
  ASSUME SettingsInv, SetUpAgent, req.agent \in Agents
  PROVE  /\ IsSettings(given) /\ settings' = SetUpSettings
         /\ req.agent = "goose" => GetContent(given, GooseConfigPath) # Broken
         /\ req.agent = "opencode" /\ req.model # <<>> => GetContent(given, OpenCodeConfigPath) # Broken
<1>1. settings = given /\ IsSettings(given) /\ ~SetUpFails
  BY DEF SettingsInv, SetUpAgent, Step
<1>2. Modelled = Edited(req.agent, given, approvedKeys, req.model, ContainerHostname)
  BY <1>1 DEF Modelled, Onboarded, Edited
<1>3. settings' = SetUpSettings
  BY <1>2 DEF SetUpAgent, SetUpSettings
<1>4. CASE req.agent = "goose"
  <2>1. ~EditFails(req.agent, given, GooseConfigPath)
    BY <1>1, <1>4 DEF SetUpFails, SkipOnboardingFails, OnboardingPath
  <2> QED
    BY <1>1, <1>3, <1>4, <2>1 DEF EditFails
<1>5. CASE req.agent = "opencode" /\ req.model # <<>>
  <2>1. Onboarded = given
    BY <1>1, <1>5 DEF Onboarded, SkipOnboarding
  <2>2. ~EditFails(req.agent, given, OpenCodeConfigPath)
    BY <1>1, <1>5, <2>1 DEF SetUpFails, SetModelFails, ModelPath, OnboardingPath
  <2> QED
    BY <1>1, <1>3, <1>5, <2>2 DEF EditFails
<1> QED
  BY <1>1, <1>3, <1>4, <1>5

\* What the property reads, but for the settings, is not changed by the set-up.
LEMMA AgentSetUp ==
  ASSUME Inv, SettingsInv, SetUpAgent
  PROVE  AgentIsSetUp'
<1> SUFFICES ASSUME req.agent \in Agents PROVE AgentIsSetUp'
  BY DEF AgentIsSetUp, SetUpAgent
<1>1. IsConfig(cfg) /\ validate(cfg)
  BY DEF Inv, ConfigInv, SetUpAgent, Step, BeforeLoaded
<1>2. ValidMCPIs(cfg)
  BY <1>1, ValidMCPParts DEF validate, IsConfig
<1>3. /\ req' = req /\ given' = given /\ used' = used
      /\ cfg' = [cfg EXCEPT !.mounts = cfg.mounts \o SkillMounts]
  BY DEF SetUpAgent
<1>4. cfg'.cmds = cfg.cmds /\ cfg'.srvs = cfg.srvs
  BY <1>1, <1>3 DEF IsConfig
<1>5. SetUpIs(settings')
  BY <1>2, EditsSucceed, ClaudeSetUp, CursorSetUp, GooseSetUp, OpenclawSetUp, OpenCodeSetUp
     DEF Agents
<1>6. secretEnvVars' = secretEnvVars /\ MCPNames(cfg') = MCPNames(cfg)
  BY <1>3, <1>4 DEF secretEnvVars, MCPNames
<1>7. \A path : Written(path)' = Written(path)
  <2>1. Providers' = Providers /\ ModelFile' = ModelFile
    BY <1>3 DEF Providers, ModelFile
  <2>2. \A p : Described(p)' = Described(p)
    BY <1>3, <2>1 DEF Described
  <2>3. ModelFields' = ModelFields
    BY <1>3, <2>1, <2>2 DEF ModelFields
  <2>4. OtherFields' = OtherFields
    BY <1>3, <1>6 DEF OtherFields
  <2> QED
    BY <1>3, <2>3, <2>4 DEF Written
<1>8. Onboarding' = Onboarding /\ ModelField' = ModelField
  BY <1>3 DEF Onboarding, ModelField
<1>9. UserFieldsKept'
  BY <1>3, <1>5, <1>7 DEF UserFieldsKept, SetUpIs, FileKept
<1>10. /\ \A f \in Onboarding : HasField(GetContent(settings', OnboardingPath(req.agent)), f)
       /\ req.model # <<>> => ModelField \in DOMAIN GetContent(settings', ModelPath(req.agent))
  BY <1>5 DEF SetUpIs
<1>11. CASE req.agent = "claude"
  <2>1. KeysApproved'
    BY <1>3, <1>5, <1>6, <1>11 DEF SetUpIs, KeysApproved
  <2>2. HasMCP(settings[ClaudeJSONPath], <<"mcpServers">>, "stdio", "sse")'
    BY <1>4, <1>5, <1>11 DEF SetUpIs, HasMCP, HasEntries
  <2> QED
    BY <1>3, <1>8, <1>9, <1>10, <1>11, <2>1, <2>2 DEF AgentIsSetUp
<1>12. CASE req.agent = "openclaw"
  <2>1. HasMCP(settings[OpenclawConfigPath], <<"mcp", "servers">>, "command", "streamable-http")'
    BY <1>4, <1>5, <1>12 DEF SetUpIs, HasMCP, HasEntries
  <2> QED
    BY <1>3, <1>8, <1>9, <1>10, <1>12, <2>1 DEF AgentIsSetUp
<1>13. CASE req.agent \notin {"claude", "openclaw"}
  BY <1>3, <1>8, <1>9, <1>10, <1>13 DEF AgentIsSetUp
<1> QED
  BY <1>11, <1>12, <1>13

\* A step that changes nothing of the set-up.
LEMMA SetUpStays ==
  ASSUME SettingsInv, AgentIsSetUp, UNCHANGED <<req, cfg, used, given, settings>>,
         pc' \notin {"setup", "create"} \/ pc' = pc
  PROVE  SettingsInv' /\ AgentIsSetUp'
<1>1. SettingsInv'
  BY DEF SettingsInv
<1>2. CASE pc' # "create"
  BY <1>1, <1>2 DEF AgentIsSetUp
<1>3. CASE pc' = "create" /\ pc = "create"
  <2>1. /\ UserFieldsKept' = UserFieldsKept /\ KeysApproved' = KeysApproved
        /\ Onboarding' = Onboarding /\ ModelField' = ModelField
        /\ \A doc, prefix, stdio, remote :
             HasMCP(doc, prefix, stdio, remote)' = HasMCP(doc, prefix, stdio, remote)
    BY DEF UserFieldsKept, KeysApproved, Onboarding, ModelField, HasMCP, Written, ModelFields,
           OtherFields, Described, Providers, ModelFile, secretEnvVars, MCPNames
  <2> QED
    BY <1>1, <1>3, <2>1 DEF AgentIsSetUp
<1> QED
  BY <1>2, <1>3

\* Every step.
LEMMA SettingsNext ==
  ASSUME Inv, SettingsInv, AgentIsSetUp, [Next]_vars
  PROVE  SettingsInv' /\ AgentIsSetUp'
<1>1. CASE UNCHANGED vars
  BY <1>1, SetUpStays DEF vars, addVars
<1>2. CASE EditWorld
  BY <1>2, SetUpStays DEF EditWorld
<1>3. CASE \/ RegisterRuntimes \/ LoadWorkspace \/ LoadProjectConfig \/ LoadAgentConfig
           \/ MapSecret \/ AddFails
  <2>1. pc' \notin {"setup", "create"}
    BY <1>3 DEF RegisterRuntimes, LoadWorkspace, LoadProjectConfig, LoadAgentConfig, MapSecret,
                AddFails, Step
  <2> QED
    BY <2>1 DEF SettingsInv, AgentIsSetUp
<1>4. CASE ReadAgentSettings
  <2>1. IsPart("settings", world["settings"])
    BY DEF Inv, WorldInv, WorldParts
  <2>2. req.agent \in DOMAIN world["settings"] => IsSettings(world["settings"][req.agent])
    BY <1>4, <2>1 DEF ReadAgentSettings, SettingsReadable, IsPart
  <2>3. IsSettings(Nothing)
    BY DEF Nothing, IsSettings
  <2> QED
    BY <1>4, <2>2, <2>3 DEF ReadAgentSettings, Step, SettingsInv, AgentIsSetUp
<1>5. CASE SetUpAgent
  <2>1. SettingsInv'
    BY <1>5 DEF SetUpAgent, Step, SettingsInv
  <2> QED
    BY <1>5, <2>1, AgentSetUp
<1>6. CASE PodmanNext \/ SandboxNext
  <2>1. CASE pc' # "create"
    <3>1. pc' # "setup"
      BY <1>6, PodmanMoves, SandboxMoves DEF CreateStates
    <3> QED
      BY <2>1, <3>1 DEF SettingsInv, AgentIsSetUp
  <2>2. pc' # "create"
    BY <1>6 DEF PodmanNext, PodmanLoadConfig, PrepareFeatures, MergeFeatureOptions, BuildImage,
       KubePlay, DetectCredential, FakeCredential, SetupOnecli, ConfigureCredential,
       CreateContainer, PodmanFails, PodmanStep, SandboxNext, InterceptCredential,
       AddCredentialHosts, EnsureProvider, SandboxGateway, ListProviders, CreateSandbox,
       UploadCredential, WriteSandboxFiles, ApplyNetworkPolicy, SandboxFails, SandboxStep, Step
  <2> QED
    BY <2>1, <2>2
<1> QED
  BY <1>1, <1>2, <1>3, <1>4, <1>5, <1>6 DEF Next, AddNext

\* Whatever the user's settings files hold, as long as they parse, the edits of each of
\* the five agents leave the fields they do not write as they were, and the last edit
\* has not undone the first: onboarding, model, approved keys and MCP servers are all
\* there (pkg/agent, SkipOnboarding, SetModel, SetMCPServers; manager.go, Add).
THEOREM AgentsAreSetUp == Spec => []AgentIsSetUp
<1>1. CreationInit => SettingsInv /\ AgentIsSetUp
  BY DEF CreationInit, Init, SettingsInv, AgentIsSetUp
<1>2. Inv /\ [Next]_vars /\ SettingsInv /\ AgentIsSetUp => SettingsInv' /\ AgentIsSetUp'
  BY SettingsNext
<1> QED
  BY <1>1, <1>2, Invariance, PTL DEF Spec
=============================================================================
