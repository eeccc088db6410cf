----------------------------- MODULE ContextProofs -----------------------------
(***************************************************************************)
(* What optimize keeps, for every answer, profile and token budget.  A     *)
(* pass of the optimizer is a fold; each is unfolded into its steps (by    *)
(* well-founded induction, once, in Iterating and Unfolding), and what it  *)
(* has kept so far is its loop invariant: AdmittedSoFar, MergedSoFar and   *)
(* AffordedSoFar.  Their conclusions make the reference of a context as it *)
(* was built, and what was optimized settled, which is what optimizing     *)
(* again leaves alone.                                                     *)
(***************************************************************************)
EXTENDS Context, FiniteSetTheorems, SequenceTheorems, WellFoundedInduction, TLAPS

----
(* Folds.                                                                  *)

\* What holds of 0 and goes from a number to the next holds up to n.
LEMMA Counting ==
  ASSUME NEW n \in Nat, NEW F, 0 \in F,
         \A k \in 0 .. n - 1 : k \in F => k + 1 \in F
  PROVE  \A k \in 0 .. n : k \in F
<1> DEFINE S == {k \in 0 .. n : k \notin F}
<1>1. SUFFICES ASSUME S # {}
               PROVE  FALSE
  OBVIOUS
<1>2. S \in SUBSET Nat
  OBVIOUS
<1>3. PICK k \in S : \A w \in S : ~ (<<w, k>> \in OpToRel(<, Nat))
  BY <1>1, <1>2, NatLessThanWellFounded, WFMin, Zenon
<1>4. k # 0 /\ k \in 0 .. n /\ k \notin F
  OBVIOUS
<1>5. k - 1 \in 0 .. n - 1 /\ k - 1 < k /\ k - 1 \in Nat
  BY <1>4
<1>6. <<k - 1, k>> \in {ss \in Nat \X Nat : ss[1] < ss[2]}
  BY <1>4, <1>5
<1>7. k - 1 \notin S
  BY <1>3, <1>6 DEF OpToRel
<1>8. k - 1 \in F
  BY <1>5, <1>7
<1>9. (k - 1) + 1 \in F
  BY <1>5, <1>8
<1> QED
  BY <1>4, <1>9

\* The greatest of the numbers up to k is k.
LEMMA Greatest ==
  ASSUME NEW n \in Nat, NEW s \in SUBSET (1 .. n), n \in s
  PROVE  Max(s) = n
<1>1. n \in s /\ \A y \in s : n >= y
  OBVIOUS
<1>2. \A x \in s : (\A y \in s : x >= y) => x = n
  BY <1>1
<1> QED
  BY <1>1, <1>2, Zenon DEF Max

\* A set of numbers up to n has its greatest in it.
LEMMA Peak ==
  ASSUME NEW n \in Nat, NEW s \in SUBSET (1 .. n), s # {}
  PROVE  Max(s) \in s
<1> DEFINE Under == {n - x : x \in s}
<1>1. \A x \in s : x \in 1 .. n /\ n - x \in Nat
  OBVIOUS
<1>2. Under \in SUBSET Nat /\ Under # {}
  BY <1>1
<1>3. PICK u \in Under : \A w \in Under : ~ (<<w, u>> \in OpToRel(<, Nat))
  BY <1>2, NatLessThanWellFounded, WFMin, Zenon
<1>4. PICK x \in s : u = n - x
  OBVIOUS
<1>5. ASSUME NEW y \in s
      PROVE  x >= y
  <2>1. n - y \in Under /\ n - y \in Nat /\ n - x \in Nat
    BY <1>1
  <2>2. ~ (n - y < n - x)
    <3>1. n - y < n - x => <<n - y, n - x>> \in {ss \in Nat \X Nat : ss[1] < ss[2]}
      BY <2>1
    <3> QED
      BY <3>1, <2>1, <1>3, <1>4 DEF OpToRel
  <2> QED
    BY <2>2, <1>1
<1> QED
  BY <1>5, Zenon DEF Max

\* The numbers up to k, without the greatest, are those up to k - 1.
LEMMA UpToK ==
  ASSUME NEW n \in Nat, NEW k \in 1 .. n
  PROVE  /\ 1 .. k \in SUBSET (1 .. n) /\ 1 .. k # {} /\ Max(1 .. k) = k
         /\ (1 .. k) \ {k} = 1 .. k - 1
<1>1. k \in Nat /\ 1 .. k \in SUBSET (1 .. k) /\ k \in 1 .. k
  OBVIOUS
<1>2. Max(1 .. k) = k
  BY <1>1, Greatest
<1> QED
  BY <1>2

Iterates(iter, n, base, step) ==
  \A s \in SUBSET (1 .. n) :
    iter[s] = IF s = {} THEN base ELSE step[<<iter[s \ {Max(s)}], Max(s)>>]

\* The recursion a fold over 1 .. n is defined by has a solution.
LEMMA Iterating ==
  ASSUME NEW n \in Nat, NEW A, NEW base \in A, NEW step \in [A \X (1 .. n) -> A]
  PROVE  \E iter \in [SUBSET (1 .. n) -> A] : Iterates(iter, n, base, step)
<1> DEFINE Solves(g, k) ==
             \A s \in SUBSET (1 .. k) :
               g[s] = IF s = {} THEN base ELSE step[<<g[s \ {Max(s)}], Max(s)>>]
           F == {k \in 0 .. n : \E g \in [SUBSET (1 .. k) -> A] : Solves(g, k)}
<1>1. 0 \in F
  <2> DEFINE g == [s \in SUBSET (1 .. 0) |-> base]
  <2>1. \A s \in SUBSET (1 .. 0) : s = {}
    OBVIOUS
  <2>2. g \in [SUBSET (1 .. 0) -> A] /\ Solves(g, 0)
    BY <2>1
  <2>3. 0 \in 0 .. n
    OBVIOUS
  <2> HIDE DEF g, Solves
  <2> QED
    BY <2>2, <2>3
<1>2. ASSUME NEW k \in 0 .. n - 1, k \in F
      PROVE  k + 1 \in F
  <2>1. PICK g \in [SUBSET (1 .. k) -> A] : Solves(g, k)
    BY <1>2
  <2> DEFINE m == k + 1
             h == [s \in SUBSET (1 .. m) |->
                     IF m \in s THEN step[<<g[s \ {m}], m>>] ELSE g[s]]
  <2>2. m \in 1 .. n /\ m \in Nat
    OBVIOUS
  <2>3. ASSUME NEW s \in SUBSET (1 .. m)
        PROVE  /\ s \ {m} \in SUBSET (1 .. k)
               /\ m \notin s => s \in SUBSET (1 .. k)
    OBVIOUS
  <2>4. ASSUME NEW s \in SUBSET (1 .. m)
        PROVE  h[s] \in A
    <3>1. CASE m \in s
      <4>1. g[s \ {m}] \in A
        BY <2>3
      <4> QED
        BY <3>1, <4>1, <2>2
    <3>2. CASE m \notin s
      BY <3>2, <2>3
    <3> QED
      BY <3>1, <3>2
  <2>5. \A s \in SUBSET (1 .. k) : s \in SUBSET (1 .. m) /\ h[s] = g[s]
    OBVIOUS
  <2>6. ASSUME NEW s \in SUBSET (1 .. m)
        PROVE  h[s] = IF s = {} THEN base ELSE step[<<h[s \ {Max(s)}], Max(s)>>]
    <3>1. CASE m \in s
      <4>1. Max(s) = m
        BY <3>1, <2>2, Greatest
      <4>2. h[s \ {m}] = g[s \ {m}]
        BY <2>3, <2>5
      <4>3. h[s] = step[<<g[s \ {m}], m>>]
        BY <3>1
      <4> HIDE DEF h, m
      <4> QED
        BY <3>1, <4>1, <4>2, <4>3
    <3>2. CASE m \notin s
      <4>1. s \in SUBSET (1 .. k)
        BY <3>2, <2>3
      <4>2. s \ {Max(s)} \in SUBSET (1 .. k)
        BY <4>1
      <4> HIDE DEF h, m
      <4> QED
        BY <4>1, <4>2, <2>1, <2>5
    <3> QED
      BY <3>1, <3>2
  <2>7. h \in [SUBSET (1 .. m) -> A]
    BY <2>4
  <2>8. Solves(h, m)
    BY <2>6
  <2> HIDE DEF h, Solves
  <2> QED
    BY <2>2, <2>7, <2>8
<1>3. n \in F
  <2> HIDE DEF F
  <2> QED
    BY <1>1, <1>2, Counting
<1>4. PICK g \in [SUBSET (1 .. n) -> A] : Solves(g, n)
  BY <1>3
<1> QED
  BY <1>4, Zenon DEF Iterates

\* A choice of solutions, over step where it is known to be one.
Follows(c, n, A, base, step) ==
  /\ c[{}] = base
  /\ \A s \in SUBSET (1 .. n) :
       s # {} /\ c[s \ {Max(s)}] \in A => c[s] = step[<<c[s \ {Max(s)}], Max(s)>>]

Steps(f, n, base, last, step) ==
  /\ f[0] = base
  /\ f[n] = last
  /\ \A i \in 1 .. n : f[i] = step[<<f[i - 1], i>>]

\* Followed from 1 .. 0 to 1 .. n it takes one step after the other.
LEMMA Unfolding ==
  ASSUME NEW n \in Nat, NEW A, NEW base \in A, NEW step \in [A \X (1 .. n) -> A],
         NEW c, Follows(c, n, A, base, step)
  PROVE  \E f \in [0 .. n -> A] : Steps(f, n, base, c[1 .. n], step)
<1> DEFINE f == [i \in 0 .. n |-> c[1 .. i]]
<1>1. f[0] = base
  <2>1. 1 .. 0 = {} /\ 0 \in 0 .. n
    OBVIOUS
  <2>2. c[{}] = base
    BY DEF Follows
  <2> QED
    BY <2>1, <2>2
<1>2. ASSUME NEW i \in 1 .. n, f[i - 1] \in A
      PROVE  f[i] = step[<<f[i - 1], i>>]
  <2>1. f[i] = c[1 .. i] /\ f[i - 1] = c[1 .. i - 1]
    <3>1. i \in 0 .. n /\ i - 1 \in 0 .. n
      OBVIOUS
    <3> QED
      BY <3>1
  <2> HIDE DEF f
  <2>2. /\ 1 .. i \in SUBSET (1 .. n) /\ 1 .. i # {} /\ Max(1 .. i) = i
        /\ (1 .. i) \ {i} = 1 .. i - 1
    BY UpToK
  <2>3. c[(1 .. i) \ {Max(1 .. i)}] \in A
    BY <1>2, <2>1, <2>2, Zenon
  <2>4. c[1 .. i] = step[<<c[(1 .. i) \ {Max(1 .. i)}], Max(1 .. i)>>]
    BY <2>2, <2>3, Zenon DEF Follows
  <2> QED
    BY <2>1, <2>2, <2>4, Zenon
<1>3. \A i \in 0 .. n : f[i] \in A
  <2> DEFINE F == {i \in 0 .. n : f[i] \in A}
  <2>1. 0 \in F
    <3>1. 0 \in 0 .. n
      OBVIOUS
    <3> HIDE DEF f
    <3> QED
      BY <3>1, <1>1
  <2>2. ASSUME NEW i \in 0 .. n - 1, i \in F
        PROVE  i + 1 \in F
    <3> PICK j \in 1 .. n : j = i + 1 /\ j - 1 = i
      OBVIOUS
    <3> HIDE DEF f
    <3>1. f[j] = step[<<f[j - 1], j>>]
      BY <1>2, <2>2
    <3> QED
      BY <3>1, <2>2
  <2> HIDE DEF F
  <2>3. \A i \in 0 .. n : i \in F
    BY <2>1, <2>2, Counting
  <2> QED
    BY <2>3 DEF F
<1>4. f \in [0 .. n -> A]
  BY <1>3
<1>5. f[n] = c[1 .. n] /\ \A i \in 1 .. n : i - 1 \in 0 .. n
  OBVIOUS
<1> HIDE DEF f
<1>6. Steps(f, n, base, c[1 .. n], step)
  BY <1>1, <1>2, <1>3, <1>5 DEF Steps
<1> QED
  BY <1>4, <1>6

----
(* What the passes do with an item.                                        *)

Pass == [kept : Seq(Item), out : Seq(Left)]

Reasons == {"duplicate", "status_excluded", "canonical_merged", "token_budget"}

\* A pass begins with nothing.
LEMMA NothingIs ==
  /\ Nothing \in Pass
  /\ Nothing.kept = << >> /\ Nothing.out = << >>
BY DEF Nothing, Pass

\* Keeping an item puts it last.
LEMMA KeepIs ==
  ASSUME NEW acc \in Pass, NEW item \in Item
  PROVE  /\ Keep(acc, item) \in Pass
         /\ Keep(acc, item).kept = Append(acc.kept, item)
         /\ Keep(acc, item).out = acc.out
<1>1. acc.kept \in Seq(Item) /\ Append(acc.kept, item) \in Seq(Item)
  BY DEF Pass
<1> QED
  BY <1>1 DEF Pass, Keep

\* Leaving one out adds one to what was left out and keeps what was kept.
LEMMA LeaveIs ==
  ASSUME NEW acc \in Pass, NEW item \in Item, NEW why \in Reasons
  PROVE  /\ Leave(acc, item, why) \in Pass
         /\ Leave(acc, item, why).kept = acc.kept
         /\ Len(Leave(acc, item, why).out) = Len(acc.out) + 1
<1>1. Because(item, why) \in Left
  BY DEF Because, Left, Item, Reasons
<1>2. acc.out \in Seq(Left) /\ Append(acc.out, Because(item, why)) \in Seq(Left)
      /\ Len(Append(acc.out, Because(item, why))) = Len(acc.out) + 1
  BY <1>1 DEF Pass
<1> QED
  BY <1>2 DEF Pass, Leave

\* What is in the range of a sequence.
LEMMA InRange ==
  ASSUME NEW T, NEW s \in Seq(T)
  PROVE  /\ \A x : x \in Range(s) <=> \E i \in 1 .. Len(s) : s[i] = x
         /\ Range(s) \subseteq T
BY DEF Range

\* An appended element comes last, and the others stay where they are.
LEMMA RangeAppend ==
  ASSUME NEW T, NEW s \in Seq(T), NEW x \in T
  PROVE  /\ Append(s, x) \in Seq(T) /\ Len(Append(s, x)) = Len(s) + 1
         /\ \A i \in 1 .. Len(s) : Append(s, x)[i] = s[i]
         /\ Append(s, x)[Len(s) + 1] = x
         /\ Range(Append(s, x)) = Range(s) \cup {x}
<1>1. /\ Append(s, x) \in Seq(T) /\ Len(Append(s, x)) = Len(s) + 1
      /\ \A i \in 1 .. Len(s) : Append(s, x)[i] = s[i]
      /\ Append(s, x)[Len(s) + 1] = x
  OBVIOUS
<1>2. ASSUME NEW y
      PROVE  y \in Range(Append(s, x)) <=> y \in Range(s) \/ y = x
  <2>1. y \in Range(Append(s, x)) <=> \E i \in 1 .. Len(s) + 1 : Append(s, x)[i] = y
    <3> DEFINE a == Append(s, x)
    <3>1. a \in Seq(T) /\ Len(a) = Len(s) + 1
      BY <1>1
    <3> HIDE DEF a
    <3>2. y \in Range(a) <=> \E i \in 1 .. Len(a) : a[i] = y
      BY <3>1, InRange
    <3> QED
      BY <3>1, <3>2 DEF a
  <2>2. y \in Range(s) <=> \E i \in 1 .. Len(s) : s[i] = y
    BY InRange
  <2>3. Len(s) \in Nat
    OBVIOUS
  <2>4. \A i \in 1 .. Len(s) + 1 : i \in 1 .. Len(s) \/ i = Len(s) + 1
    BY <2>3
  <2>5. Len(s) + 1 \in 1 .. Len(s) + 1 /\ \A i \in 1 .. Len(s) : i \in 1 .. Len(s) + 1
    BY <2>3
  <2> QED
    BY <2>1, <2>2, <2>4, <2>5, <1>1
<1> QED
  BY <1>1, <1>2

\* The items in a set, item by item.
Picks(f, items, S) ==
  /\ f[0] = << >>
  /\ f[Len(items)] = Those(items, S)
  /\ \A i \in 1 .. Len(items) :
       f[i] = IF items[i] \in S THEN Append(f[i - 1], items[i]) ELSE f[i - 1]

\* Those goes through the items one by one.
LEMMA ThoseSteps ==
  ASSUME NEW T, NEW items \in Seq(T), NEW S
  PROVE  \E f \in [0 .. Len(items) -> Seq(T)] : Picks(f, items, S)
<1> DEFINE n == Len(items)
           A == Seq(T)
           op(acc, item) == IF item \in S THEN Append(acc, item) ELSE acc
           step == [p \in A \X (1 .. n) |-> op(p[1], items[p[2]])]
           Solves(iter) ==
             iter = [s \in SUBSET (DOMAIN items) |->
                       IF s = {} THEN << >>
                       ELSE op(iter[s \ {Max(s)}], items[Max(s)])]
           c == CHOOSE iter : Solves(iter)
<1>1. n \in Nat /\ DOMAIN items = 1 .. n /\ \A i \in 1 .. n : items[i] \in T
  OBVIOUS
<1>2. << >> \in A /\ \A acc \in A : \A item \in T : op(acc, item) \in A
  BY DEF A, op
<1>3. /\ step \in [A \X (1 .. n) -> A]
      /\ \A acc \in A : \A i \in 1 .. n : step[<<acc, i>>] = op(acc, items[i])
  <2> HIDE DEF A, op, n
  <2> QED
    BY <1>1, <1>2
<1> HIDE DEF A, op, n, step
<1>4. PICK iter \in [SUBSET (1 .. n) -> A] : Iterates(iter, n, << >>, step)
  BY <1>1, <1>2, <1>3, Iterating, Zenon
<1>5. ASSUME NEW s \in SUBSET (1 .. n), s # {}
      PROVE  Max(s) \in 1 .. n
  BY <1>1, <1>5, Peak
<1>6. Solves(iter)
  <2>1. ASSUME NEW s \in SUBSET (1 .. n)
        PROVE  iter[s] = IF s = {} THEN << >>
                         ELSE op(iter[s \ {Max(s)}], items[Max(s)])
    <3>1. iter[s] = IF s = {} THEN << >> ELSE step[<<iter[s \ {Max(s)}], Max(s)>>]
      BY <1>4, Zenon DEF Iterates
    <3> QED
      BY <3>1, <1>3, <1>5
  <2> QED
    BY <2>1, <1>1
<1>7. Solves(c)
  BY <1>6, Zenon
<1>8. Follows(c, n, A, << >>, step)
  <2>1. ASSUME NEW s \in SUBSET (1 .. n)
        PROVE  c[s] = IF s = {} THEN << >> ELSE op(c[s \ {Max(s)}], items[Max(s)])
    <3>1. c = [t \in SUBSET (1 .. n) |->
                 IF t = {} THEN << >> ELSE op(c[t \ {Max(t)}], items[Max(t)])]
      BY <1>7, <1>1
    <3> HIDE DEF c
    <3> QED
      BY <3>1
  <2> HIDE DEF c, Solves
  <2>2. c[{}] = << >>
    BY <2>1
  <2> QED
    BY <2>1, <2>2, <1>3, <1>5 DEF Follows
<1>9. Those(items, S) = c[DOMAIN items]
  BY DEF Those, FoldLeft, MapThenFoldSet, op
<1> HIDE DEF c, Solves
<1>10. PICK f \in [0 .. n -> A] : Steps(f, n, << >>, c[1 .. n], step)
  BY <1>1, <1>2, <1>3, <1>8, Unfolding, Zenon
<1>11. \A i \in 1 .. n : f[i] = op(f[i - 1], items[i])
  <2>1. \A i \in 1 .. n : f[i - 1] \in A
    BY <1>1
  <2> QED
    BY <2>1, <1>3, <1>10 DEF Steps
<1> QED
  BY <1>1, <1>9, <1>10, <1>11, Zenon DEF n, A, op, Steps, Picks

\* It holds the items that are in the set, and no others, in their order.
LEMMA ThoseIs ==
  ASSUME NEW T, NEW items \in Seq(T), NEW S
  PROVE  /\ Those(items, S) \in Seq(T)
         /\ Range(Those(items, S)) = Range(items) \cap S
         /\ \A a, b \in 1 .. Len(Those(items, S)) : a < b =>
              \E m, k \in 1 .. Len(items) :
                m < k /\ items[m] = Those(items, S)[a] /\ items[k] = Those(items, S)[b]
<1> DEFINE n == Len(items)
<1>0. PICK f \in [0 .. n -> Seq(T)] : Picks(f, items, S)
  BY ThoseSteps, Zenon
<1>1. /\ f[0] = << >>
      /\ f[n] = Those(items, S)
      /\ \A i \in 1 .. n : f[i] = IF items[i] \in S THEN Append(f[i - 1], items[i])
                                  ELSE f[i - 1]
  BY <1>0, Zenon DEF Picks
<1>2. n \in Nat /\ \A i \in 1 .. n : items[i] \in T
  OBVIOUS
<1> DEFINE Members(i) == \A x : x \in Range(f[i]) <=>
                            x \in S /\ \E m \in 1 .. i : items[m] = x
           InOrder(i) == \A a, b \in 1 .. Len(f[i]) : a < b =>
                           \E m, k \in 1 .. i :
                             m < k /\ items[m] = f[i][a] /\ items[k] = f[i][b]
           F == {i \in 0 .. n : Members(i) /\ InOrder(i)}
<1>3. 0 \in F
  <2>1. f[0] = << >> /\ Range(<< >>) = {} /\ Len(<< >>) = 0 /\ 1 .. 0 = {}
    BY <1>1 DEF Range
  <2>2. 0 \in 0 .. n
    BY <1>2
  <2> QED
    BY <2>1, <2>2
<1>4. ASSUME NEW j \in 0 .. n - 1, j \in F
      PROVE  j + 1 \in F
  <2> PICK i \in 1 .. n : i = j + 1 /\ i - 1 = j
    BY <1>2
  <2>1. Members(j) /\ InOrder(j) /\ f[j] \in Seq(T) /\ items[i] \in T /\ i \in 0 .. n
    BY <1>4, <1>2
  <2>2. \A m : m \in 1 .. i <=> m \in 1 .. j \/ m = i
    OBVIOUS
  <2>3. \A m \in 1 .. j : m < i
    OBVIOUS
  <2>4. CASE items[i] \notin S
    <3>1. f[i] = f[j]
      BY <1>1, <2>4
    <3>2. Members(i)
      BY <2>1, <2>2, <2>4, <3>1
    <3>3. InOrder(i)
      BY <2>1, <2>2, <3>1
    <3> QED
      BY <2>1, <3>2, <3>3
  <2>5. CASE items[i] \in S
    <3>1. f[i] = Append(f[j], items[i])
      BY <1>1, <2>5
    <3>2. /\ f[i] \in Seq(T) /\ Len(f[i]) = Len(f[j]) + 1
          /\ \A a \in 1 .. Len(f[j]) : f[i][a] = f[j][a]
          /\ f[i][Len(f[j]) + 1] = items[i]
          /\ Range(f[i]) = Range(f[j]) \cup {items[i]}
      <4> DEFINE g == f[j]
                 x == items[i]
      <4> HIDE DEF g, x
      <4>1. g \in Seq(T) /\ x \in T /\ f[i] = Append(g, x)
        BY <2>1, <3>1 DEF g, x
      <4>2. /\ Append(g, x) \in Seq(T) /\ Len(Append(g, x)) = Len(g) + 1
            /\ \A a \in 1 .. Len(g) : Append(g, x)[a] = g[a]
            /\ Append(g, x)[Len(g) + 1] = x
            /\ Range(Append(g, x)) = Range(g) \cup {x}
        BY <4>1, RangeAppend
      <4> QED
        BY <4>1, <4>2, Zenon DEF g, x
    <3>3. Members(i)
      BY <2>1, <2>2, <2>5, <3>2
    <3>4. InOrder(i)
      <4> SUFFICES ASSUME NEW a \in 1 .. Len(f[i]), NEW b \in 1 .. Len(f[i]), a < b
                   PROVE  \E m, k \in 1 .. i :
                            m < k /\ items[m] = f[i][a] /\ items[k] = f[i][b]
        OBVIOUS
      <4>1. Len(f[j]) \in Nat /\ a \in 1 .. Len(f[j]) /\ f[i][a] = f[j][a]
        BY <2>1, <3>2
      <4>2. CASE b \in 1 .. Len(f[j])
        <5>1. PICK m, k \in 1 .. j : m < k /\ items[m] = f[j][a] /\ items[k] = f[j][b]
          BY <2>1, <4>1, <4>2
        <5> QED
          BY <5>1, <2>2, <3>2, <4>1, <4>2
      <4>3. CASE b = Len(f[j]) + 1
        <5>1. f[j][a] \in Range(f[j])
          BY <2>1, <4>1, InRange
        <5>2. PICK m \in 1 .. j : items[m] = f[j][a]
          BY <5>1, <2>1
        <5> QED
          BY <5>2, <2>2, <2>3, <3>2, <4>1, <4>3
      <4> QED
        BY <4>1, <4>2, <4>3, <3>2
    <3> QED
      BY <2>1, <3>3, <3>4
  <2> QED
    BY <2>4, <2>5
<1>5. n \in F
  <2> HIDE DEF F
  <2>1. \A i \in 0 .. n : i \in F
    BY <1>2, <1>3, <1>4, Counting
  <2> QED
    BY <2>1, <1>2
<1>6. Members(n) /\ InOrder(n) /\ f[n] = Those(items, S) /\ f[n] \in Seq(T)
  BY <1>5, <1>1, <1>2
<1>7. Range(f[n]) = Range(items) \cap S
  BY <1>6, InRange
<1> QED
  BY <1>6, <1>7

\* Those of a prefix, when none of the others is in the set.
LEMMA ThosePrefix ==
  ASSUME NEW T, NEW items \in Seq(T), NEW S, NEW p \in 0 .. Len(items),
         \A i \in 1 .. p : items[i] \in S,
         \A i \in p + 1 .. Len(items) : items[i] \notin S
  PROVE  Those(items, S) = SubSeq(items, 1, p)
<1> DEFINE n == Len(items)
<1>0. PICK f \in [0 .. n -> Seq(T)] : Picks(f, items, S)
  BY ThoseSteps, Zenon
<1>1. /\ f[0] = << >>
      /\ f[n] = Those(items, S)
      /\ \A i \in 1 .. n : f[i] = IF items[i] \in S THEN Append(f[i - 1], items[i])
                                  ELSE f[i - 1]
  BY <1>0, Zenon DEF Picks
<1>2. n \in Nat /\ p \in Nat /\ p <= n /\ \A i \in 1 .. n : items[i] \in T
  OBVIOUS
<1> DEFINE F == {i \in 0 .. n : f[i] = IF i <= p THEN SubSeq(items, 1, i)
                                       ELSE SubSeq(items, 1, p)}
<1>3. 0 \in F
  <2>1. SubSeq(items, 1, 0) = << >> /\ 0 \in 0 .. n /\ 0 <= p
    BY <1>2
  <2> QED
    BY <2>1, <1>1
<1>4. ASSUME NEW j \in 0 .. n - 1, j \in F
      PROVE  j + 1 \in F
  <2> PICK i \in 1 .. n : i = j + 1 /\ i - 1 = j
    BY <1>2
  <2>1. i \in 0 .. n
    OBVIOUS
  <2>2. CASE i <= p
    <3>1. items[i] \in S /\ j <= p
      BY <1>2, <2>2
    <3>3. f[i] = Append(f[j], items[i]) /\ f[j] = SubSeq(items, 1, j)
      BY <1>1, <1>4, <3>1
    <3>2. Append(SubSeq(items, 1, j), items[i]) = SubSeq(items, 1, i)
      OBVIOUS
    <3> QED
      BY <2>1, <2>2, <3>3, <3>2
  <2>3. CASE i > p
    <3>1. f[i] = f[j] /\ items[i] \notin S
      BY <1>1, <1>2, <2>3
    <3>2. f[j] = SubSeq(items, 1, p)
      BY <1>4, <2>3, <1>2
    <3> QED
      BY <2>1, <2>3, <3>1, <3>2, <1>2
  <2> QED
    BY <2>2, <2>3, <1>2
<1>5. n \in F
  <2> HIDE DEF F
  <2>1. \A i \in 0 .. n : i \in F
    BY <1>2, <1>3, <1>4, Counting
  <2> QED
    BY <2>1, <1>2
<1> QED
  BY <1>1, <1>2, <1>5

\* Without one of its members, a sequence in which nothing is twice is one
\* shorter.
LEMMA ThoseBut ==
  ASSUME NEW T, NEW items \in Seq(T), NEW p \in 1 .. Len(items),
         \A i, j \in 1 .. Len(items) : items[i] = items[j] => i = j
  PROVE  Len(Those(items, Range(items) \ {items[p]})) = Len(items) - 1
<1> DEFINE n == Len(items)
           S == Range(items) \ {items[p]}
<1>0. PICK f \in [0 .. n -> Seq(T)] : Picks(f, items, S)
  <2> HIDE DEF S
  <2> QED
    BY ThoseSteps, Zenon
<1>1. /\ f[0] = << >>
      /\ f[n] = Those(items, S)
      /\ \A i \in 1 .. n : f[i] = IF items[i] \in S THEN Append(f[i - 1], items[i])
                                  ELSE f[i - 1]
  BY <1>0, Zenon DEF Picks
<1>2. n \in Nat /\ p \in Nat /\ p <= n /\ 0 < p /\ \A i \in 1 .. n : items[i] \in T
  OBVIOUS
<1>3. \A i \in 1 .. n : items[i] \in S <=> i # p
  BY InRange
<1> DEFINE F == {i \in 0 .. n : Len(f[i]) = IF i < p THEN i ELSE i - 1}
<1>4. 0 \in F
  <2>1. Len(<< >>) = 0 /\ 0 \in 0 .. n
    BY <1>2
  <2> QED
    BY <2>1, <1>1, <1>2
<1>5. ASSUME NEW j \in 0 .. n - 1, j \in F
      PROVE  j + 1 \in F
  <2> PICK i \in 1 .. n : i = j + 1 /\ i - 1 = j
    BY <1>2
  <2>1. i \in 0 .. n /\ f[j] \in Seq(T) /\ items[i] \in T
    BY <1>2
  <2>2. Len(f[j]) = IF j < p THEN j ELSE j - 1
    BY <1>5
  <2>3. f[i] = IF i # p THEN Append(f[j], items[i]) ELSE f[j]
    <3> HIDE DEF S
    <3> QED
      BY <1>1, <1>3
  <2>4. Len(Append(f[j], items[i])) = Len(f[j]) + 1
    BY <2>1
  <2>5. Len(f[i]) = IF i < p THEN i ELSE i - 1
    BY <2>2, <2>3, <2>4, <1>2
  <2> QED
    BY <2>1, <2>5
<1>6. n \in F
  <2> HIDE DEF F
  <2>1. \A i \in 0 .. n : i \in F
    BY <1>2, <1>4, <1>5, Counting
  <2> QED
    BY <2>1, <1>2
<1>7. Len(f[n]) = n - 1
  BY <1>6, <1>2
<1> HIDE DEF S
<1> QED
  BY <1>1, <1>7 DEF S

----
(* The passes, item by item.                                               *)

\* An item admitted or not, it goes on being a pass.
LEMMA AdmitIs ==
  ASSUME NEW acc \in Pass, NEW item \in Item, NEW all
  PROVE  Admit(acc, item, all) \in Pass
<1>1. Leave(acc, item, "duplicate") \in Pass /\ Leave(acc, item, "status_excluded") \in Pass
  BY LeaveIs DEF Reasons
<1> QED
  BY <1>1, KeepIs DEF Admit

\* The same of an item that is afforded or not.
LEMMA AffordIs ==
  ASSUME NEW acc \in Pass, NEW item \in Item, NEW limit
  PROVE  Afford(acc, item, limit) \in Pass
<1>1. Leave(acc, item, "token_budget") \in Pass
  BY LeaveIs DEF Reasons
<1> QED
  BY <1>1, KeepIs DEF Afford

\* The items that are kept with the title of a new one.
Rivals(acc, item) == {k \in Range(acc.kept) : Rival(k, item)}

\* What is kept instead of one of them.
Replaced(acc, old, item) ==
  Keep(Leave([acc EXCEPT !.kept = Those(@, Range(@) \ {old})], old, "canonical_merged"), item)

\* The old item is gone, the new one is last, and one more was left out.
LEMMA ReplacedIs ==
  ASSUME NEW acc \in Pass, NEW item \in Item, NEW old \in Range(acc.kept)
  PROVE  /\ Replaced(acc, old, item) \in Pass
         /\ Replaced(acc, old, item).kept =
              Append(Those(acc.kept, Range(acc.kept) \ {old}), item)
         /\ Len(Replaced(acc, old, item).out) = Len(acc.out) + 1
<1>1. acc.kept \in Seq(Item) /\ acc.out \in Seq(Left)
  BY DEF Pass
<1>2. old \in Item
  BY <1>1, InRange
<1> DEFINE less == [acc EXCEPT !.kept = Those(@, Range(@) \ {old})]
<1>3. less \in Pass /\ less.kept = Those(acc.kept, Range(acc.kept) \ {old})
      /\ less.out = acc.out
  <2>1. Those(acc.kept, Range(acc.kept) \ {old}) \in Seq(Item)
    BY <1>1, ThoseIs
  <2> QED
    BY <2>1 DEF Pass
<1> HIDE DEF less
<1>4. /\ Leave(less, old, "canonical_merged") \in Pass
      /\ Leave(less, old, "canonical_merged").kept = less.kept
      /\ Len(Leave(less, old, "canonical_merged").out) = Len(less.out) + 1
  BY <1>2, <1>3, LeaveIs DEF Reasons
<1>5. /\ Keep(Leave(less, old, "canonical_merged"), item) \in Pass
      /\ Keep(Leave(less, old, "canonical_merged"), item).kept =
           Append(Leave(less, old, "canonical_merged").kept, item)
      /\ Keep(Leave(less, old, "canonical_merged"), item).out =
           Leave(less, old, "canonical_merged").out
  BY <1>4, KeepIs
<1>6. Replaced(acc, old, item) = Keep(Leave(less, old, "canonical_merged"), item)
  BY DEF Replaced, less
<1> QED
  BY <1>3, <1>4, <1>5, <1>6

\* What the merge does with an item.
LEMMA MergeIs ==
  ASSUME NEW acc \in Pass, NEW item \in Item
  PROVE  /\ Merge(acc, item) \in Pass
         /\ Rivals(acc, item) = {} => Merge(acc, item) = Keep(acc, item)
         /\ Rivals(acc, item) # {} =>
              \E old \in Rivals(acc, item) :
                Merge(acc, item) = IF item.score > old.score THEN Replaced(acc, old, item)
                                   ELSE Leave(acc, item, "canonical_merged")
<1>1. CASE Rivals(acc, item) = {}
  BY <1>1, KeepIs DEF Merge, Rivals
<1>2. CASE Rivals(acc, item) # {}
  <2> DEFINE old == CHOOSE k \in Rivals(acc, item) : TRUE
  <2>1. old \in Rivals(acc, item)
    BY <1>2
  <2>2. Merge(acc, item) = IF item.score > old.score THEN Replaced(acc, old, item)
                           ELSE Leave(acc, item, "canonical_merged")
    BY <1>2 DEF Merge, Rivals, Replaced
  <2> HIDE DEF old
  <2>3. Replaced(acc, old, item) \in Pass
    BY <2>1, ReplacedIs DEF Rivals
  <2>4. Leave(acc, item, "canonical_merged") \in Pass
    BY LeaveIs DEF Reasons
  <2> QED
    BY <1>2, <2>1, <2>2, <2>3, <2>4
<1> QED
  BY <1>1, <1>2

\* The first pass.
Admits(f, items, all) ==
  /\ f[0] = Nothing
  /\ f[Len(items)] = Deduplicated(items, all)
  /\ \A i \in 1 .. Len(items) : f[i] = Admit(f[i - 1], items[i], all)

\* The first pass goes through the items one by one.
LEMMA AdmitSteps ==
  ASSUME NEW items \in Seq(Item), NEW all
  PROVE  \E f \in [0 .. Len(items) -> Pass] : Admits(f, items, all)
<1> DEFINE n == Len(items)
           A == Pass
           op(acc, item) == Admit(acc, item, all)
           step == [p \in A \X (1 .. n) |-> op(p[1], items[p[2]])]
           Solves(iter) ==
             iter = [s \in SUBSET (DOMAIN items) |->
                       IF s = {} THEN Nothing
                       ELSE op(iter[s \ {Max(s)}], items[Max(s)])]
           c == CHOOSE iter : Solves(iter)
<1>1. n \in Nat /\ DOMAIN items = 1 .. n /\ \A i \in 1 .. n : items[i] \in Item
  OBVIOUS
<1>2. Nothing \in A /\ \A acc \in A : \A item \in Item : op(acc, item) \in A
  BY NothingIs, AdmitIs DEF A, op
<1>3. /\ step \in [A \X (1 .. n) -> A]
      /\ \A acc \in A : \A i \in 1 .. n : step[<<acc, i>>] = op(acc, items[i])
  <2> HIDE DEF A, op, n
  <2> QED
    BY <1>1, <1>2
<1> HIDE DEF A, op, n, step
<1>4. PICK iter \in [SUBSET (1 .. n) -> A] : Iterates(iter, n, Nothing, step)
  BY <1>1, <1>2, <1>3, Iterating, Zenon
<1>5. ASSUME NEW s \in SUBSET (1 .. n), s # {}
      PROVE  Max(s) \in 1 .. n
  BY <1>1, <1>5, Peak
<1>6. Solves(iter)
  <2>1. ASSUME NEW s \in SUBSET (1 .. n)
        PROVE  iter[s] = IF s = {} THEN Nothing
                         ELSE op(iter[s \ {Max(s)}], items[Max(s)])
    <3>1. iter[s] = IF s = {} THEN Nothing ELSE step[<<iter[s \ {Max(s)}], Max(s)>>]
      BY <1>4, Zenon DEF Iterates
    <3> QED
      BY <3>1, <1>3, <1>5
  <2> QED
    BY <2>1, <1>1
<1>7. Solves(c)
  BY <1>6, Zenon
<1>8. Follows(c, n, A, Nothing, step)
  <2>1. ASSUME NEW s \in SUBSET (1 .. n)
        PROVE  c[s] = IF s = {} THEN Nothing ELSE op(c[s \ {Max(s)}], items[Max(s)])
    <3>1. c = [t \in SUBSET (1 .. n) |->
                 IF t = {} THEN Nothing ELSE op(c[t \ {Max(t)}], items[Max(t)])]
      BY <1>7, <1>1
    <3> HIDE DEF c
    <3> QED
      BY <3>1
  <2> HIDE DEF c, Solves
  <2>2. c[{}] = Nothing
    BY <2>1
  <2> QED
    BY <2>1, <2>2, <1>3, <1>5 DEF Follows
<1>9. Deduplicated(items, all) = c[DOMAIN items]
  BY DEF Deduplicated, FoldLeft, MapThenFoldSet, op
<1> HIDE DEF c, Solves
<1>10. PICK f \in [0 .. n -> A] : Steps(f, n, Nothing, c[1 .. n], step)
  BY <1>1, <1>2, <1>3, <1>8, Unfolding, Zenon
<1>11. \A i \in 1 .. n : f[i] = op(f[i - 1], items[i])
  <2>1. \A i \in 1 .. n : f[i - 1] \in A
    BY <1>1
  <2> QED
    BY <2>1, <1>3, <1>10 DEF Steps
<1> QED
  BY <1>1, <1>9, <1>10, <1>11, Zenon DEF n, A, op, Steps, Admits

\* The second.
Merges(f, items) ==
  /\ f[0] = Nothing
  /\ f[Len(items)] = Merged(items)
  /\ \A i \in 1 .. Len(items) : f[i] = Merge(f[i - 1], items[i])

\* So does the second ...
LEMMA MergeSteps ==
  ASSUME NEW items \in Seq(Item)
  PROVE  \E f \in [0 .. Len(items) -> Pass] : Merges(f, items)
<1> DEFINE n == Len(items)
           A == Pass
           op(acc, item) == Merge(acc, item)
           step == [p \in A \X (1 .. n) |-> op(p[1], items[p[2]])]
           Solves(iter) ==
             iter = [s \in SUBSET (DOMAIN items) |->
                       IF s = {} THEN Nothing
                       ELSE op(iter[s \ {Max(s)}], items[Max(s)])]
           c == CHOOSE iter : Solves(iter)
<1>1. n \in Nat /\ DOMAIN items = 1 .. n /\ \A i \in 1 .. n : items[i] \in Item
  OBVIOUS
<1>2. Nothing \in A /\ \A acc \in A : \A item \in Item : op(acc, item) \in A
  BY NothingIs, MergeIs DEF A, op
<1>3. /\ step \in [A \X (1 .. n) -> A]
      /\ \A acc \in A : \A i \in 1 .. n : step[<<acc, i>>] = op(acc, items[i])
  <2> HIDE DEF A, op, n
  <2> QED
    BY <1>1, <1>2
<1> HIDE DEF A, op, n, step
<1>4. PICK iter \in [SUBSET (1 .. n) -> A] : Iterates(iter, n, Nothing, step)
  BY <1>1, <1>2, <1>3, Iterating, Zenon
<1>5. ASSUME NEW s \in SUBSET (1 .. n), s # {}
      PROVE  Max(s) \in 1 .. n
  BY <1>1, <1>5, Peak
<1>6. Solves(iter)
  <2>1. ASSUME NEW s \in SUBSET (1 .. n)
        PROVE  iter[s] = IF s = {} THEN Nothing
                         ELSE op(iter[s \ {Max(s)}], items[Max(s)])
    <3>1. iter[s] = IF s = {} THEN Nothing ELSE step[<<iter[s \ {Max(s)}], Max(s)>>]
      BY <1>4, Zenon DEF Iterates
    <3> QED
      BY <3>1, <1>3, <1>5
  <2> QED
    BY <2>1, <1>1
<1>7. Solves(c)
  BY <1>6, Zenon
<1>8. Follows(c, n, A, Nothing, step)
  <2>1. ASSUME NEW s \in SUBSET (1 .. n)
        PROVE  c[s] = IF s = {} THEN Nothing ELSE op(c[s \ {Max(s)}], items[Max(s)])
    <3>1. c = [t \in SUBSET (1 .. n) |->
                 IF t = {} THEN Nothing ELSE op(c[t \ {Max(t)}], items[Max(t)])]
      BY <1>7, <1>1
    <3> HIDE DEF c
    <3> QED
      BY <3>1
  <2> HIDE DEF c, Solves
  <2>2. c[{}] = Nothing
    BY <2>1
  <2> QED
    BY <2>1, <2>2, <1>3, <1>5 DEF Follows
<1>9. Merged(items) = c[DOMAIN items]
  BY DEF Merged, FoldLeft, MapThenFoldSet, op
<1> HIDE DEF c, Solves
<1>10. PICK f \in [0 .. n -> A] : Steps(f, n, Nothing, c[1 .. n], step)
  BY <1>1, <1>2, <1>3, <1>8, Unfolding, Zenon
<1>11. \A i \in 1 .. n : f[i] = op(f[i - 1], items[i])
  <2>1. \A i \in 1 .. n : f[i - 1] \in A
    BY <1>1
  <2> QED
    BY <2>1, <1>3, <1>10 DEF Steps
<1> QED
  BY <1>1, <1>9, <1>10, <1>11, Zenon DEF n, A, op, Steps, Merges

\* The third, which is given the ranking.
Affords(f, items, limit) ==
  /\ f[0] = Nothing
  /\ f[Len(Ranked(items))] = Budgeted(items, limit)
  /\ \A i \in 1 .. Len(Ranked(items)) : f[i] = Afford(f[i - 1], Ranked(items)[i], limit)

\* ... and the third, through their ranking.
LEMMA AffordSteps ==
  ASSUME NEW items, NEW limit, Ranked(items) \in Seq(Item)
  PROVE  \E f \in [0 .. Len(Ranked(items)) -> Pass] : Affords(f, items, limit)
<1> DEFINE n == Len(Ranked(items))
           A == Pass
           op(acc, item) == Afford(acc, item, limit)
           step == [p \in A \X (1 .. n) |-> op(p[1], Ranked(items)[p[2]])]
           Solves(iter) ==
             iter = [s \in SUBSET (DOMAIN Ranked(items)) |->
                       IF s = {} THEN Nothing
                       ELSE op(iter[s \ {Max(s)}], Ranked(items)[Max(s)])]
           c == CHOOSE iter : Solves(iter)
<1>1. n \in Nat /\ DOMAIN Ranked(items) = 1 .. n /\ \A i \in 1 .. n : Ranked(items)[i] \in Item
  OBVIOUS
<1>2. Nothing \in A /\ \A acc \in A : \A item \in Item : op(acc, item) \in A
  BY NothingIs, AffordIs DEF A, op
<1>3. /\ step \in [A \X (1 .. n) -> A]
      /\ \A acc \in A : \A i \in 1 .. n : step[<<acc, i>>] = op(acc, Ranked(items)[i])
  <2> HIDE DEF A, op, n
  <2> QED
    BY <1>1, <1>2
<1> HIDE DEF A, op, n, step
<1>4. PICK iter \in [SUBSET (1 .. n) -> A] : Iterates(iter, n, Nothing, step)
  BY <1>1, <1>2, <1>3, Iterating, Zenon
<1>5. ASSUME NEW s \in SUBSET (1 .. n), s # {}
      PROVE  Max(s) \in 1 .. n
  BY <1>1, <1>5, Peak
<1>6. Solves(iter)
  <2>1. ASSUME NEW s \in SUBSET (1 .. n)
        PROVE  iter[s] = IF s = {} THEN Nothing
                         ELSE op(iter[s \ {Max(s)}], Ranked(items)[Max(s)])
    <3>1. iter[s] = IF s = {} THEN Nothing ELSE step[<<iter[s \ {Max(s)}], Max(s)>>]
      BY <1>4, Zenon DEF Iterates
    <3> QED
      BY <3>1, <1>3, <1>5
  <2> QED
    BY <2>1, <1>1
<1>7. Solves(c)
  BY <1>6, Zenon
<1>8. Follows(c, n, A, Nothing, step)
  <2>1. ASSUME NEW s \in SUBSET (1 .. n)
        PROVE  c[s] = IF s = {} THEN Nothing ELSE op(c[s \ {Max(s)}], Ranked(items)[Max(s)])
    <3>1. c = [t \in SUBSET (1 .. n) |->
                 IF t = {} THEN Nothing ELSE op(c[t \ {Max(t)}], Ranked(items)[Max(t)])]
      BY <1>7, <1>1
    <3> HIDE DEF c
    <3> QED
      BY <3>1
  <2> HIDE DEF c, Solves
  <2>2. c[{}] = Nothing
    BY <2>1
  <2> QED
    BY <2>1, <2>2, <1>3, <1>5 DEF Follows
<1>9. Budgeted(items, limit) = c[DOMAIN Ranked(items)]
  BY DEF Budgeted, FoldLeft, MapThenFoldSet, op
<1> HIDE DEF c, Solves
<1>10. PICK f \in [0 .. n -> A] : Steps(f, n, Nothing, c[1 .. n], step)
  BY <1>1, <1>2, <1>3, <1>8, Unfolding, Zenon
<1>11. \A i \in 1 .. n : f[i] = op(f[i - 1], Ranked(items)[i])
  <2>1. \A i \in 1 .. n : f[i - 1] \in A
    BY <1>1
  <2> QED
    BY <2>1, <1>3, <1>10 DEF Steps
<1> QED
  BY <1>1, <1>9, <1>10, <1>11, Zenon DEF n, A, op, Steps, Affords

----
(* The ranking.                                                            *)

\* No two items are of one entity.
Distinct(items) ==
  \A i, j \in 1 .. Len(items) : items[i].e = items[j].e => i = j

\* Every item is before those that follow it.
Descending(items) ==
  \A i, j \in 1 .. Len(items) : i < j => Before(items[i], items[j])

\* Before is irreflexive and asymmetric, and of items of two entities one is
\* before the other.
LEMMA BeforeIs ==
  ASSUME NEW x \in Item, NEW y \in Item
  PROVE  /\ ~Before(x, x)
         /\ Before(x, y) => ~Before(y, x)
         /\ x.e # y.e => Before(x, y) \/ Before(y, x)
<1>1. /\ x.e \in Entities /\ y.e \in Entities /\ x.score \in Nat /\ y.score \in Nat
  BY DEF Item
<1>2. About[x.e].order \in Nat /\ About[y.e].order \in Nat
  BY <1>1, DocumentsAssumption DEF Document
<1>3. About[x.e].order = About[y.e].order => x.e = y.e
  BY <1>1, DocumentsAssumption
<1> QED
  BY <1>1, <1>2, <1>3 DEF Before

\* And it is transitive.
LEMMA BeforeGoesOn ==
  ASSUME NEW x \in Item, NEW y \in Item, NEW z \in Item, Before(x, y), Before(y, z)
  PROVE  Before(x, z)
<1>1. x.score \in Nat /\ y.score \in Nat /\ z.score \in Nat
  BY DEF Item
<1>2. /\ About[x.e].order \in Nat /\ About[y.e].order \in Nat /\ About[z.e].order \in Nat
  BY DocumentsAssumption DEF Document, Item
<1> QED
  BY <1>1, <1>2 DEF Before

\* A descending sequence has one place for another item.
LEMMA Cutting ==
  ASSUME NEW n \in Nat, NEW r \in [1 .. n -> Item], NEW x \in Item,
         \A i, j \in 1 .. n : i < j => Before(r[i], r[j]),
         \A i \in 1 .. n : r[i].e # x.e
  PROVE  \E p \in 0 .. n : /\ \A i \in 1 .. p : Before(r[i], x)
                           /\ \A i \in p + 1 .. n : Before(x, r[i])
<1> DEFINE Cut(p, k) == /\ \A i \in 1 .. p : Before(r[i], x)
                        /\ \A i \in p + 1 .. k : Before(x, r[i])
           F == {k \in 0 .. n : \E p \in 0 .. k : Cut(p, k)}
<1>1. 0 \in F
  <2>1. Cut(0, 0) /\ 0 \in 0 .. 0 /\ 0 \in 0 .. n
    OBVIOUS
  <2> HIDE DEF Cut
  <2> QED
    BY <2>1
<1>2. ASSUME NEW j \in 0 .. n - 1, j \in F
      PROVE  j + 1 \in F
  <2> PICK k \in 1 .. n : k = j + 1
    OBVIOUS
  <2>1. PICK p \in 0 .. j : Cut(p, j)
    BY <1>2
  <2>2. k \in 0 .. n /\ r[k] \in Item /\ p \in 0 .. k /\ k \in 0 .. k /\ j \in Nat
    OBVIOUS
  <2>3. CASE p < j
    <3>1. j \in p + 1 .. j /\ j \in 1 .. n /\ r[j] \in Item /\ j < k
      BY <2>3
    <3>2. Before(x, r[j]) /\ Before(r[j], r[k])
      BY <2>1, <3>1
    <3>3. Before(x, r[k])
      BY <3>1, <3>2, <2>2, BeforeGoesOn
    <3>4. \A i \in p + 1 .. k : i \in p + 1 .. j \/ i = k
      OBVIOUS
    <3>5. Cut(p, k)
      BY <2>1, <3>3, <3>4
    <3> HIDE DEF Cut
    <3> QED
      BY <2>2, <3>5
  <2>4. CASE p = j /\ Before(r[k], x)
    <3>1. \A i \in 1 .. k : i \in 1 .. p \/ i = k
      BY <2>4
    <3>2. Cut(k, k)
      BY <2>1, <2>4, <3>1
    <3> HIDE DEF Cut
    <3> QED
      BY <2>2, <3>2
  <2>5. CASE p = j /\ Before(x, r[k])
    <3>1. \A i \in p + 1 .. k : i = k
      BY <2>5
    <3>2. Cut(p, k)
      BY <2>1, <2>5, <3>1
    <3> HIDE DEF Cut
    <3> QED
      BY <2>2, <3>2
  <2>6. Before(r[k], x) \/ Before(x, r[k])
    BY <2>2, BeforeIs
  <2>7. p < j \/ p = j
    BY <2>2
  <2> QED
    BY <2>3, <2>4, <2>5, <2>6, <2>7
<1>3. n \in F
  <2> HIDE DEF F
  <2>1. \A k \in 0 .. n : k \in F
    BY <1>1, <1>2, Counting
  <2> QED
    BY <2>1
<1>4. PICK p \in 0 .. n : Cut(p, n)
  BY <1>3
<1> QED
  BY <1>4

\* Items of different entities can be put in that order.
LEMMA Rankable ==
  ASSUME NEW items \in Seq(Item), Distinct(items)
  PROVE  \E r \in [1 .. Len(items) -> Range(items)] :
           /\ Range(r) = Range(items)
           /\ \A i, j \in 1 .. Len(items) : i < j => Before(r[i], r[j])
<1> DEFINE n == Len(items)
           Ranks(r, k) == /\ \A x : (\E i \in 1 .. k : r[i] = x) <=> \E i \in 1 .. k : items[i] = x
                          /\ \A i, j \in 1 .. k : i < j => Before(r[i], r[j])
           F == {k \in 0 .. n : \E r \in [1 .. k -> Item] : Ranks(r, k)}
<1>1. n \in Nat /\ \A i \in 1 .. n : items[i] \in Item
  OBVIOUS
<1>2. 0 \in F
  <2> DEFINE r == [i \in 1 .. 0 |-> items[1]]
  <2>1. r \in [1 .. 0 -> Item] /\ Ranks(r, 0) /\ 0 \in 0 .. n
    BY <1>1
  <2> HIDE DEF r, Ranks
  <2> QED
    BY <2>1
<1>3. ASSUME NEW j \in 0 .. n - 1, j \in F
      PROVE  j + 1 \in F
  <2> PICK k \in 1 .. n : k = j + 1
    BY <1>1
  <2>1. PICK r \in [1 .. j -> Item] : Ranks(r, j)
    BY <1>3
  <2>2. /\ k \in 0 .. n /\ j \in Nat /\ \A i \in 1 .. k : i \in 1 .. j \/ i = k
        /\ k \in 1 .. k /\ \A i \in 1 .. j : i \in 1 .. k /\ i # k /\ i \in 1 .. n
    BY <1>1
  <2> DEFINE x == items[k]
  <2>3. x \in Item
    BY <1>1
  <2>4. \A i \in 1 .. j : r[i].e # x.e
    <3> SUFFICES ASSUME NEW i \in 1 .. j, r[i].e = x.e
                 PROVE  FALSE
      OBVIOUS
    <3>1. PICK m \in 1 .. j : items[m] = r[i]
      BY <2>1
    <3>2. m \in 1 .. n /\ m # k /\ items[m].e = items[k].e
      BY <3>1, <2>2
    <3> QED
      BY <3>2 DEF Distinct
  <2> HIDE DEF x
  <2>5. PICK p \in 0 .. j : /\ \A i \in 1 .. p : Before(r[i], x)
                            /\ \A i \in p + 1 .. j : Before(x, r[i])
    <3>1. \A a, b \in 1 .. j : a < b => Before(r[a], r[b])
      BY <2>1
    <3> QED
      BY <2>2, <2>3, <2>4, <3>1, Cutting
  <2> DEFINE s == [i \in 1 .. k |-> IF i <= p THEN r[i] ELSE IF i = p + 1 THEN x ELSE r[i - 1]]
  <2>6. \A i \in 1 .. k : \/ i \in 1 .. p /\ i \in 1 .. j
                          \/ i = p + 1
                          \/ i - 1 \in p + 1 .. j /\ i - 1 \in 1 .. j /\ i > p + 1
    BY <2>2
  <2>7. s \in [1 .. k -> Item]
    BY <2>6, <2>3
  <2>8. ASSUME NEW a \in 1 .. k, NEW b \in 1 .. k, a < b
        PROVE  Before(s[a], s[b])
    <3>1. /\ s[a] = IF a <= p THEN r[a] ELSE IF a = p + 1 THEN x ELSE r[a - 1]
          /\ s[b] = IF b <= p THEN r[b] ELSE IF b = p + 1 THEN x ELSE r[b - 1]
      OBVIOUS
    <3>2. \A c, d \in 1 .. j : c < d => Before(r[c], r[d])
      BY <2>1
    <3> HIDE DEF s, Ranks
    <3>3. CASE b <= p
      BY <3>1, <3>2, <3>3, <2>2, <2>8
    <3>4. CASE b = p + 1
      <4>1. a \in 1 .. p /\ s[a] = r[a] /\ s[b] = x
        BY <3>1, <3>4, <2>8
      <4> QED
        BY <4>1, <2>5
    <3>5. CASE b > p + 1
      <4>1. b - 1 \in p + 1 .. j /\ b - 1 \in 1 .. j /\ s[b] = r[b - 1]
        BY <3>1, <3>5, <2>2
      <4>2. CASE a <= p
        <5>1. s[a] = r[a] /\ a \in 1 .. j /\ a < b - 1
          BY <3>1, <3>5, <4>2, <2>2
        <5> QED
          BY <5>1, <4>1, <3>2
      <4>3. CASE a = p + 1
        <5>1. s[a] = x
          BY <3>1, <4>3
        <5> QED
          BY <5>1, <4>1, <2>5
      <4>4. CASE a > p + 1
        <5>1. s[a] = r[a - 1] /\ a - 1 \in 1 .. j /\ a - 1 < b - 1
          BY <3>1, <4>4, <2>2, <2>8
        <5> QED
          BY <5>1, <4>1, <3>2
      <4> QED
        BY <4>2, <4>3, <4>4
    <3> QED
      BY <3>3, <3>4, <3>5
  <2>9. ASSUME NEW y
        PROVE  (\E i \in 1 .. k : s[i] = y) <=> \E i \in 1 .. k : items[i] = y
    <3>1. (\E i \in 1 .. k : s[i] = y) <=> y = x \/ \E i \in 1 .. j : r[i] = y
      <4>1. ASSUME NEW i \in 1 .. k, s[i] = y
            PROVE  y = x \/ \E m \in 1 .. j : r[m] = y
        BY <4>1, <2>6
      <4>2. ASSUME y = x
            PROVE  \E i \in 1 .. k : s[i] = y
        <5>1. p + 1 \in 1 .. k /\ ~(p + 1 <= p)
          BY <2>2
        <5>2. s[p + 1] = x
          BY <5>1
        <5> QED
          BY <4>2, <5>1, <5>2
      <4>3. ASSUME NEW i \in 1 .. j, r[i] = y
            PROVE  \E m \in 1 .. k : s[m] = y
        <5>1. CASE i <= p
          <6>1. i \in 1 .. k /\ s[i] = r[i]
            BY <5>1, <2>2
          <6> QED
            BY <6>1, <4>3
        <5>2. CASE i > p
          <6>1. i + 1 \in 1 .. k /\ ~(i + 1 <= p) /\ i + 1 # p + 1 /\ (i + 1) - 1 = i
            BY <5>2, <2>2
          <6>2. s[i + 1] = r[i]
            BY <6>1
          <6> HIDE DEF s
          <6> QED
            BY <6>1, <6>2, <4>3
        <5> QED
          BY <5>1, <5>2
      <4> QED
        BY <4>1, <4>2, <4>3
    <3>2. (\E i \in 1 .. j : r[i] = y) <=> \E i \in 1 .. j : items[i] = y
      BY <2>1
    <3>3. (\E i \in 1 .. k : items[i] = y) <=> y = x \/ \E i \in 1 .. j : items[i] = y
      BY <2>2 DEF x
    <3> HIDE DEF s, Ranks
    <3> QED
      BY <3>1, <3>2, <3>3
  <2>10. Ranks(s, k)
    <3> HIDE DEF s
    <3> QED
      BY <2>8, <2>9
  <2> HIDE DEF s, Ranks
  <2> QED
    BY <2>2, <2>7, <2>10
<1>4. n \in F
  <2> HIDE DEF F
  <2>1. \A i \in 0 .. n : i \in F
    BY <1>1, <1>2, <1>3, Counting
  <2> QED
    BY <2>1, <1>1
<1>5. PICK r \in [1 .. n -> Item] : Ranks(r, n)
  BY <1>4
<1>6. Range(r) = Range(items)
  <2>1. \A x : x \in Range(r) <=> \E i \in 1 .. n : r[i] = x
    BY DEF Range
  <2> QED
    BY <2>1, <1>5, InRange
<1>7. r \in [1 .. n -> Range(items)]
  <2>1. \A i \in 1 .. n : r[i] \in Range(r)
    BY DEF Range
  <2> QED
    BY <2>1, <1>6
<1> QED
  BY <1>5, <1>6, <1>7

\* So there is a ranking of items of different entities: the same items, each
\* before those that follow it.
LEMMA RankedIs ==
  ASSUME NEW items \in Seq(Item), Distinct(items)
  PROVE  /\ Ranked(items) \in Seq(Item) /\ Len(Ranked(items)) = Len(items)
         /\ Range(Ranked(items)) = Range(items)
         /\ Descending(Ranked(items))
<1> DEFINE r == Ranked(items)
           Ranks(s) == /\ Range(s) = Range(items)
                       /\ \A i, j \in 1 .. Len(items) : i < j => Before(s[i], s[j])
<1>1. \E s \in [1 .. Len(items) -> Range(items)] : Ranks(s)
  BY Rankable
<1>2. r = CHOOSE s \in [1 .. Len(items) -> Range(items)] : Ranks(s)
  BY DEF Ranked
<1> HIDE DEF r, Ranks
<1>3. r \in [1 .. Len(items) -> Range(items)] /\ Ranks(r)
  BY <1>1, <1>2, Zenon
<1>4. Range(items) \subseteq Item /\ Len(items) \in Nat
  BY InRange
<1>5. r \in Seq(Item) /\ Len(r) = Len(items)
  BY <1>3, <1>4
<1> QED
  BY <1>3, <1>5 DEF r, Ranks, Descending

\* There is one such order.
LEMMA RankedOnce ==
  ASSUME NEW r \in Seq(Item), NEW s \in Seq(Item), Len(r) = Len(s), Range(r) = Range(s),
         Descending(r), Descending(s)
  PROVE  r = s
<1> DEFINE n == Len(r)
           F == {k \in 0 .. n : \A i \in 1 .. k : r[i] = s[i]}
<1>1. n \in Nat /\ \A i \in 1 .. n : r[i] \in Item /\ s[i] \in Item
  OBVIOUS
<1>2. 0 \in F
  BY <1>1
<1>3. ASSUME NEW j \in 0 .. n - 1, j \in F
      PROVE  j + 1 \in F
  <2> PICK k \in 1 .. n : k = j + 1
    BY <1>1
  <2>1. \A i \in 1 .. n : i < k => r[i] = s[i]
    BY <1>3, <1>1
  <2>2. PICK m \in 1 .. n : s[m] = r[k]
    <3>1. r[k] \in Range(s)
      BY InRange
    <3> QED
      BY <3>1, InRange
  <2>3. PICK l \in 1 .. n : r[l] = s[k]
    <3>1. s[k] \in Range(r)
      BY InRange
    <3> QED
      BY <3>1, InRange
  <2>4. ~(m < k)
    <3> SUFFICES ASSUME m < k
                 PROVE  FALSE
      OBVIOUS
    <3>1. r[m] = r[k] /\ Before(r[m], r[k])
      BY <2>1, <2>2 DEF Descending
    <3> QED
      BY <3>1, <1>1, BeforeIs
  <2>5. ~(l < k)
    <3> SUFFICES ASSUME l < k
                 PROVE  FALSE
      OBVIOUS
    <3>1. s[l] = s[k] /\ Before(s[l], s[k])
      BY <2>1, <2>3 DEF Descending
    <3> QED
      BY <3>1, <1>1, BeforeIs
  <2>6. r[k] = s[k]
    <3> SUFFICES ASSUME r[k] # s[k]
                 PROVE  FALSE
      OBVIOUS
    <3>1. k < m /\ k < l
      BY <2>2, <2>3, <2>4, <2>5
    <3>2. Before(s[k], s[m]) /\ Before(r[k], r[l])
      BY <3>1 DEF Descending
    <3> QED
      BY <3>2, <2>2, <2>3, <1>1, BeforeIs
  <2>7. \A i \in 1 .. k : i \in 1 .. j \/ i = k
    OBVIOUS
  <2> QED
    BY <2>6, <2>7, <1>3, <1>1
<1>4. n \in F
  <2> HIDE DEF F
  <2>1. \A i \in 0 .. n : i \in F
    BY <1>1, <1>2, <1>3, Counting
  <2> QED
    BY <2>1, <1>1
<1> QED
  BY <1>4

----
(* The first pass leaves out doubles and what is obsolete.                 *)

\* The items of an answer that are the first of their entity and may be told.
Admitted(items, all) ==
  {i \in 1 .. Len(items) : /\ \A j \in 1 .. i - 1 : items[j].e # items[i].e
                           /\ all \/ ~Obsolete(items[i].e)}

\* One is in an answer before any item of the entity of the other.
Earlier(items, x, y) ==
  \E m \in 1 .. Len(items) : items[m] = x /\ \A n \in 1 .. m : items[n].e # y.e

\* What has been kept after i items.
AdmittedSoFar(items, all, acc, i) ==
  /\ \A x : x \in Range(acc.kept) <=>
              \E m \in 1 .. i : m \in Admitted(items, all) /\ items[m] = x
  /\ \A j \in 1 .. i : all \/ ~Obsolete(items[j].e) =>
       \E k \in Range(acc.kept) : k.e = items[j].e
  /\ \A a, b \in 1 .. Len(acc.kept) : a < b => Earlier(items, acc.kept[a], acc.kept[b])
  /\ Len(acc.kept) + Len(acc.out) = i

\* The next item is admitted when it is the first of its entity and not obsolete.
LEMMA AdmitGoesOn ==
  ASSUME NEW items \in Seq(Item), NEW all, NEW acc \in Pass, NEW i \in 1 .. Len(items),
         AdmittedSoFar(items, all, acc, i - 1)
  PROVE  AdmittedSoFar(items, all, Admit(acc, items[i], all), i)
<1> DEFINE x == items[i]
           new == Admit(acc, x, all)
           kept == acc.kept
<1>1. /\ x \in Item /\ kept \in Seq(Item) /\ acc.out \in Seq(Left) /\ i \in Nat
      /\ \A m \in 1 .. i - 1 : m \in 1 .. Len(items)
  BY DEF Pass
<1>2. \A m : m \in 1 .. i <=> m \in 1 .. i - 1 \/ m = i
  BY <1>1
<1>3. /\ \A y : y \in Range(kept) <=>
                  \E m \in 1 .. i - 1 : m \in Admitted(items, all) /\ items[m] = y
      /\ \A j \in 1 .. i - 1 : all \/ ~Obsolete(items[j].e) =>
           \E k \in Range(kept) : k.e = items[j].e
      /\ \A a, b \in 1 .. Len(kept) : a < b => Earlier(items, kept[a], kept[b])
      /\ Len(kept) + Len(acc.out) = i - 1
  BY DEF AdmittedSoFar
<1> HIDE DEF new, kept, x
<1>4. ASSUME new.kept = kept, Len(new.out) = Len(acc.out) + 1, i \notin Admitted(items, all),
             all \/ ~Obsolete(x.e) => \E k \in Range(kept) : k.e = x.e
      PROVE  AdmittedSoFar(items, all, new, i)
  <2>1. \A y : y \in Range(new.kept) <=>
                 \E m \in 1 .. i : m \in Admitted(items, all) /\ items[m] = y
    BY <1>2, <1>3, <1>4
  <2>2. \A j \in 1 .. i : all \/ ~Obsolete(items[j].e) =>
          \E k \in Range(new.kept) : k.e = items[j].e
    BY <1>2, <1>3, <1>4 DEF x
  <2>3. Len(new.kept) + Len(new.out) = i
    <3>1. Len(kept) \in Nat /\ Len(acc.out) \in Nat
      BY <1>1
    <3> QED
      BY <3>1, <1>1, <1>3, <1>4
  <2>4. \A a, b \in 1 .. Len(new.kept) :
          a < b => Earlier(items, new.kept[a], new.kept[b])
    BY <1>3, <1>4
  <2> QED
    BY <2>1, <2>2, <2>3, <2>4, Zenon DEF AdmittedSoFar
<1>5. CASE \E k \in Range(kept) : k.e = x.e
  <2>1. new = Leave(acc, x, "duplicate")
    BY <1>5 DEF Admit, new, kept
  <2>2. new.kept = kept /\ Len(new.out) = Len(acc.out) + 1
    BY <2>1, <1>1, LeaveIs DEF Reasons, kept
  <2>3. PICK m \in 1 .. i - 1 : items[m].e = items[i].e
    BY <1>3, <1>5 DEF x
  <2>4. i \notin Admitted(items, all)
    BY <2>3 DEF Admitted
  <2> QED
    BY <1>4, <1>5, <2>2, <2>4 DEF new, x
<1>6. CASE (~ \E k \in Range(kept) : k.e = x.e) /\ ~all /\ Obsolete(x.e)
  <2>1. new = Leave(acc, x, "status_excluded")
    BY <1>6 DEF Admit, new, kept
  <2>2. new.kept = kept /\ Len(new.out) = Len(acc.out) + 1
    BY <2>1, <1>1, LeaveIs DEF Reasons, kept
  <2>3. i \notin Admitted(items, all)
    BY <1>6 DEF Admitted, x
  <2> QED
    BY <1>4, <1>6, <2>2, <2>3 DEF new, x
<1>7. CASE (~ \E k \in Range(kept) : k.e = x.e) /\ (all \/ ~Obsolete(x.e))
  <2>1. new = Keep(acc, x)
    BY <1>7 DEF Admit, new, kept
  <2>2. new.kept = Append(kept, x) /\ new.out = acc.out
    BY <2>1, <1>1, KeepIs DEF kept
  <2>3. /\ Len(new.kept) = Len(kept) + 1
        /\ \A a \in 1 .. Len(kept) : new.kept[a] = kept[a]
        /\ new.kept[Len(kept) + 1] = x
        /\ Range(new.kept) = Range(kept) \cup {x}
    <3>1. /\ Len(Append(kept, x)) = Len(kept) + 1
          /\ \A a \in 1 .. Len(kept) : Append(kept, x)[a] = kept[a]
          /\ Append(kept, x)[Len(kept) + 1] = x
          /\ Range(Append(kept, x)) = Range(kept) \cup {x}
      BY <1>1, RangeAppend
    <3> QED
      BY <3>1, <2>2, Zenon
  <2>4. \A m \in 1 .. i - 1 : items[m].e # x.e
    BY <1>3, <1>7
  <2>5. i \in Admitted(items, all)
    BY <2>4, <1>7 DEF Admitted, x
  <2>6. \A y : y \in Range(new.kept) <=>
                 \E m \in 1 .. i : m \in Admitted(items, all) /\ items[m] = y
    BY <1>2, <1>3, <2>3, <2>5 DEF x
  <2>7. \A j \in 1 .. i : all \/ ~Obsolete(items[j].e) =>
          \E k \in Range(new.kept) : k.e = items[j].e
    BY <1>2, <1>3, <2>3 DEF x
  <2>8. ASSUME NEW a \in 1 .. Len(new.kept), NEW b \in 1 .. Len(new.kept), a < b
        PROVE  Earlier(items, new.kept[a], new.kept[b])
    <3>1. Len(kept) \in Nat /\ a \in 1 .. Len(kept) /\ new.kept[a] = kept[a]
      BY <1>1, <2>3, <2>8
    <3>2. CASE b \in 1 .. Len(kept)
      BY <3>1, <3>2, <1>3, <2>3, <2>8
    <3>3. CASE b = Len(kept) + 1
      <4>1. kept[a] \in Range(kept)
        BY <3>1, <1>1, InRange
      <4>2. PICK m \in 1 .. i - 1 : items[m] = kept[a]
        BY <4>1, <1>3
      <4>3. m \in 1 .. Len(items) /\ \A n \in 1 .. m : n \in 1 .. i - 1
        BY <1>1
      <4> QED
        BY <3>1, <3>3, <4>2, <4>3, <2>3, <2>4 DEF Earlier
    <3> QED
      BY <3>1, <3>2, <3>3, <2>3
  <2>9. Len(new.kept) + Len(new.out) = i
    <3>1. Len(kept) \in Nat /\ Len(acc.out) \in Nat
      BY <1>1
    <3>2. Len(new.kept) = Len(kept) + 1 /\ Len(new.out) = Len(acc.out)
      BY <2>2, <2>3, Zenon
    <3>3. Len(kept) + Len(acc.out) = i - 1
      BY <1>3, Zenon
    <3>4. \A p, q \in Nat : p + q = i - 1 => (p + 1) + q = i
      BY <1>1
    <3> QED
      BY <3>1, <3>2, <3>3, <3>4, Zenon
  <2> QED
    BY <2>6, <2>7, <2>8, <2>9, Zenon DEF AdmittedSoFar, new, x
<1> QED
  BY <1>5, <1>6, <1>7 DEF new, x

\* What the first pass keeps.
LEMMA DeduplicatedIs ==
  ASSUME NEW items \in Seq(Item), NEW all
  PROVE  /\ Deduplicated(items, all) \in Pass
         /\ AdmittedSoFar(items, all, Deduplicated(items, all), Len(items))
         /\ Distinct(Deduplicated(items, all).kept)
<1> DEFINE n == Len(items)
<1>1. PICK f \in [0 .. n -> Pass] : Admits(f, items, all)
  BY AdmitSteps, Zenon
<1>2. n \in Nat /\ f[0] = Nothing /\ f[n] = Deduplicated(items, all)
      /\ \A i \in 1 .. n : f[i] = Admit(f[i - 1], items[i], all)
  BY <1>1 DEF Admits
<1> DEFINE F == {i \in 0 .. n : AdmittedSoFar(items, all, f[i], i)}
<1>3. 0 \in F
  <2>1. f[0].kept = << >> /\ f[0].out = << >> /\ Range(<< >>) = {} /\ Len(<< >>) = 0
    BY <1>2, NothingIs DEF Range
  <2>2. AdmittedSoFar(items, all, f[0], 0)
    BY <2>1 DEF AdmittedSoFar
  <2> QED
    BY <1>2, <2>2
<1>4. ASSUME NEW j \in 0 .. n - 1, j \in F
      PROVE  j + 1 \in F
  <2> PICK i \in 1 .. n : i = j + 1 /\ i - 1 = j
    BY <1>2
  <2>1. i \in 0 .. n /\ f[j] \in Pass /\ AdmittedSoFar(items, all, f[j], i - 1)
    BY <1>4
  <2>2. AdmittedSoFar(items, all, Admit(f[j], items[i], all), i)
    BY <2>1, AdmitGoesOn
  <2>3. f[i] = Admit(f[j], items[i], all)
    BY <1>2
  <2> QED
    BY <2>1, <2>2, <2>3
<1>5. n \in F
  <2> HIDE DEF F
  <2>1. \A i \in 0 .. n : i \in F
    BY <1>2, <1>3, <1>4, Counting
  <2> QED
    BY <2>1, <1>2
<1> DEFINE d == Deduplicated(items, all)
<1>6. d \in Pass /\ AdmittedSoFar(items, all, d, n)
  BY <1>2, <1>5
<1> HIDE DEF d
<1>7. Distinct(d.kept)
  <2> SUFFICES ASSUME NEW a \in 1 .. Len(d.kept), NEW b \in 1 .. Len(d.kept), a < b
               PROVE  d.kept[a].e # d.kept[b].e
    <3>1. d.kept \in Seq(Item)
      BY <1>6 DEF Pass
    <3> QED
      BY <3>1 DEF Distinct
  <2>1. Earlier(items, d.kept[a], d.kept[b])
    BY <1>6 DEF AdmittedSoFar
  <2> QED
    BY <2>1 DEF Earlier
<1> QED
  BY <1>6, <1>7 DEF d

----
(* The second keeps the best of the canonical items with one title.        *)

\* Rivalry relates the items of one canonical title.
LEMMA RivalIs ==
  /\ \A x, y : Rival(x, y) => Rival(y, x) /\ Rival(x, x)
  /\ \A x, y, z : Rival(x, y) /\ Rival(y, z) => Rival(x, z)
BY DEF Rival

\* An item of a sequence has a score.
LEMMA ScoresAre ==
  ASSUME NEW items \in Seq(Item)
  PROVE  \A i \in 1 .. Len(items) : items[i] \in Item /\ items[i].score \in Nat
<1>1. \A i \in 1 .. Len(items) : items[i] \in Item
  OBVIOUS
<1>2. \A x \in Item : x.score \in Nat
  BY DEF Item
<1> QED
  BY <1>1, <1>2

\* One of two rivals is better, the first of equals.
Beats(items, j, i) ==
  \/ items[j].score > items[i].score
  \/ items[j].score = items[i].score /\ j < i

\* No rival up to i is better.
Best(items, m, i) ==
  \A j \in 1 .. i : j # m /\ Rival(items[m], items[j]) => ~Beats(items, j, m)

\* Of rivals one is the best.
LEMMA OneBest ==
  ASSUME NEW items \in Seq(Item), NEW i \in 0 .. Len(items), NEW m \in 1 .. i, NEW l \in 1 .. i,
         Best(items, m, i), Best(items, l, i), Rival(items[m], items[l])
  PROVE  m = l
<1>1. items[m].score \in Nat /\ items[l].score \in Nat /\ m \in Nat /\ l \in Nat
  <2>1. m \in 1 .. Len(items) /\ l \in 1 .. Len(items)
    OBVIOUS
  <2> QED
    BY <2>1, ScoresAre
<1>2. Rival(items[l], items[m])
  BY RivalIs
<1> SUFFICES ASSUME m # l
             PROVE  FALSE
  OBVIOUS
<1>3. ~Beats(items, l, m) /\ ~Beats(items, m, l)
  BY <1>2 DEF Best
<1> QED
  BY <1>1, <1>3 DEF Beats

\* Who is best, with one item more.
LEMMA BestGoesOn ==
  ASSUME NEW items \in Seq(Item), NEW i \in 1 .. Len(items), NEW l \in 1 .. i - 1
  PROVE  Best(items, l, i) <=>
           /\ Best(items, l, i - 1)
           /\ ~ (Rival(items[l], items[i]) /\ items[i].score > items[l].score)
<1>1. /\ \A j : j \in 1 .. i <=> j \in 1 .. i - 1 \/ j = i
      /\ i # l /\ ~(i < l) /\ items[i].score \in Nat /\ items[l].score \in Nat
  <2>1. l \in 1 .. Len(items)
    OBVIOUS
  <2> QED
    BY <2>1, ScoresAre
<1>2. Beats(items, i, l) <=> items[i].score > items[l].score
  BY <1>1 DEF Beats
<1> QED
  BY <1>1, <1>2 DEF Best

\* The last item is the best if its score is above that of every rival.
LEMMA BestAtLast ==
  ASSUME NEW items \in Seq(Item), NEW i \in 1 .. Len(items)
  PROVE  Best(items, i, i) <=>
           \A j \in 1 .. i - 1 : Rival(items[i], items[j]) => items[i].score > items[j].score
<1>1. /\ \A j \in 1 .. i : j # i => j \in 1 .. i - 1
      /\ \A j \in 1 .. i - 1 : j # i /\ j < i /\ j \in 1 .. i /\ items[j].score \in Nat
      /\ items[i].score \in Nat
  <2>1. \A j \in 1 .. i - 1 : j \in 1 .. Len(items)
    OBVIOUS
  <2> QED
    BY <2>1, ScoresAre
<1>2. \A j \in 1 .. i - 1 : ~Beats(items, j, i) <=> items[i].score > items[j].score
  BY <1>1 DEF Beats
<1> QED
  BY <1>1, <1>2 DEF Best

\* What has been kept after i items.
MergedSoFar(items, acc, i) ==
  /\ \A x : x \in Range(acc.kept) <=> \E m \in 1 .. i : Best(items, m, i) /\ items[m] = x
  /\ \A j \in 1 .. i : Rival(items[j], items[j]) =>
       \E m \in 1 .. i : Best(items, m, i) /\ Rival(items[m], items[j])
  /\ \A a, b \in 1 .. Len(acc.kept) : a < b =>
       \E m, k \in 1 .. i : m < k /\ items[m] = acc.kept[a] /\ items[k] = acc.kept[b]
  /\ Len(acc.kept) + Len(acc.out) = i

\* The next item replaces the best of its rivals or is left out.
LEMMA MergeGoesOn ==
  ASSUME NEW items \in Seq(Item), Distinct(items), NEW acc \in Pass, NEW i \in 1 .. Len(items),
         MergedSoFar(items, acc, i - 1)
  PROVE  MergedSoFar(items, Merge(acc, items[i]), i)
<1> DEFINE x == items[i]
           new == Merge(acc, x)
           kept == acc.kept
<1>1. /\ x \in Item /\ kept \in Seq(Item) /\ acc.out \in Seq(Left) /\ i \in Nat
      /\ \A m \in 1 .. i - 1 : m \in 1 .. Len(items) /\ m \in 1 .. i /\ m < i
      /\ i \in 1 .. i
  BY DEF Pass
<1>2. \A m : m \in 1 .. i <=> m \in 1 .. i - 1 \/ m = i
  BY <1>1
<1>3. /\ \A y : y \in Range(kept) <=>
                  \E m \in 1 .. i - 1 : Best(items, m, i - 1) /\ items[m] = y
      /\ \A j \in 1 .. i - 1 : Rival(items[j], items[j]) =>
           \E m \in 1 .. i - 1 : Best(items, m, i - 1) /\ Rival(items[m], items[j])
      /\ \A a, b \in 1 .. Len(kept) : a < b =>
           \E m, k \in 1 .. i - 1 : m < k /\ items[m] = kept[a] /\ items[k] = kept[b]
      /\ Len(kept) + Len(acc.out) = i - 1
  BY DEF MergedSoFar
<1>4. Len(kept) \in Nat /\ Len(acc.out) \in Nat /\ Len(kept) + Len(acc.out) = i - 1
  <2>1. Len(kept) \in Nat /\ Len(acc.out) \in Nat
    BY <1>1
  <2> QED
    BY <2>1, <1>3, Zenon
<1>5. \A m, k \in 1 .. Len(items) : items[m] = items[k] => m = k
  BY DEF Distinct
<1>6. Rivals(acc, x) = {k \in Range(kept) : Rival(k, x)}
  BY DEF Rivals
<1> HIDE DEF new, kept, x
\* An item put at the end of a part of what was kept.
<1>7. ASSUME NEW part \in Seq(Item), Range(part) \subseteq Range(kept),
             new.kept = Append(part, x),
             \A a, b \in 1 .. Len(part) : a < b =>
               \E m, k \in 1 .. i - 1 : m < k /\ items[m] = part[a] /\ items[k] = part[b]
      PROVE  /\ Range(new.kept) = Range(part) \cup {x}
             /\ Len(new.kept) = Len(part) + 1
             /\ \A a, b \in 1 .. Len(new.kept) : a < b =>
                  \E m, k \in 1 .. i : m < k /\ items[m] = new.kept[a] /\ items[k] = new.kept[b]
  <2>1. /\ Len(new.kept) = Len(part) + 1
        /\ \A a \in 1 .. Len(part) : new.kept[a] = part[a]
        /\ new.kept[Len(part) + 1] = x
        /\ Range(new.kept) = Range(part) \cup {x}
    <3>1. /\ Len(Append(part, x)) = Len(part) + 1
          /\ \A a \in 1 .. Len(part) : Append(part, x)[a] = part[a]
          /\ Append(part, x)[Len(part) + 1] = x
          /\ Range(Append(part, x)) = Range(part) \cup {x}
      BY <1>1, RangeAppend
    <3> QED
      BY <3>1, <1>7, Zenon
  <2>2. ASSUME NEW a \in 1 .. Len(new.kept), NEW b \in 1 .. Len(new.kept), a < b
        PROVE  \E m, k \in 1 .. i : m < k /\ items[m] = new.kept[a] /\ items[k] = new.kept[b]
    <3>1. Len(part) \in Nat /\ a \in 1 .. Len(part) /\ new.kept[a] = part[a]
      BY <2>1, <2>2
    <3>2. CASE b \in 1 .. Len(part)
      <4>1. PICK m, k \in 1 .. i - 1 : m < k /\ items[m] = part[a] /\ items[k] = part[b]
        BY <1>7, <2>2, <3>1, <3>2
      <4> QED
        BY <4>1, <1>1, <2>1, <3>1, <3>2
    <3>3. CASE b = Len(part) + 1
      <4>1. part[a] \in Range(kept)
        BY <3>1, <1>7, InRange
      <4>2. PICK m \in 1 .. i - 1 : items[m] = part[a]
        BY <4>1, <1>3
      <4> QED
        BY <4>2, <1>1, <2>1, <3>1, <3>3 DEF x
    <3> QED
      BY <3>1, <3>2, <3>3, <2>1
  <2> QED
    BY <2>1, <2>2
<1>8. CASE Rivals(acc, x) = {}
  <2>1. new.kept = Append(kept, x) /\ new.out = acc.out
    <3>1. new = Keep(acc, x)
      BY <1>1, <1>8, MergeIs DEF new
    <3> QED
      BY <3>1, <1>1, KeepIs DEF kept
  <2>2. /\ Range(new.kept) = Range(kept) \cup {x}
        /\ Len(new.kept) = Len(kept) + 1
        /\ \A a, b \in 1 .. Len(new.kept) : a < b =>
             \E m, k \in 1 .. i : m < k /\ items[m] = new.kept[a] /\ items[k] = new.kept[b]
    BY <1>1, <1>3, <1>7, <2>1
  <2>3. ASSUME NEW l \in 1 .. i - 1
        PROVE  ~Rival(items[l], x) /\ ~Rival(x, items[l])
    <3> SUFFICES ASSUME Rival(items[l], x)
                 PROVE  FALSE
      BY RivalIs
    <3>1. PICK m \in 1 .. i - 1 : Best(items, m, i - 1) /\ Rival(items[m], items[l])
      BY <1>3, RivalIs
    <3>2. Rival(items[m], x) /\ items[m] \in Range(kept)
      BY <3>1, <1>3, RivalIs
    <3> QED
      BY <3>2, <1>6, <1>8
  <2>4. Best(items, i, i)
    BY <2>3, BestAtLast DEF x
  <2>5. \A l \in 1 .. i - 1 : Best(items, l, i) <=> Best(items, l, i - 1)
    BY <2>3, BestGoesOn DEF x
  <2>6. \A y : y \in Range(new.kept) <=> \E m \in 1 .. i : Best(items, m, i) /\ items[m] = y
    BY <1>2, <1>3, <2>2, <2>4, <2>5 DEF x
  <2>7. \A j \in 1 .. i : Rival(items[j], items[j]) =>
          \E m \in 1 .. i : Best(items, m, i) /\ Rival(items[m], items[j])
    BY <1>2, <1>3, <2>4, <2>5
  <2>8. Len(new.kept) + Len(new.out) = i
    <3>1. Len(new.kept) = Len(kept) + 1 /\ Len(new.out) = Len(acc.out)
      BY <2>1, <2>2, Zenon
    <3>2. \A p, q \in Nat : p + q = i - 1 => (p + 1) + q = i
      BY <1>1
    <3> QED
      BY <3>1, <3>2, <1>4, Zenon
  <2> QED
    BY <2>2, <2>6, <2>7, <2>8, Zenon DEF MergedSoFar, new, x
<1>9. CASE Rivals(acc, x) # {}
  <2>1. PICK old \in Rivals(acc, x) :
          new = IF x.score > old.score THEN Replaced(acc, old, x)
                ELSE Leave(acc, x, "canonical_merged")
    BY <1>1, <1>9, MergeIs DEF new
  <2>2. old \in Range(kept) /\ Rival(old, x)
    BY <1>6
  <2>3. PICK o \in 1 .. i - 1 : Best(items, o, i - 1) /\ items[o] = old
    BY <2>2, <1>3
  <2>4. /\ x.score \in Nat /\ old.score \in Nat
        /\ \A m \in 1 .. i - 1 : items[m].score \in Nat
    BY <1>1, <2>3, ScoresAre DEF x
  <2>5. ASSUME NEW l \in 1 .. i - 1, Best(items, l, i - 1),
               Rival(items[l], x) \/ Rival(x, items[l])
        PROVE  l = o
    <3>1. Rival(items[o], items[l])
      BY <2>2, <2>3, <2>5, RivalIs
    <3>2. i - 1 \in 0 .. Len(items)
      BY <1>1
    <3> QED
      BY <3>1, <3>2, <2>3, <2>5, OneBest
  <2>6. ASSUME NEW l \in 1 .. i - 1, Rival(x, items[l]), l # o
        PROVE  old.score >= items[l].score
    <3>1. Rival(items[o], items[l])
      BY <2>2, <2>3, <2>6, RivalIs
    <3>2. ~Beats(items, l, o)
      BY <3>1, <2>3, <2>6 DEF Best
    <3> QED
      BY <3>2, <2>3, <2>4 DEF Beats
  <2>7. CASE x.score > old.score
    <3>1. new = Replaced(acc, old, x)
      BY <2>1, <2>7
    <3> DEFINE part == Those(kept, Range(kept) \ {old})
    <3>2. new.kept = Append(part, x) /\ Len(new.out) = Len(acc.out) + 1
      BY <3>1, <1>1, <2>2, ReplacedIs DEF kept
    <3>3. /\ part \in Seq(Item) /\ Range(part) = Range(kept) \cap (Range(kept) \ {old})
          /\ \A a, b \in 1 .. Len(part) : a < b =>
               \E c, d \in 1 .. Len(kept) : c < d /\ kept[c] = part[a] /\ kept[d] = part[b]
      <4> DEFINE S == Range(kept) \ {old}
      <4> HIDE DEF S
      <4>1. /\ Those(kept, S) \in Seq(Item) /\ Range(Those(kept, S)) = Range(kept) \cap S
            /\ \A a, b \in 1 .. Len(Those(kept, S)) : a < b =>
                 \E c, d \in 1 .. Len(kept) :
                   c < d /\ kept[c] = Those(kept, S)[a] /\ kept[d] = Those(kept, S)[b]
        BY <1>1, ThoseIs
      <4> QED
        BY <4>1, Zenon DEF S
    <3>4. Len(part) = Len(kept) - 1
      <4>1. \A a, b \in 1 .. Len(kept) : a < b => kept[a] # kept[b]
        <5> SUFFICES ASSUME NEW a \in 1 .. Len(kept), NEW b \in 1 .. Len(kept), a < b
                     PROVE  kept[a] # kept[b]
          OBVIOUS
        <5>1. PICK m, k \in 1 .. i - 1 : m < k /\ items[m] = kept[a] /\ items[k] = kept[b]
          BY <1>3
        <5> QED
          BY <5>1, <1>1, <1>5
      <4>2. \A a, b \in 1 .. Len(kept) : kept[a] = kept[b] => a = b
        BY <4>1, <1>4
      <4>3. PICK p \in 1 .. Len(kept) : kept[p] = old
        BY <2>2, <1>1, InRange
      <4> QED
        BY <4>2, <4>3, <1>1, ThoseBut
    <3> HIDE DEF part
    <3>5. \A a, b \in 1 .. Len(part) : a < b =>
            \E m, k \in 1 .. i - 1 : m < k /\ items[m] = part[a] /\ items[k] = part[b]
      <4> SUFFICES ASSUME NEW a \in 1 .. Len(part), NEW b \in 1 .. Len(part), a < b
                   PROVE  \E m, k \in 1 .. i - 1 :
                            m < k /\ items[m] = part[a] /\ items[k] = part[b]
        OBVIOUS
      <4>1. PICK c, d \in 1 .. Len(kept) : c < d /\ kept[c] = part[a] /\ kept[d] = part[b]
        BY <3>3
      <4>2. PICK m, k \in 1 .. i - 1 : m < k /\ items[m] = kept[c] /\ items[k] = kept[d]
        BY <4>1, <1>3
      <4> QED
        BY <4>1, <4>2
    <3>6. /\ Range(new.kept) = Range(part) \cup {x}
          /\ Len(new.kept) = Len(part) + 1
          /\ \A a, b \in 1 .. Len(new.kept) : a < b =>
               \E m, k \in 1 .. i : m < k /\ items[m] = new.kept[a] /\ items[k] = new.kept[b]
      <4>1. Range(part) \subseteq Range(kept)
        BY <3>3
      <4> QED
        BY <4>1, <1>7, <3>2, <3>3, <3>5
    <3>7. Best(items, i, i)
      <4>1. ASSUME NEW j \in 1 .. i - 1, Rival(items[i], items[j])
            PROVE  items[i].score > items[j].score
        <5>1. j = o \/ old.score >= items[j].score
          BY <2>6, <4>1 DEF x
        <5>2. old.score >= items[j].score
          BY <5>1, <2>3, <2>4
        <5> QED
          BY <5>2, <2>4, <2>7 DEF x
      <4> QED
        BY <4>1, BestAtLast
    <3>8. ASSUME NEW l \in 1 .. i - 1
          PROVE  Best(items, l, i) <=> l # o /\ Best(items, l, i - 1)
      <4>1. CASE l = o
        BY <4>1, <2>2, <2>3, <2>7, BestGoesOn DEF x
      <4>2. CASE l # o
        BY <4>2, <2>5, BestGoesOn DEF x
      <4> QED
        BY <4>1, <4>2
    <3>9. \A y : y \in Range(new.kept) <=> \E m \in 1 .. i : Best(items, m, i) /\ items[m] = y
      <4> TAKE y
      <4>1. y \in Range(new.kept) <=> (y = x \/ (y \in Range(kept) /\ y # old))
        BY <3>3, <3>6
      <4>2. (y \in Range(kept) /\ y # old) <=>
              \E m \in 1 .. i - 1 : m # o /\ Best(items, m, i - 1) /\ items[m] = y
        BY <1>1, <1>3, <1>5, <2>3
      <4> QED
        BY <4>1, <4>2, <3>7, <3>8, <1>2 DEF x
    <3>10. \A j \in 1 .. i : Rival(items[j], items[j]) =>
             \E m \in 1 .. i : Best(items, m, i) /\ Rival(items[m], items[j])
      <4> SUFFICES ASSUME NEW j \in 1 .. i, Rival(items[j], items[j])
                   PROVE  \E m \in 1 .. i : Best(items, m, i) /\ Rival(items[m], items[j])
        OBVIOUS
      <4>1. CASE j = i
        BY <4>1, <3>7
      <4>2. CASE j \in 1 .. i - 1
        <5>1. PICK m \in 1 .. i - 1 : Best(items, m, i - 1) /\ Rival(items[m], items[j])
          BY <4>2, <1>3
        <5>2. CASE m = o
          <6>1. Rival(x, items[j])
            BY <5>1, <5>2, <2>2, <2>3, RivalIs
          <6> QED
            BY <6>1, <3>7, <1>1 DEF x
        <5>3. CASE m # o
          BY <5>1, <5>3, <3>8, <1>1
        <5> QED
          BY <5>2, <5>3
      <4> QED
        BY <4>1, <4>2, <1>2
    <3>11. Len(new.kept) + Len(new.out) = i
      <4>1. \A p, q \in Nat : p + q = i - 1 => ((p - 1) + 1) + (q + 1) = i
        BY <1>1
      <4>2. Len(new.kept) = (Len(kept) - 1) + 1 /\ Len(new.out) = Len(acc.out) + 1
        BY <3>2, <3>4, <3>6, Zenon
      <4> QED
        BY <4>1, <4>2, <1>4, Zenon
    <3> QED
      BY <3>6, <3>9, <3>10, <3>11, Zenon DEF MergedSoFar, new, x
  <2>8. CASE ~ (x.score > old.score)
    <3>1. new = Leave(acc, x, "canonical_merged")
      BY <2>1, <2>8
    <3>2. new.kept = kept /\ Len(new.out) = Len(acc.out) + 1
      BY <3>1, <1>1, LeaveIs DEF Reasons, kept
    <3>3. ~Best(items, i, i)
      <4>1. Rival(items[i], items[o]) /\ ~ (items[i].score > items[o].score)
        BY <2>2, <2>3, <2>8, RivalIs DEF x
      <4> QED
        BY <4>1, BestAtLast
    <3>4. ASSUME NEW l \in 1 .. i - 1
          PROVE  Best(items, l, i) <=> Best(items, l, i - 1)
      <4>1. CASE l = o
        BY <4>1, <2>3, <2>8, BestGoesOn DEF x
      <4>2. CASE l # o
        BY <4>2, <2>5, BestGoesOn DEF x
      <4> QED
        BY <4>1, <4>2
    <3>5. \A y : y \in Range(new.kept) <=> \E m \in 1 .. i : Best(items, m, i) /\ items[m] = y
      BY <1>2, <1>3, <3>2, <3>3, <3>4
    <3>6. \A j \in 1 .. i : Rival(items[j], items[j]) =>
            \E m \in 1 .. i : Best(items, m, i) /\ Rival(items[m], items[j])
      <4>1. Best(items, o, i) /\ o \in 1 .. i /\ Rival(items[o], items[i])
        BY <3>4, <2>2, <2>3, <1>1 DEF x
      <4> QED
        BY <4>1, <1>2, <1>3, <3>4
    <3>7. \A a, b \in 1 .. Len(new.kept) : a < b =>
            \E m, k \in 1 .. i : m < k /\ items[m] = new.kept[a] /\ items[k] = new.kept[b]
      BY <1>1, <1>3, <3>2
    <3>8. Len(new.kept) + Len(new.out) = i
      <4>1. \A p, q \in Nat : p + q = i - 1 => p + (q + 1) = i
        BY <1>1
      <4>2. Len(new.kept) = Len(kept)
        BY <3>2, Zenon
      <4> QED
        BY <4>1, <4>2, <3>2, <1>4, Zenon
    <3> QED
      BY <3>5, <3>6, <3>7, <3>8, Zenon DEF MergedSoFar, new, x
  <2> QED
    BY <2>7, <2>8
<1> QED
  BY <1>8, <1>9

\* What the second pass keeps.
LEMMA MergedIs ==
  ASSUME NEW items \in Seq(Item), Distinct(items)
  PROVE  /\ Merged(items) \in Pass
         /\ MergedSoFar(items, Merged(items), Len(items))
<1> DEFINE n == Len(items)
<1>1. PICK f \in [0 .. n -> Pass] : Merges(f, items)
  BY MergeSteps, Zenon
<1>2. n \in Nat /\ f[0] = Nothing /\ f[n] = Merged(items)
      /\ \A i \in 1 .. n : f[i] = Merge(f[i - 1], items[i])
  BY <1>1 DEF Merges
<1> DEFINE F == {i \in 0 .. n : MergedSoFar(items, f[i], i)}
<1>3. 0 \in F
  <2>1. f[0].kept = << >> /\ f[0].out = << >> /\ Range(<< >>) = {} /\ Len(<< >>) = 0
    BY <1>2, NothingIs DEF Range
  <2>2. MergedSoFar(items, f[0], 0)
    BY <2>1 DEF MergedSoFar
  <2> QED
    BY <1>2, <2>2
<1>4. ASSUME NEW j \in 0 .. n - 1, j \in F
      PROVE  j + 1 \in F
  <2> PICK i \in 1 .. n : i = j + 1 /\ i - 1 = j
    BY <1>2
  <2>1. i \in 0 .. n /\ f[j] \in Pass /\ MergedSoFar(items, f[j], i - 1)
    BY <1>4
  <2>2. MergedSoFar(items, Merge(f[j], items[i]), i)
    BY <2>1, MergeGoesOn
  <2>3. f[i] = Merge(f[j], items[i])
    BY <1>2
  <2> QED
    BY <2>1, <2>2, <2>3
<1>5. n \in F
  <2> HIDE DEF F
  <2>1. \A i \in 0 .. n : i \in F
    BY <1>2, <1>3, <1>4, Counting
  <2> QED
    BY <2>1, <1>2
<1> QED
  BY <1>2, <1>5

----
(* The third leaves out what the budget has no room for.                   *)

\* There is room for an item after those that are kept.
Room(kept, x, limit) == Canonical(x.e) \/ Tokens(Append(kept, x)) <= limit

\* There was room for each item when it was taken.
Fits(kept, limit) ==
  \A a \in 1 .. Len(kept) : Room(SubSeq(kept, 1, a - 1), kept[a], limit)

\* What has been kept of a ranking after i items.
AffordedSoFar(ranked, limit, f, i) ==
  /\ \A x \in Range(f[i].kept) : \E m \in 1 .. i : ranked[m] = x
  /\ Descending(f[i].kept)
  /\ Fits(f[i].kept, limit)
  /\ Len(f[i].kept) + Len(f[i].out) = i
  /\ \A m \in 1 .. i :
       /\ ranked[m] \in Range(f[i].kept) <=> Room(f[m - 1].kept, ranked[m], limit)
       /\ Len(f[m - 1].kept) <= Len(f[i].kept)
       /\ SubSeq(f[i].kept, 1, Len(f[m - 1].kept)) = f[m - 1].kept
       /\ \A a \in Len(f[m - 1].kept) + 1 .. Len(f[i].kept) :
            \E l \in m .. i : f[i].kept[a] = ranked[l]

\* The next item of the ranking is afforded when there is room for it.
LEMMA AffordGoesOn ==
  ASSUME NEW r \in Seq(Item), Descending(r), NEW limit, NEW f \in [0 .. Len(r) -> Pass],
         NEW i \in 1 .. Len(r), f[i] = Afford(f[i - 1], r[i], limit),
         AffordedSoFar(r, limit, f, i - 1)
  PROVE  AffordedSoFar(r, limit, f, i)
<1> DEFINE x == r[i]
           old == f[i - 1]
           new == f[i]
           kept == old.kept
<1>1. /\ x \in Item /\ kept \in Seq(Item) /\ old.out \in Seq(Left) /\ i \in Nat
      /\ old \in Pass /\ i - 1 \in 0 .. Len(r) /\ new = Afford(old, x, limit)
      /\ \A m \in 1 .. i - 1 : m \in 1 .. Len(r) /\ m \in 1 .. i /\ m < i /\ r[m] \in Item
      /\ i \in 1 .. i
  <2>1. i - 1 \in 0 .. Len(r)
    OBVIOUS
  <2>2. old \in Pass
    BY <2>1
  <2> QED
    BY <2>1, <2>2 DEF Pass
<1>2. \A m : m \in 1 .. i <=> m \in 1 .. i - 1 \/ m = i
  BY <1>1
<1>3. /\ \A y \in Range(kept) : \E m \in 1 .. i - 1 : r[m] = y
      /\ Descending(kept)
      /\ Fits(kept, limit)
      /\ Len(kept) + Len(old.out) = i - 1
      /\ \A m \in 1 .. i - 1 :
           /\ r[m] \in Range(kept) <=> Room(f[m - 1].kept, r[m], limit)
           /\ Len(f[m - 1].kept) <= Len(kept)
           /\ SubSeq(kept, 1, Len(f[m - 1].kept)) = f[m - 1].kept
           /\ \A a \in Len(f[m - 1].kept) + 1 .. Len(kept) :
                \E l \in m .. i - 1 : kept[a] = r[l]
  BY Zenon DEF AffordedSoFar
<1>4. Len(kept) \in Nat /\ Len(old.out) \in Nat /\ Len(kept) + Len(old.out) = i - 1
  <2>1. Len(kept) \in Nat /\ Len(old.out) \in Nat
    BY <1>1
  <2> QED
    BY <2>1, <1>3, Zenon
<1>5. \A m \in 1 .. i - 1 : f[m - 1].kept \in Seq(Item) /\ Len(f[m - 1].kept) \in Nat
  <2> SUFFICES ASSUME NEW m \in 1 .. i - 1
               PROVE  f[m - 1].kept \in Seq(Item) /\ Len(f[m - 1].kept) \in Nat
    OBVIOUS
  <2>1. m - 1 \in 0 .. Len(r)
    BY <1>1
  <2>2. f[m - 1].kept \in Seq(Item)
    BY <2>1 DEF Pass
  <2> QED
    BY <2>2
<1>6. x \notin Range(kept)
  <2> SUFFICES ASSUME x \in Range(kept)
               PROVE  FALSE
    OBVIOUS
  <2>1. PICK m \in 1 .. i - 1 : r[m] = x
    BY <1>3
  <2>2. Before(r[m], r[i])
    BY <1>1 DEF Descending
  <2> QED
    BY <2>1, <2>2, <1>1, BeforeIs
<1>7. SubSeq(kept, 1, Len(kept)) = kept
  BY <1>1
<1> HIDE DEF x, old, new, kept
<1>8. CASE ~Room(kept, x, limit)
  <2>1. new = Leave(old, x, "token_budget")
    BY <1>1, <1>8 DEF Afford, Room, kept
  <2>2. new.kept = kept /\ Len(new.out) = Len(old.out) + 1
    <3>1. "token_budget" \in Reasons
      BY DEF Reasons
    <3>2. /\ Leave(old, x, "token_budget").kept = old.kept
          /\ Len(Leave(old, x, "token_budget").out) = Len(old.out) + 1
      BY <3>1, <1>1, LeaveIs, Zenon
    <3> QED
      BY <2>1, <3>2, Zenon DEF kept
  <2>3. /\ \A y \in Range(new.kept) : \E m \in 1 .. i : r[m] = y
        /\ Descending(new.kept) /\ Fits(new.kept, limit)
    BY <1>1, <1>3, <2>2
  <2>4. Len(new.kept) + Len(new.out) = i
    <3>1. \A p, q \in Nat : p + q = i - 1 => p + (q + 1) = i
      BY <1>1
    <3>2. Len(new.kept) = Len(kept)
      BY <2>2, Zenon
    <3> QED
      BY <3>1, <3>2, <2>2, <1>4, Zenon
  <2>5. ASSUME NEW m \in 1 .. i
        PROVE  /\ r[m] \in Range(new.kept) <=> Room(f[m - 1].kept, r[m], limit)
               /\ Len(f[m - 1].kept) <= Len(new.kept)
               /\ SubSeq(new.kept, 1, Len(f[m - 1].kept)) = f[m - 1].kept
               /\ \A a \in Len(f[m - 1].kept) + 1 .. Len(new.kept) :
                    \E l \in m .. i : new.kept[a] = r[l]
    <3>1. CASE m = i
      <4>1. f[m - 1].kept = kept /\ r[m] = x
        BY <3>1 DEF kept, old, x
      <4>2. \A a \in Len(kept) + 1 .. Len(kept) : FALSE
        BY <1>4
      <4>3. Len(kept) <= Len(kept)
        BY <1>4
      <4> QED
        BY <4>1, <4>2, <4>3, <1>6, <1>7, <1>8, <2>2, Zenon
    <3>2. CASE m \in 1 .. i - 1
      <4>1. \A l \in m .. i - 1 : l \in m .. i
        BY <1>1
      <4> QED
        BY <4>1, <3>2, <1>3, <2>2, Zenon
    <3> QED
      BY <3>1, <3>2, <1>2
  <2> QED
    BY <2>3, <2>4, <2>5, Zenon DEF AffordedSoFar, new
<1>9. CASE Room(kept, x, limit)
  <2>1. new = Keep(old, x)
    BY <1>1, <1>9 DEF Afford, Room, kept
  <2>2. new.kept = Append(kept, x) /\ new.out = old.out
    BY <2>1, <1>1, KeepIs DEF kept
  <2>3. /\ new.kept \in Seq(Item) /\ Len(new.kept) = Len(kept) + 1
        /\ \A a \in 1 .. Len(kept) : new.kept[a] = kept[a]
        /\ new.kept[Len(kept) + 1] = x
        /\ Range(new.kept) = Range(kept) \cup {x}
    <3>1. /\ Append(kept, x) \in Seq(Item) /\ Len(Append(kept, x)) = Len(kept) + 1
          /\ \A a \in 1 .. Len(kept) : Append(kept, x)[a] = kept[a]
          /\ Append(kept, x)[Len(kept) + 1] = x
          /\ Range(Append(kept, x)) = Range(kept) \cup {x}
      BY <1>1, RangeAppend
    <3> QED
      BY <3>1, <2>2, Zenon
  <2>4. \A y \in Range(new.kept) : \E m \in 1 .. i : r[m] = y
    BY <1>1, <1>3, <2>3 DEF x
  <2>5. Descending(new.kept)
    <3> SUFFICES ASSUME NEW a \in 1 .. Len(new.kept), NEW b \in 1 .. Len(new.kept), a < b
                 PROVE  Before(new.kept[a], new.kept[b])
      BY DEF Descending
    <3>1. a \in 1 .. Len(kept) /\ new.kept[a] = kept[a]
      BY <1>4, <2>3
    <3>2. CASE b \in 1 .. Len(kept)
      BY <3>1, <3>2, <1>3, <2>3 DEF Descending
    <3>3. CASE b = Len(kept) + 1
      <4>1. kept[a] \in Range(kept)
        BY <3>1, <1>1, InRange
      <4>2. PICK m \in 1 .. i - 1 : r[m] = kept[a]
        BY <4>1, <1>3
      <4>3. Before(r[m], r[i])
        BY <1>1 DEF Descending
      <4> QED
        BY <4>2, <4>3, <3>1, <3>3, <2>3 DEF x
    <3> QED
      BY <3>2, <3>3, <1>4, <2>3
  <2>6. \A p \in 0 .. Len(kept) : SubSeq(new.kept, 1, p) = SubSeq(kept, 1, p)
    <3> TAKE p \in 0 .. Len(kept)
    <3>1. SubSeq(Append(kept, x), 1, p) = SubSeq(kept, 1, p)
      BY <1>1, <1>4
    <3> QED
      BY <3>1, <2>2, Zenon
  <2>7. Fits(new.kept, limit)
    <3> SUFFICES ASSUME NEW a \in 1 .. Len(new.kept)
                 PROVE  Room(SubSeq(new.kept, 1, a - 1), new.kept[a], limit)
      BY DEF Fits
    <3>1. a - 1 \in 0 .. Len(kept)
      BY <1>4, <2>3
    <3>2. SubSeq(new.kept, 1, a - 1) = SubSeq(kept, 1, a - 1)
      BY <3>1, <2>6, Zenon
    <3>3. CASE a \in 1 .. Len(kept)
      <4>1. Room(SubSeq(kept, 1, a - 1), kept[a], limit)
        BY <3>3, <1>3, Zenon DEF Fits
      <4> QED
        BY <4>1, <3>2, <3>3, <2>3, Zenon
    <3>4. CASE a = Len(kept) + 1
      <4>1. a - 1 = Len(kept)
        BY <3>4, <1>4
      <4> QED
        BY <4>1, <3>2, <3>4, <2>3, <1>7, <1>9, Zenon
    <3> QED
      BY <3>3, <3>4, <1>4, <2>3
  <2>8. Len(new.kept) + Len(new.out) = i
    <3>1. \A p, q \in Nat : p + q = i - 1 => (p + 1) + q = i
      BY <1>1
    <3>2. Len(new.out) = Len(old.out)
      BY <2>2, Zenon
    <3> QED
      BY <3>1, <3>2, <2>3, <1>4, Zenon
  <2>9. ASSUME NEW m \in 1 .. i
        PROVE  /\ r[m] \in Range(new.kept) <=> Room(f[m - 1].kept, r[m], limit)
               /\ Len(f[m - 1].kept) <= Len(new.kept)
               /\ SubSeq(new.kept, 1, Len(f[m - 1].kept)) = f[m - 1].kept
               /\ \A a \in Len(f[m - 1].kept) + 1 .. Len(new.kept) :
                    \E l \in m .. i : new.kept[a] = r[l]
    <3>1. CASE m = i
      <4>1. f[m - 1].kept = kept /\ r[m] = x
        BY <3>1 DEF kept, old, x
      <4>2. \A a \in Len(kept) + 1 .. Len(new.kept) : new.kept[a] = r[i] /\ i \in m .. i
        BY <3>1, <1>1, <1>4, <2>3 DEF x
      <4>3. Len(kept) <= Len(new.kept) /\ Len(kept) \in 0 .. Len(kept)
        BY <1>4, <2>3
      <4>4. SubSeq(new.kept, 1, Len(kept)) = kept
        BY <4>3, <2>6, <1>7, Zenon
      <4>5. x \in Range(new.kept)
        BY <2>3
      <4> QED
        BY <4>1, <4>2, <4>3, <4>4, <4>5, <1>9, Zenon
    <3>2. CASE m \in 1 .. i - 1
      <4> DEFINE p == Len(f[m - 1].kept)
      <4>1. p \in 0 .. Len(kept) /\ p <= Len(new.kept) /\ p \in Nat
        BY <3>2, <1>3, <1>4, <1>5, <2>3
      <4>2. SubSeq(new.kept, 1, p) = f[m - 1].kept
        BY <4>1, <3>2, <1>3, <2>6, Zenon
      <4>3. r[m] # x
        <5>1. Before(r[m], r[i])
          BY <1>1, <3>2 DEF Descending
        <5> QED
          BY <5>1, <3>2, <1>1, BeforeIs DEF x
      <4>4. r[m] \in Range(new.kept) <=> Room(f[m - 1].kept, r[m], limit)
        BY <4>3, <3>2, <1>3, <2>3
      <4> HIDE DEF p
      <4>5. ASSUME NEW a \in p + 1 .. Len(new.kept)
            PROVE  \E l \in m .. i : new.kept[a] = r[l]
        <5>1. CASE a \in p + 1 .. Len(kept)
          <6>1. PICK l \in m .. i - 1 : kept[a] = r[l]
            BY <5>1, <3>2, <1>3 DEF p
          <6>2. l \in m .. i /\ a \in 1 .. Len(kept)
            BY <5>1, <4>1, <1>1
          <6> QED
            BY <6>1, <6>2, <2>3
        <5>2. CASE a = Len(kept) + 1
          <6>1. i \in m .. i
            BY <1>1
          <6> QED
            BY <6>1, <5>2, <2>3 DEF x
        <5>3. Len(new.kept) = Len(kept) + 1 /\ Len(kept) \in Nat /\ p \in Nat
          BY <4>1, <1>4, <2>3
        <5>4. a \in p + 1 .. Len(kept) \/ a = Len(kept) + 1
          BY <5>3
        <5> QED
          BY <5>1, <5>2, <5>4
      <4> QED
        BY <4>1, <4>2, <4>4, <4>5, Zenon DEF p
    <3> QED
      BY <3>1, <3>2, <1>2
  <2> QED
    BY <2>4, <2>5, <2>7, <2>8, <2>9, Zenon DEF AffordedSoFar, new
<1> QED
  BY <1>8, <1>9

\* What the third pass keeps.
LEMMA BudgetedIs ==
  ASSUME NEW items \in Seq(Item), Distinct(items), NEW limit
  PROVE  LET b == Budgeted(items, limit)
         IN  /\ b \in Pass
             /\ Descending(b.kept) /\ Fits(b.kept, limit)
             /\ Range(b.kept) \subseteq Range(items)
             /\ Len(b.kept) + Len(b.out) = Len(items)
             /\ \A x \in Range(items) :
                  x \in Range(b.kept) <=>
                    Room(Those(b.kept, {k \in Range(b.kept) : Before(k, x)}), x, limit)
<1> DEFINE r == Ranked(items)
           n == Len(r)
           b == Budgeted(items, limit)
           kept == b.kept
<1>1. r \in Seq(Item) /\ n = Len(items) /\ n \in Nat /\ Range(r) = Range(items) /\ Descending(r)
  BY RankedIs
<1>2. PICK f \in [0 .. n -> Pass] : Affords(f, items, limit)
  BY <1>1, AffordSteps, Zenon
<1>3. f[0] = Nothing /\ f[n] = b /\ \A i \in 1 .. n : f[i] = Afford(f[i - 1], r[i], limit)
  BY <1>2, Zenon DEF Affords
<1> HIDE DEF r
<1> DEFINE F == {i \in 0 .. n : AffordedSoFar(r, limit, f, i)}
<1>4. 0 \in F
  <2>1. f[0].kept = << >> /\ f[0].out = << >> /\ Range(<< >>) = {} /\ Len(<< >>) = 0
    BY <1>3, NothingIs DEF Range
  <2>2. AffordedSoFar(r, limit, f, 0)
    BY <2>1 DEF AffordedSoFar, Descending, Fits
  <2> QED
    BY <1>1, <2>2
<1>5. ASSUME NEW j \in 0 .. n - 1, j \in F
      PROVE  j + 1 \in F
  <2> PICK i \in 1 .. n : i = j + 1 /\ i - 1 = j
    BY <1>1
  <2>1. i \in 0 .. n /\ AffordedSoFar(r, limit, f, i - 1) /\ f[i] = Afford(f[i - 1], r[i], limit)
    BY <1>3, <1>5
  <2>2. AffordedSoFar(r, limit, f, i)
    BY <2>1, <1>1, AffordGoesOn
  <2> QED
    BY <2>1, <2>2
<1>6. n \in F
  <2> HIDE DEF F
  <2>1. \A i \in 0 .. n : i \in F
    BY <1>1, <1>4, <1>5, Counting
  <2> QED
    BY <2>1, <1>1
<1>7. b \in Pass
  BY <1>1, <1>3
<1>8. AffordedSoFar(r, limit, f, n) /\ f[n] = b
  BY <1>3, <1>6
<1> HIDE DEF b
<1>9. /\ \A x \in Range(kept) : \E m \in 1 .. n : r[m] = x
      /\ Descending(kept) /\ Fits(kept, limit)
      /\ Len(kept) + Len(b.out) = n
      /\ \A m \in 1 .. n :
           /\ r[m] \in Range(kept) <=> Room(f[m - 1].kept, r[m], limit)
           /\ Len(f[m - 1].kept) <= Len(kept)
           /\ SubSeq(kept, 1, Len(f[m - 1].kept)) = f[m - 1].kept
           /\ \A a \in Len(f[m - 1].kept) + 1 .. Len(kept) : \E l \in m .. n : kept[a] = r[l]
  BY <1>8, Zenon DEF AffordedSoFar
<1>10. Range(kept) \subseteq Range(items)
  BY <1>1, <1>9, InRange
<1>11. ASSUME NEW x \in Range(items)
       PROVE  x \in Range(kept) <=>
                Room(Those(kept, {k \in Range(kept) : Before(k, x)}), x, limit)
  <2>1. PICK m \in 1 .. n : r[m] = x
    BY <1>1, InRange
  <2> DEFINE g == f[m - 1]
             p == Len(g.kept)
             S == {k \in Range(kept) : Before(k, x)}
  <2>2. /\ x \in Range(kept) <=> Room(g.kept, x, limit)
        /\ p <= Len(kept) /\ SubSeq(kept, 1, p) = g.kept
        /\ \A a \in p + 1 .. Len(kept) : \E l \in m .. n : kept[a] = r[l]
    BY <1>9, <2>1, Zenon
  <2>3. g \in Pass /\ g.kept \in Seq(Item) /\ p \in Nat /\ kept \in Seq(Item) /\ Len(kept) \in Nat
    <3>1. m - 1 \in 0 .. n
      BY <1>1
    <3>2. g \in Pass
      BY <3>1
    <3> QED
      BY <3>2, <1>7 DEF Pass
  <2>4. \A y \in Range(g.kept) : Before(y, x)
    <3> SUFFICES ASSUME NEW y \in Range(g.kept)
                 PROVE  Before(y, x)
      OBVIOUS
    <3>1. m - 1 \in 0 .. n /\ AffordedSoFar(r, limit, f, m - 1)
      <4>1. \A i \in 0 .. n : i \in F
        <5> HIDE DEF F
        <5> QED
          BY <1>1, <1>4, <1>5, Counting
      <4>2. m - 1 \in 0 .. n
        BY <1>1
      <4> QED
        BY <4>1, <4>2
    <3>2. PICK l \in 1 .. m - 1 : r[l] = y
      BY <3>1, Zenon DEF AffordedSoFar
    <3>3. Before(r[l], r[m])
      BY <1>1 DEF Descending
    <3> QED
      BY <3>2, <3>3, <2>1
  <2> HIDE DEF g
  <2>5. \A a \in 1 .. p : kept[a] \in S
    <3> SUFFICES ASSUME NEW a \in 1 .. p
                 PROVE  kept[a] \in S
      OBVIOUS
    <3>1. g.kept[a] = kept[a] /\ a \in 1 .. Len(kept)
      BY <2>2, <2>3
    <3>2. kept[a] \in Range(kept)
      BY <3>1, <2>3, InRange
    <3>3. g.kept[a] \in Range(g.kept)
      BY <2>3, InRange
    <3> QED
      BY <3>1, <3>2, <3>3, <2>4
  <2>6. \A a \in p + 1 .. Len(kept) : kept[a] \notin S
    <3> SUFFICES ASSUME NEW a \in p + 1 .. Len(kept), Before(kept[a], x)
                 PROVE  FALSE
      OBVIOUS
    <3>1. PICK l \in m .. n : kept[a] = r[l]
      BY <2>2
    <3>2. r[l] \in Item /\ r[m] \in Item
      BY <1>1
    <3>3. l = m \/ Before(r[m], r[l])
      BY <1>1 DEF Descending
    <3> QED
      BY <3>1, <3>2, <3>3, <2>1, BeforeIs
  <2> HIDE DEF S
  <2>7. Those(kept, S) = SubSeq(kept, 1, p)
    <3>1. p \in 0 .. Len(kept)
      BY <2>2, <2>3
    <3> HIDE DEF p, kept
    <3> QED
      BY <3>1, <2>3, <2>5, <2>6, ThosePrefix
  <2> QED
    BY <2>2, <2>7, Zenon DEF S
<1>12. Len(kept) + Len(b.out) = Len(items)
  BY <1>1, <1>9, Zenon
<1> HIDE DEF kept
<1>13. /\ b \in Pass
       /\ Descending(kept) /\ Fits(kept, limit)
       /\ Range(kept) \subseteq Range(items)
       /\ Len(kept) + Len(b.out) = Len(items)
       /\ \A x \in Range(items) :
            x \in Range(kept) <=>
              Room(Those(kept, {k \in Range(kept) : Before(k, x)}), x, limit)
  BY <1>7, <1>9, <1>10, <1>11, <1>12, Zenon
<1> QED
  BY <1>13, Zenon DEF b, kept

----
(* What was optimized is settled.                                          *)

\* No two of the items are of one entity, or rivals.
Apart(items) ==
  \A i, j \in 1 .. Len(items) :
    i # j => items[i].e # items[j].e /\ ~Rival(items[i], items[j])

Settled(items, limit, all) ==
  /\ Apart(items)
  /\ \A i \in 1 .. Len(items) : all \/ ~Obsolete(items[i].e)
  /\ limit > 0 => Descending(items) /\ Fits(items, limit)

\* The merge leaves no two rivals.
LEMMA MergedApart ==
  ASSUME NEW items \in Seq(Item), Distinct(items)
  PROVE  /\ Apart(Merged(items).kept)
         /\ Range(Merged(items).kept) \subseteq Range(items)
<1> DEFINE m == Merged(items)
           kept == m.kept
           n == Len(items)
<1>1. m \in Pass /\ MergedSoFar(items, m, n)
  BY MergedIs
<1> HIDE DEF m
<1>2. kept \in Seq(Item) /\ Len(kept) \in Nat /\ n \in Nat
  BY <1>1 DEF Pass
<1>3. /\ \A x : x \in Range(kept) <=> \E q \in 1 .. n : Best(items, q, n) /\ items[q] = x
      /\ \A a, b \in 1 .. Len(kept) : a < b =>
           \E q, k \in 1 .. n : q < k /\ items[q] = kept[a] /\ items[k] = kept[b]
  BY <1>1, Zenon DEF MergedSoFar
<1>4. ASSUME NEW q \in 1 .. n, items[q] \in Range(kept)
      PROVE  Best(items, q, n)
  <2>1. PICK l \in 1 .. n : Best(items, l, n) /\ items[l] = items[q]
    BY <1>3, <1>4
  <2>2. l = q
    BY <2>1 DEF Distinct
  <2> QED
    BY <2>1, <2>2
<1>5. ASSUME NEW a \in 1 .. Len(kept), NEW b \in 1 .. Len(kept), a < b
      PROVE  kept[a].e # kept[b].e /\ ~Rival(kept[a], kept[b])
  <2>1. PICK q, k \in 1 .. n : q < k /\ items[q] = kept[a] /\ items[k] = kept[b]
    BY <1>3, <1>5
  <2>2. kept[a] \in Range(kept) /\ kept[b] \in Range(kept)
    BY <1>2, InRange
  <2>3. Best(items, q, n) /\ Best(items, k, n)
    BY <1>4, <2>1, <2>2
  <2>4. items[q].e # items[k].e
    BY <2>1 DEF Distinct
  <2>5. ~Rival(items[q], items[k])
    <3>1. n \in 0 .. Len(items) /\ q # k
      BY <1>2, <2>1
    <3> QED
      BY <3>1, <2>3, OneBest
  <2> QED
    BY <2>1, <2>4, <2>5
<1>6. Apart(kept)
  <2> SUFFICES ASSUME NEW a \in 1 .. Len(kept), NEW b \in 1 .. Len(kept), a # b
               PROVE  kept[a].e # kept[b].e /\ ~Rival(kept[a], kept[b])
    BY DEF Apart
  <2>1. a < b \/ b < a
    BY <1>2
  <2> QED
    BY <2>1, <1>5, RivalIs
<1>7. Range(kept) \subseteq Range(items)
  <2> SUFFICES ASSUME NEW x \in Range(kept)
               PROVE  x \in Range(items)
    OBVIOUS
  <2>1. PICK q \in 1 .. n : items[q] = x
    BY <1>3
  <2> QED
    BY <2>1, InRange
<1> QED
  BY <1>6, <1>7 DEF m

\* What a list of items that are apart has is apart, in whatever order.
LEMMA ApartOrdered ==
  ASSUME NEW items \in Seq(Item), Apart(items), NEW some \in Seq(Item), Descending(some),
         Range(some) \subseteq Range(items)
  PROVE  Apart(some)
<1> SUFFICES ASSUME NEW a \in 1 .. Len(some), NEW b \in 1 .. Len(some), a # b
             PROVE  some[a].e # some[b].e /\ ~Rival(some[a], some[b])
  BY DEF Apart
<1>1. some[a] \in Item /\ some[b] \in Item /\ some[a] \in Range(some) /\ some[b] \in Range(some)
  BY InRange
<1>2. some[a] # some[b]
  <2>1. Before(some[a], some[b]) \/ Before(some[b], some[a])
    BY DEF Descending
  <2> QED
    BY <2>1, <1>1, BeforeIs
<1>3. PICK p \in 1 .. Len(items) : items[p] = some[a]
  BY <1>1, InRange
<1>4. PICK q \in 1 .. Len(items) : items[q] = some[b]
  BY <1>1, InRange
<1> QED
  BY <1>2, <1>3, <1>4 DEF Apart

\* optimize makes a settled document.
LEMMA OptimizedIs ==
  ASSUME NEW items \in Seq(Item), NEW profile \in Profiles, NEW all
  PROVE  LET o == Optimized(items, profile, all)
         IN  /\ o.profile = profile /\ o.sections = None
             /\ o.items \in Seq(Item)
             /\ Settled(o.items, LimitOf[profile], all)
             /\ o.excluded \in Seq(Left)
             /\ Len(o.items) + Len(o.excluded) = Len(items)
<1> DEFINE d == Deduplicated(items, all)
           m == Merged(d.kept)
           limit == LimitOf[profile]
           b == Budgeted(m.kept, limit)
           last == IF limit > 0 THEN b ELSE [kept |-> m.kept, out |-> << >>]
           o == Optimized(items, profile, all)
<1>1. d \in Pass /\ AdmittedSoFar(items, all, d, Len(items)) /\ Distinct(d.kept)
      /\ d.kept \in Seq(Item) /\ d.out \in Seq(Left)
  BY DeduplicatedIs DEF Pass
<1>2. limit \in Nat
  BY SettingsAssumption
<1>3. /\ o.profile = profile /\ o.sections = None /\ o.items = last.kept
      /\ o.excluded = d.out \o m.out \o last.out
  BY DEF Optimized
<1> HIDE DEF d, limit
<1>4. /\ m \in Pass /\ MergedSoFar(d.kept, m, Len(d.kept)) /\ Apart(m.kept)
      /\ Range(m.kept) \subseteq Range(d.kept) /\ m.kept \in Seq(Item) /\ m.out \in Seq(Left)
  BY <1>1, MergedIs, MergedApart DEF Pass
<1> HIDE DEF m
<1>5. Distinct(m.kept)
  BY <1>4 DEF Apart, Distinct
<1>6. /\ b \in Pass /\ Descending(b.kept) /\ Fits(b.kept, limit)
      /\ Range(b.kept) \subseteq Range(m.kept)
      /\ Len(b.kept) + Len(b.out) = Len(m.kept)
  BY <1>4, <1>5, BudgetedIs
<1> HIDE DEF b
<1>7. b.kept \in Seq(Item) /\ b.out \in Seq(Left) /\ Apart(b.kept)
  <2>1. b.kept \in Seq(Item) /\ b.out \in Seq(Left)
    BY <1>6 DEF Pass
  <2> QED
    BY <2>1, <1>4, <1>6, ApartOrdered
<1>8. /\ last.kept \in Seq(Item) /\ last.out \in Seq(Left) /\ Apart(last.kept)
      /\ Len(last.kept) + Len(last.out) = Len(m.kept)
      /\ Range(last.kept) \subseteq Range(m.kept)
      /\ limit > 0 => Descending(last.kept) /\ Fits(last.kept, limit)
  <2>1. CASE limit > 0
    BY <2>1, <1>6, <1>7
  <2>2. CASE ~(limit > 0)
    <3>1. last = [kept |-> m.kept, out |-> << >>]
      BY <2>2
    <3> HIDE DEF last
    <3>2. Len(m.kept) + Len(<< >>) = Len(m.kept) /\ << >> \in Seq(Left)
      BY <1>4
    <3> QED
      BY <3>1, <3>2, <1>4, <2>2
  <2> QED
    BY <2>1, <2>2
<1> HIDE DEF last
<1>9. \A i \in 1 .. Len(last.kept) : all \/ ~Obsolete(last.kept[i].e)
  <2> SUFFICES ASSUME NEW i \in 1 .. Len(last.kept)
               PROVE  all \/ ~Obsolete(last.kept[i].e)
    OBVIOUS
  <2>1. last.kept[i] \in Range(last.kept)
    BY <1>8, InRange
  <2>2. last.kept[i] \in Range(d.kept)
    BY <2>1, <1>4, <1>8
  <2>3. PICK q \in 1 .. Len(items) : q \in Admitted(items, all) /\ items[q] = last.kept[i]
    BY <2>2, <1>1 DEF AdmittedSoFar
  <2> QED
    BY <2>3 DEF Admitted
<1>10. o.excluded \in Seq(Left) /\ Len(o.excluded) = Len(d.out) + Len(m.out) + Len(last.out)
  BY <1>1, <1>3, <1>4, <1>8
<1>11. Len(last.kept) + Len(o.excluded) = Len(items)
  <2>1. /\ Len(d.kept) \in Nat /\ Len(d.out) \in Nat /\ Len(m.kept) \in Nat /\ Len(m.out) \in Nat
        /\ Len(last.kept) \in Nat /\ Len(last.out) \in Nat
    BY <1>1, <1>4, <1>8
  <2>2. Len(d.kept) + Len(d.out) = Len(items) /\ Len(m.kept) + Len(m.out) = Len(d.kept)
    BY <1>1, <1>4, Zenon DEF AdmittedSoFar, MergedSoFar
  <2>3. Len(items) \in Nat
    OBVIOUS
  <2>4. PICK i, dk, dt, mk, mt, lk, lt :
          /\ i = Len(items) /\ dk = Len(d.kept) /\ dt = Len(d.out) /\ mk = Len(m.kept)
          /\ mt = Len(m.out) /\ lk = Len(last.kept) /\ lt = Len(last.out)
    OBVIOUS
  <2>5. /\ i \in Nat /\ dk \in Nat /\ dt \in Nat /\ mk \in Nat /\ mt \in Nat /\ lk \in Nat
        /\ lt \in Nat /\ dk + dt = i /\ mk + mt = dk
    BY <2>1, <2>2, <2>3, <2>4, Zenon
  <2>6. lk + lt = mk
    BY <1>8, <2>4, Zenon
  <2>7. lk + (dt + mt + lt) = i
    BY <2>5, <2>6
  <2> QED
    BY <2>4, <2>7, <1>10, Zenon
<1>12. Settled(last.kept, limit, all)
  BY <1>8, <1>9, Zenon DEF Settled
<1> HIDE DEF o
<1>13. /\ o.profile = profile /\ o.sections = None
       /\ o.items \in Seq(Item)
       /\ Settled(o.items, limit, all)
       /\ o.excluded \in Seq(Left)
       /\ Len(o.items) + Len(o.excluded) = Len(items)
  BY <1>3, <1>8, <1>10, <1>11, <1>12, Zenon
<1> QED
  BY <1>13, Zenon DEF o, limit

\* A pass that keeps every item keeps the items.
LEMMA AllKept ==
  ASSUME NEW items \in Seq(Item), NEW f \in [0 .. Len(items) -> Pass], f[0] = Nothing,
         \A i \in 1 .. Len(items) :
           f[i - 1].kept = SubSeq(items, 1, i - 1) => f[i] = Keep(f[i - 1], items[i])
  PROVE  /\ f[Len(items)].kept = items
         /\ \A i \in 1 .. Len(items) : f[i - 1].kept = SubSeq(items, 1, i - 1)
<1> DEFINE n == Len(items)
           F == {i \in 0 .. n : f[i].kept = SubSeq(items, 1, i)}
<1>1. n \in Nat /\ SubSeq(items, 1, 0) = << >> /\ SubSeq(items, 1, n) = items
  OBVIOUS
<1>2. 0 \in F
  <2>1. f[0].kept = << >> /\ 0 \in 0 .. n
    BY <1>1, NothingIs
  <2> QED
    BY <2>1, <1>1
<1>3. ASSUME NEW j \in 0 .. n - 1, j \in F
      PROVE  j + 1 \in F
  <2> PICK i \in 1 .. n : i = j + 1 /\ i - 1 = j
    BY <1>1
  <2>1. i \in 0 .. n /\ f[j] \in Pass /\ items[i] \in Item
    BY <1>1
  <2>2. f[j].kept = SubSeq(items, 1, j)
    BY <1>3
  <2>3. f[i] = Keep(f[j], items[i])
    BY <2>2
  <2>4. f[i].kept = Append(f[j].kept, items[i])
    BY <2>1, <2>3, KeepIs
  <2>5. Append(SubSeq(items, 1, j), items[i]) = SubSeq(items, 1, i)
    BY <1>1
  <2> QED
    BY <2>1, <2>2, <2>4, <2>5
<1>4. \A i \in 0 .. n : i \in F
  <2> HIDE DEF F
  <2> QED
    BY <1>1, <1>2, <1>3, Counting
<1>5. f[n].kept = items
  BY <1>1, <1>4
<1>6. ASSUME NEW i \in 1 .. n
      PROVE  f[i - 1].kept = SubSeq(items, 1, i - 1)
  <2>1. i - 1 \in 0 .. n
    BY <1>1
  <2> QED
    BY <2>1, <1>4
<1> QED
  BY <1>5, <1>6

\* What is settled comes out of optimize as it went in.
LEMMA SettledStays ==
  ASSUME NEW items \in Seq(Item), NEW profile \in Profiles, NEW all,
         Settled(items, LimitOf[profile], all)
  PROVE  Optimized(items, profile, all).items = items
<1> DEFINE limit == LimitOf[profile]
           n == Len(items)
<1>1. n \in Nat /\ limit \in Nat /\ \A i \in 1 .. n : items[i] \in Item
  <2>1. limit \in Nat
    BY SettingsAssumption
  <2> QED
    BY <2>1
<1>2. \A i, j \in 1 .. n : i # j => items[i].e # items[j].e /\ ~Rival(items[i], items[j])
  BY DEF Settled, Apart
<1>3. ASSUME NEW i \in 1 .. n
      PROVE  \A x \in Range(SubSeq(items, 1, i - 1)) : x.e # items[i].e /\ ~Rival(x, items[i])
  <2> SUFFICES ASSUME NEW x \in Range(SubSeq(items, 1, i - 1))
               PROVE  x.e # items[i].e /\ ~Rival(x, items[i])
    OBVIOUS
  <2> DEFINE s == SubSeq(items, 1, i - 1)
  <2>1. s \in Seq(Item) /\ Len(s) = i - 1 /\ \A j \in 1 .. i - 1 : s[j] = items[j]
    BY <1>1
  <2> HIDE DEF s
  <2>2. PICK j \in 1 .. i - 1 : s[j] = x
    BY <2>1, InRange DEF s
  <2>3. j \in 1 .. n /\ j # i /\ items[j] = x
    BY <1>1, <2>1, <2>2
  <2> QED
    BY <1>2, <2>3
<1>4. Deduplicated(items, all).kept = items
  <2>1. PICK f \in [0 .. n -> Pass] : Admits(f, items, all)
    BY AdmitSteps, Zenon
  <2>2. f[0] = Nothing /\ f[n] = Deduplicated(items, all)
        /\ \A i \in 1 .. n : f[i] = Admit(f[i - 1], items[i], all)
    BY <2>1 DEF Admits
  <2>3. ASSUME NEW i \in 1 .. n, f[i - 1].kept = SubSeq(items, 1, i - 1)
        PROVE  f[i] = Keep(f[i - 1], items[i])
    <3>1. ~ \E k \in Range(f[i - 1].kept) : k.e = items[i].e
      BY <1>3, <2>3
    <3>2. all \/ ~Obsolete(items[i].e)
      BY DEF Settled
    <3> QED
      BY <3>1, <3>2, <2>2 DEF Admit
  <2>4. f[n].kept = items
    BY <2>2, <2>3, AllKept
  <2> QED
    BY <2>2, <2>4
<1>5. Merged(items).kept = items
  <2>1. PICK f \in [0 .. n -> Pass] : Merges(f, items)
    BY MergeSteps, Zenon
  <2>2. f[0] = Nothing /\ f[n] = Merged(items)
        /\ \A i \in 1 .. n : f[i] = Merge(f[i - 1], items[i])
    BY <2>1 DEF Merges
  <2>3. ASSUME NEW i \in 1 .. n, f[i - 1].kept = SubSeq(items, 1, i - 1)
        PROVE  f[i] = Keep(f[i - 1], items[i])
    <3>1. i - 1 \in 0 .. n
      BY <1>1
    <3>2. f[i - 1] \in Pass /\ items[i] \in Item
      BY <3>1, <1>1
    <3>3. Rivals(f[i - 1], items[i]) = {}
      BY <1>3, <2>3 DEF Rivals
    <3> QED
      BY <3>2, <3>3, <2>2, MergeIs
  <2>4. f[n].kept = items
    BY <2>2, <2>3, AllKept
  <2> QED
    BY <2>2, <2>4
<1>6. ASSUME limit > 0
      PROVE  Budgeted(items, limit).kept = items
  <2>1. Distinct(items)
    BY <1>2 DEF Distinct
  <2>2. Ranked(items) = items
    <3>1. /\ Ranked(items) \in Seq(Item) /\ Len(Ranked(items)) = Len(items)
          /\ Range(Ranked(items)) = Range(items) /\ Descending(Ranked(items))
      BY <2>1, RankedIs
    <3>2. Descending(items)
      BY <1>6 DEF Settled
    <3> QED
      BY <3>1, <3>2, RankedOnce
  <2>3. PICK f \in [0 .. n -> Pass] : Affords(f, items, limit)
    <3>1. \E f \in [0 .. Len(Ranked(items)) -> Pass] : Affords(f, items, limit)
      BY <2>2, AffordSteps, Zenon
    <3> QED
      BY <2>2, <3>1, Zenon
  <2>4. f[0] = Nothing /\ f[n] = Budgeted(items, limit)
        /\ \A i \in 1 .. n : f[i] = Afford(f[i - 1], items[i], limit)
    BY <2>2, <2>3, Zenon DEF Affords
  <2>5. ASSUME NEW i \in 1 .. n, f[i - 1].kept = SubSeq(items, 1, i - 1)
        PROVE  f[i] = Keep(f[i - 1], items[i])
    <3>1. Room(SubSeq(items, 1, i - 1), items[i], limit)
      BY <1>6 DEF Settled, Fits
    <3> QED
      BY <3>1, <2>4, <2>5, Zenon DEF Afford, Room
  <2>6. f[n].kept = items
    BY <2>4, <2>5, AllKept
  <2> QED
    BY <2>4, <2>6
<1>7. Optimized(items, profile, all).items =
        IF limit > 0 THEN Budgeted(items, limit).kept ELSE items
  BY <1>4, <1>5 DEF Optimized
<1> QED
  BY <1>6, <1>7

----
(* A context as it was built is the reference.                             *)

\* Wanted, of an answer g.
WantedOf(g, all) ==
  {g[i] : i \in {m \in Admitted(g, all) :
     \A j \in Admitted(g, all) \ {m} : Rival(g[m], g[j]) => ~Beats(g, j, m)}}

\* Wanted as a function of the answer and of include_history.
LEMMA WantedIs ==
  /\ Wanted = WantedOf(given, history)
  /\ Wanted' = WantedOf(given', history')
BY DEF Wanted, WantedOf, Admitted, Beats

\* The first pass keeps the order of the answer.
LEMMA PlacesAgree ==
  ASSUME NEW g \in Seq(Item), NEW all, NEW d \in Pass, AdmittedSoFar(g, all, d, Len(g)),
         Distinct(d.kept),
         NEW q \in Admitted(g, all), NEW r \in Admitted(g, all),
         NEW p \in 1 .. Len(d.kept), NEW s \in 1 .. Len(d.kept),
         d.kept[p] = g[q], d.kept[s] = g[r]
  PROVE  (q = r <=> p = s) /\ (q < r <=> p < s)
<1>1. d.kept \in Seq(Item) /\ Len(d.kept) \in Nat
  BY DEF Pass
<1>2. /\ q \in 1 .. Len(g) /\ \A j \in 1 .. q - 1 : g[j].e # g[q].e
      /\ r \in 1 .. Len(g) /\ \A j \in 1 .. r - 1 : g[j].e # g[r].e
  BY DEF Admitted
<1>3. ASSUME NEW t \in Admitted(g, all), NEW u \in Admitted(g, all), g[t].e = g[u].e
      PROVE  t = u
  BY <1>3 DEF Admitted
<1>4. ASSUME NEW t \in Admitted(g, all), NEW u \in Admitted(g, all),
             Earlier(g, g[t], g[u])
      PROVE  t < u
  <2>1. PICK m \in 1 .. Len(g) : g[m] = g[t] /\ \A n \in 1 .. m : g[n].e # g[u].e
    BY <1>4 DEF Earlier
  <2>2. /\ t \in 1 .. Len(g) /\ \A j \in 1 .. t - 1 : g[j].e # g[t].e
        /\ u \in 1 .. Len(g)
    BY DEF Admitted
  <2>3. ~(m < t)
    BY <2>1, <2>2
  <2>4. ~(u <= m)
    BY <2>1, <2>2
  <2> QED
    BY <2>2, <2>3, <2>4
<1>5. p < s => q < r
  BY <1>4 DEF AdmittedSoFar
<1>6. s < p => r < q
  BY <1>4 DEF AdmittedSoFar
<1>7. q = r => p = s
  BY DEF Distinct
<1>8. p = s => q = r
  BY <1>3
<1> QED
  BY <1>1, <1>2, <1>5, <1>6, <1>7, <1>8

\* Both passes leave what is wanted.
LEMMA MergedAreWanted ==
  ASSUME NEW g \in Seq(Item), NEW all
  PROVE  Range(Merged(Deduplicated(g, all).kept).kept) = WantedOf(g, all)
<1> DEFINE d == Deduplicated(g, all)
           D == d.kept
           n == Len(D)
           M == Merged(D)
           A == Admitted(g, all)
<1>1. d \in Pass /\ AdmittedSoFar(g, all, d, Len(g)) /\ Distinct(D)
  BY DeduplicatedIs
<1> HIDE DEF d
<1>2. D \in Seq(Item) /\ n \in Nat
  BY <1>1 DEF Pass
<1>3. MergedSoFar(D, M, n)
  BY <1>1, <1>2, MergedIs
<1>4. \A x : x \in Range(M.kept) <=> \E p \in 1 .. n : Best(D, p, n) /\ D[p] = x
  BY <1>3, Zenon DEF MergedSoFar
<1>5. \A p \in 1 .. n : \E q \in A : D[p] = g[q]
  <2> SUFFICES ASSUME NEW p \in 1 .. n
               PROVE  \E q \in A : D[p] = g[q]
    OBVIOUS
  <2>1. D[p] \in Range(D)
    BY <1>2, InRange
  <2> QED
    BY <2>1, <1>1 DEF AdmittedSoFar
<1>6. \A q \in A : \E p \in 1 .. n : D[p] = g[q]
  <2> SUFFICES ASSUME NEW q \in A
               PROVE  \E p \in 1 .. n : D[p] = g[q]
    OBVIOUS
  <2>1. q \in 1 .. Len(g)
    BY DEF Admitted
  <2>2. g[q] \in Range(D)
    BY <2>1, <1>1 DEF AdmittedSoFar
  <2> QED
    BY <2>2, <1>2, InRange
<1>7. ASSUME NEW q \in A, NEW p \in 1 .. n, D[p] = g[q]
      PROVE  Best(D, p, n) <=> \A j \in A \ {q} : Rival(g[q], g[j]) => ~Beats(g, j, q)
  <2>1. ASSUME NEW r \in A, NEW s \in 1 .. n, D[s] = g[r]
        PROVE  (q = r <=> p = s) /\ (Beats(g, r, q) <=> Beats(D, s, p))
    <3>1. (q = r <=> p = s) /\ (r < q <=> s < p)
      BY <1>1, <1>7, <2>1, PlacesAgree
    <3> QED
      BY <3>1, <1>7, <2>1 DEF Beats
  <2> HIDE DEF D, n, A
  <2>2. ASSUME Best(D, p, n), NEW j \in A \ {q}, Rival(g[q], g[j])
        PROVE  ~Beats(g, j, q)
    <3>1. PICK s \in 1 .. n : D[s] = g[j]
      BY <1>6
    <3> QED
      BY <1>7, <2>1, <2>2, <3>1 DEF Best
  <2>3. ASSUME \A j \in A \ {q} : Rival(g[q], g[j]) => ~Beats(g, j, q),
               NEW s \in 1 .. n, s # p, Rival(D[p], D[s])
        PROVE  ~Beats(D, s, p)
    <3>1. PICK r \in A : D[s] = g[r]
      BY <1>5
    <3> QED
      BY <1>7, <2>1, <2>3, <3>1
  <2> QED
    BY <2>2, <2>3 DEF Best
<1> HIDE DEF D, n, A, M
<1>8. ASSUME NEW x
      PROVE  x \in Range(M.kept) <=>
               \E q \in A : /\ \A j \in A \ {q} : Rival(g[q], g[j]) => ~Beats(g, j, q)
                            /\ g[q] = x
  <2>1. ASSUME NEW p \in 1 .. n, Best(D, p, n), D[p] = x
        PROVE  \E q \in A : /\ \A j \in A \ {q} : Rival(g[q], g[j]) => ~Beats(g, j, q)
                            /\ g[q] = x
    <3>1. PICK q \in A : D[p] = g[q]
      BY <1>5
    <3> QED
      BY <3>1, <2>1, <1>7
  <2>2. ASSUME NEW q \in A, \A j \in A \ {q} : Rival(g[q], g[j]) => ~Beats(g, j, q), g[q] = x
        PROVE  \E p \in 1 .. n : Best(D, p, n) /\ D[p] = x
    <3>1. PICK p \in 1 .. n : D[p] = g[q]
      BY <1>6
    <3> QED
      BY <3>1, <2>2, <1>7
  <2> QED
    BY <2>1, <2>2, <1>4
<1>9. Range(M.kept) = WantedOf(g, all)
  BY <1>8 DEF WantedOf, A
<1> QED
  BY <1>9 DEF M, D, d

\* ContextIsReference, of what an answer g was made into.
IsReference(g, all, limit, items, excluded, sections) ==
  /\ Range(items) =
       {x \in WantedOf(g, all) :
          \/ limit = 0 \/ Canonical(x.e)
          \/ Tokens(Append(Those(items, {k \in Range(items) : Before(k, x)}), x)) <= limit}
  /\ \A i, j \in 1 .. Len(items) : i < j =>
       /\ items[i].e # items[j].e
       /\ limit > 0 => Before(items[i], items[j])
       /\ limit = 0 => \E m \in 1 .. Len(g) :
                         /\ g[m] = items[i]
                         /\ \A n \in 1 .. m : g[n].e # items[j].e
  /\ Len(items) + Len(excluded) = Len(g)
  /\ Range(excluded) \subseteq Left
  /\ \A x \in Range(items) : Cardinality({s \in Sections : x \in Range(sections[s])}) = 1

\* Every item is told in one section.
LEMMA SectionsAre ==
  ASSUME NEW items \in Seq(Item), NEW x \in Range(items)
  PROVE  Cardinality({s \in Sections : x \in Range(Sectionize(items)[s])}) = 1
<1>1. SectionIn(x.e) \in Sections
  BY SettingsAssumption DEF SectionIn
<1>2. ASSUME NEW s \in Sections
      PROVE  x \in Range(Sectionize(items)[s]) <=> s = SectionIn(x.e)
  <2> DEFINE S == {i \in Range(items) : s = SectionIn(i.e)}
  <2>1. Sectionize(items)[s] = Those(items, S)
    BY DEF Sectionize
  <2>2. x \in S <=> s = SectionIn(x.e)
    OBVIOUS
  <2> HIDE DEF S
  <2>3. Range(Those(items, S)) = Range(items) \cap S
    BY ThoseIs
  <2> QED
    BY <2>1, <2>2, <2>3
<1>3. {s \in Sections : x \in Range(Sectionize(items)[s])} = {SectionIn(x.e)}
  BY <1>1, <1>2
<1> QED
  BY <1>3, FS_Singleton

\* What optimize makes of any answer, told in sections, is the reference.
LEMMA OptimizedIsReference ==
  ASSUME NEW g \in Seq(Item), NEW profile \in Profiles, NEW all
  PROVE  LET o == Optimized(g, profile, all)
         IN  IsReference(g, all, LimitOf[profile], o.items, o.excluded, Sectionize(o.items))
<1> DEFINE d == Deduplicated(g, all)
           m == Merged(d.kept)
           limit == LimitOf[profile]
           o == Optimized(g, profile, all)
           items == o.items
<1>1. d \in Pass /\ AdmittedSoFar(g, all, d, Len(g)) /\ Distinct(d.kept)
      /\ d.kept \in Seq(Item)
  BY DeduplicatedIs DEF Pass
<1>2. limit \in Nat
  BY SettingsAssumption
<1>3. items = IF limit > 0 THEN Budgeted(m.kept, limit).kept ELSE m.kept
  BY DEF Optimized
<1>4. /\ items \in Seq(Item) /\ Settled(items, limit, all)
      /\ o.excluded \in Seq(Left) /\ Len(items) + Len(o.excluded) = Len(g)
  BY OptimizedIs
<1>5. Range(m.kept) = WantedOf(g, all)
  BY MergedAreWanted
<1> HIDE DEF d, limit, o
<1>6. /\ m \in Pass /\ MergedSoFar(d.kept, m, Len(d.kept)) /\ Apart(m.kept)
      /\ m.kept \in Seq(Item)
  BY <1>1, MergedIs, MergedApart DEF Pass
<1>7. Distinct(m.kept)
  BY <1>6 DEF Apart, Distinct
<1> HIDE DEF m, items
<1> DEFINE better(x) == Those(items, {k \in Range(items) : Before(k, x)})
<1>8. Range(items) = {x \in WantedOf(g, all) : limit = 0 \/ Room(better(x), x, limit)}
  <2>1. CASE limit = 0
    <3>1. items = m.kept
      BY <1>3, <2>1
    <3> HIDE DEF better
    <3> QED
      BY <3>1, <2>1, <1>5
  <2>2. CASE limit > 0
    <3>1. items = Budgeted(m.kept, limit).kept
      BY <1>3, <2>2
    <3>2. /\ Range(items) \subseteq Range(m.kept)
          /\ \A x \in Range(m.kept) : x \in Range(items) <=> Room(better(x), x, limit)
      BY <3>1, <1>6, <1>7, BudgetedIs, Zenon
    <3>3. limit # 0
      BY <2>2
    <3> HIDE DEF better
    <3> QED
      BY <3>2, <3>3, <1>5
  <2>3. limit = 0 \/ limit > 0
    BY <1>2
  <2> QED
    BY <2>1, <2>2, <2>3, Zenon
<1>9. Range(items) =
        {x \in WantedOf(g, all) :
           \/ limit = 0 \/ Canonical(x.e)
           \/ Tokens(Append(Those(items, {k \in Range(items) : Before(k, x)}), x)) <= limit}
  <2>1. \A x : Room(better(x), x, limit) <=>
                 \/ Canonical(x.e)
                 \/ Tokens(Append(Those(items, {k \in Range(items) : Before(k, x)}), x)) <= limit
    BY DEF Room
  <2> QED
    BY <1>8, <2>1, Zenon
<1>10. ASSUME NEW i \in 1 .. Len(items), NEW j \in 1 .. Len(items), i < j
       PROVE  /\ items[i].e # items[j].e
              /\ limit > 0 => Before(items[i], items[j])
              /\ limit = 0 => \E q \in 1 .. Len(g) :
                                /\ g[q] = items[i]
                                /\ \A n \in 1 .. q : g[n].e # items[j].e
  <2>1. items[i].e # items[j].e
    BY <1>4, <1>10 DEF Settled, Apart
  <2>2. limit > 0 => Before(items[i], items[j])
    BY <1>4, <1>10 DEF Settled, Descending
  <2>3. ASSUME limit = 0
        PROVE  Earlier(g, items[i], items[j])
    <3>1. items = m.kept
      BY <1>3, <2>3
    <3>4. \A a, b \in 1 .. Len(m.kept) : a < b =>
            \E p, s \in 1 .. Len(d.kept) :
              p < s /\ d.kept[p] = m.kept[a] /\ d.kept[s] = m.kept[b]
      BY <1>6, Zenon DEF MergedSoFar
    <3>2. PICK p, s \in 1 .. Len(d.kept) :
            p < s /\ d.kept[p] = items[i] /\ d.kept[s] = items[j]
      BY <1>10, <3>1, <3>4
    <3>3. Earlier(g, d.kept[p], d.kept[s])
      BY <1>1, <3>2, Zenon DEF AdmittedSoFar
    <3> QED
      BY <3>2, <3>3, Zenon
  <2> QED
    BY <2>1, <2>2, <2>3, Zenon DEF Earlier
<1>11. Range(o.excluded) \subseteq Left
  BY <1>4, InRange
<1>12. \A x \in Range(items) :
         Cardinality({s \in Sections : x \in Range(Sectionize(items)[s])}) = 1
  BY <1>4, SectionsAre
<1>13. IsReference(g, all, limit, items, o.excluded, Sectionize(items))
  BY <1>4, <1>9, <1>10, <1>11, <1>12, Zenon DEF IsReference
<1> QED
  BY <1>13, Zenon DEF o, limit, items

----
(* The theorems.                                                           *)

\* The invariant: a context is settled for the request that made it.
CInv ==
  /\ given \in Seq(Item)
  /\ context # None =>
       /\ context.items \in Seq(Item) /\ context.profile \in Profiles
       /\ Settled(context.items, LimitOf[context.profile], history)
  /\ context # None /\ context.sections # None =>
       IsReference(given, history, LimitOf[context.profile], context.items,
                   context.excluded, context.sections)

\* The invariant holds at the start ...
LEMMA CInit == Init => CInv
BY DEF Init, CInv

\* ... and every operation keeps it.
LEMMA CNext == CInv /\ [Next]_vars => CInv'
<1> SUFFICES ASSUME CInv, [Next]_vars
             PROVE  CInv'
  OBVIOUS
<1>1. ASSUME NEW result \in Results, NEW profile \in Profiles \cup {"unknown"},
             NEW all \in BOOLEAN, Build(result, profile, all)
      PROVE  CInv'
  <2> DEFINE p == IF profile \in Profiles THEN profile ELSE Default
             o == Optimized(result, p, all)
             s == Sectionize(o.items)
  <2>1. p \in Profiles /\ result \in Seq(Item)
    BY SettingsAssumption
  <2>2. given' = result /\ history' = all /\ context' = [o EXCEPT !.sections = s]
    BY <1>1 DEF Build
  <2> HIDE DEF p
  <2>3. /\ o.profile = p /\ o.items \in Seq(Item) /\ Settled(o.items, LimitOf[p], all)
    BY <2>1, OptimizedIs
  <2>4. IsReference(result, all, LimitOf[p], o.items, o.excluded, s)
    BY <2>1, OptimizedIsReference
  <2>5. /\ context'.items = o.items /\ context'.excluded = o.excluded
        /\ context'.profile = o.profile /\ context'.sections = s
    BY <2>2 DEF Optimized
  <2> HIDE DEF o, s
  <2> QED
    BY <2>1, <2>2, <2>3, <2>4, <2>5, Zenon DEF CInv
<1>2. ASSUME NEW all \in BOOLEAN, Optimize(all)
      PROVE  CInv'
  <2> DEFINE o == Optimized(context.items, context.profile, all)
  <2>1. context.items \in Seq(Item) /\ context.profile \in Profiles
    BY <1>2 DEF CInv, Optimize
  <2>2. given' = given /\ history' = all /\ context' = o
    BY <1>2 DEF Optimize
  <2>3. /\ o.profile = context.profile /\ o.items \in Seq(Item) /\ o.sections = None
        /\ Settled(o.items, LimitOf[context.profile], all)
    BY <2>1, OptimizedIs
  <2> HIDE DEF o
  <2> QED
    BY <2>1, <2>2, <2>3 DEF CInv
<1>3. ASSUME NEW level, Compress(level)
      PROVE  CInv'
  BY <1>3 DEF Compress, CInv
<1>4. ASSUME UNCHANGED vars
      PROVE  CInv'
  BY <1>4 DEF vars, CInv
<1> QED
  BY <1>1, <1>2, <1>3, <1>4 DEF Next

\* The invariant: the context is settled for the settings it was made with, and one
\* that was built is the reference of the answer it was built from.
THEOREM Invariance == Spec => []CInv
BY CInit, CNext, PTL DEF Spec

\* A built context holds what it should of the answer, in the right order, each
\* item in one section, and tells of all else (ContextManager.build).
THEOREM ContextsAreTheReference == Spec => []ContextIsReference
<1>1. CInv => ContextIsReference
  BY WantedIs DEF CInv, IsReference, ContextIsReference
<1> QED
  BY <1>1, Invariance, PTL

\* Optimizing what was optimized changes nothing (ContextBuilder.optimize).
THEOREM OptimizingSettles == Spec => OptimizeSettles
<1>1. CInv /\ [Next]_vars =>
        [context # None /\ history' = history => context'.items = context.items]_vars
  <2> SUFFICES ASSUME CInv, Next, context # None, history' = history
               PROVE  context'.items = context.items
    OBVIOUS
  <2>1. ASSUME NEW result, NEW profile, NEW all, Build(result, profile, all)
        PROVE  context'.items = context.items
    BY <2>1 DEF Build
  <2>2. ASSUME NEW all, Optimize(all)
        PROVE  context'.items = context.items
    <3>1. all = history /\ context' = Optimized(context.items, context.profile, history)
      BY <2>2 DEF Optimize
    <3> QED
      BY <3>1, SettledStays DEF CInv
  <2>3. ASSUME NEW level, Compress(level)
        PROVE  context'.items = context.items
    BY <2>3 DEF Compress
  <2> QED
    BY <2>1, <2>2, <2>3 DEF Next
<1> QED
  BY <1>1, Invariance, PTL DEF Spec, OptimizeSettles

================================================================================
