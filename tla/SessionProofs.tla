--------------------------- MODULE SessionProofs ---------------------------
(***************************************************************************)
(* Theorems about Session, for any destinations, any size of the rings and *)
(* the panes and any capacities: the types, that a pane holds the latest   *)
(* of what was recorded for it while the counters miss nothing, and that   *)
(* the newest can be seen.                                                 *)
(***************************************************************************)
EXTENDS Session, FiniteSetTheorems, SequenceTheorems, WellFoundedInduction,
        TLAPS

----------------------------------------------------------------------------
(* Sums over a finite set.  The sum of f is the value, at the whole set, of  *)
(* the function on its subsets that one equation gives: it is shown that     *)
(* there is such a function, that there is only one, and that it does not    *)
(* matter which element is added first.                                      *)

Pick(s) == CHOOSE x \in s : TRUE

Equation(g, f, S) ==
    g = [s \in SUBSET S |->
            IF s = {} THEN 0 ELSE f[Pick(s)] + g[s \ {Pick(s)}]]

LEMMA SumIsChosen ==
    ASSUME NEW f, NEW S
    PROVE  SumFunctionOnSet(f, S) = (CHOOSE g : Equation(g, f, S))[S]
BY DEF SumFunctionOnSet, FoldFunctionOnSet, MapThenFoldSet, Equation, Pick

\* A set that is not empty has the element that is picked.
LEMMA Picked ==
    ASSUME NEW s, s # {}
    PROVE  Pick(s) \in s
BY DEF Pick

\* Of a collection of subsets of a finite set, one has no smaller one in it.
LEMMA SmallestSet ==
    ASSUME NEW S, IsFiniteSet(S), NEW U, U \subseteq SUBSET S, U # {}
    PROVE  \E T \in U : \A R \in U : R \subseteq T => R = T
<1>1. IsWellFoundedOn(StrictSubsetOrdering(S), FiniteSubsetsOf(S))
  BY FS_StrictSubsetOrderingWellFounded
<1>2. FiniteSubsetsOf(S) = SUBSET S
  BY FS_FiniteSubsetsOfFinite
<1>3. PICK T \in U : \A R \in U : ~(<<R, T>> \in StrictSubsetOrdering(S))
  BY <1>1, <1>2, WFMin
<1>4. ASSUME NEW R \in U, R \subseteq T, R # T
      PROVE  FALSE
  <2>1. <<R, T>> \in StrictSubsetOrdering(S)
    BY <1>4 DEF StrictSubsetOrdering
  <2> QED
    BY <1>3, <2>1
<1> QED
  BY <1>4

\* A set of numbers that is not empty has a least one.
LEMMA FirstNumber ==
    ASSUME NEW T, T \subseteq Nat, T # {}
    PROVE  \E m \in T : \A k \in T : m <= k
<1>1. IsWellFoundedOn(OpToRel(<, Nat), Nat)
  BY NatLessThanWellFounded
<1>2. PICK m \in T : \A k \in T : ~(<<k, m>> \in OpToRel(<, Nat))
  BY <1>1, WFMin
<1>3. \A k \in T : ~(k < m)
  BY <1>2 DEF OpToRel
<1> QED
  BY <1>3

\* Two functions that agree on a set have the same sum over it, whatever sets
\* the sums were defined on.
LEMMA SolutionsAgree ==
    ASSUME NEW S1, NEW S2, NEW f1, NEW f2, NEW g1, NEW g2,
           Equation(g1, f1, S1), Equation(g2, f2, S2),
           NEW T, IsFiniteSet(T), T \subseteq S1, T \subseteq S2,
           \A x \in T : f1[x] = f2[x]
    PROVE  g1[T] = g2[T]
<1> DEFINE U == {R \in SUBSET T : g1[R] # g2[R]}
<1>1. SUFFICES ASSUME T \in U PROVE FALSE
  OBVIOUS
<1>2. PICK R \in U : \A Q \in U : Q \subseteq R => Q = R
  <2>1. U \subseteq SUBSET T /\ U # {}
    BY <1>1
  <2> HIDE DEF U
  <2> QED
    BY <2>1, SmallestSet
<1>3. /\ g1[R] = IF R = {} THEN 0 ELSE f1[Pick(R)] + g1[R \ {Pick(R)}]
      /\ g2[R] = IF R = {} THEN 0 ELSE f2[Pick(R)] + g2[R \ {Pick(R)}]
  <2>1. R \in SUBSET S1 /\ R \in SUBSET S2
    OBVIOUS
  <2> QED
    BY <2>1 DEF Equation
<1>4. R # {} /\ g1[R] # g2[R]
  BY <1>3
<1>5. Pick(R) \in R
  BY <1>4, Picked
<1>6. R \ {Pick(R)} \notin U
  BY <1>2, <1>5
<1>7. g1[R \ {Pick(R)}] = g2[R \ {Pick(R)}]
  BY <1>6
<1>8. f1[Pick(R)] = f2[Pick(R)]
  BY <1>5
<1> QED
  BY <1>3, <1>4, <1>7, <1>8

\* There is such a function, with natural numbers for values.
LEMMA SolutionExists ==
    ASSUME NEW S, IsFiniteSet(S), NEW f, \A x \in S : f[x] \in Nat
    PROVE  \E g \in [SUBSET S -> Nat] : Equation(g, f, S)
<1> DEFINE Small(k) == {T \in SUBSET S : Cardinality(T) <= k}
           Upto(k, g) == \A T \in Small(k) :
               g[T] = IF T = {} THEN 0 ELSE f[Pick(T)] + g[T \ {Pick(T)}]
           Bad == {k \in Nat : ~\E g \in [Small(k) -> Nat] : Upto(k, g)}
<1>1. \A T \in SUBSET S : IsFiniteSet(T) /\ Cardinality(T) \in Nat
  BY FS_Subset, FS_CardinalityType
<1>2. Bad = {}
  <2> SUFFICES ASSUME Bad # {} PROVE FALSE
    OBVIOUS
  <2>1. PICK k \in Bad : \A m \in Bad : k <= m
    <3>1. Bad \subseteq Nat
      OBVIOUS
    <3> HIDE DEF Bad
    <3> QED
      BY <3>1, FirstNumber
  <2>2. CASE k = 0
    <3>1. \A T \in Small(0) : T = {}
      BY <1>1, FS_EmptySet
    <3>2. [T \in Small(0) |-> 0] \in [Small(0) -> Nat]
      OBVIOUS
    <3>3. Upto(0, [T \in Small(0) |-> 0])
      BY <3>1
    <3> QED
      BY <2>1, <2>2, <3>2, <3>3
  <2>3. CASE k # 0
    <3>1. k - 1 \in Nat /\ k - 1 \notin Bad
      <4>1. k \in Nat
        BY <2>1
      <4>2. k - 1 \in Nat /\ ~(k <= k - 1)
        BY <2>3, <4>1
      <4> HIDE DEF Bad
      <4> QED
        BY <2>1, <4>2
    <3>2. PICK g \in [Small(k - 1) -> Nat] : Upto(k - 1, g)
      BY <3>1
    <3>3. \A T \in Small(k) : T # {} =>
             Pick(T) \in T /\ T \ {Pick(T)} \in Small(k - 1)
      <4> TAKE T \in Small(k)
      <4> HAVE T # {}
      <4>1. Pick(T) \in T
        BY Picked
      <4>2. Cardinality(T \ {Pick(T)}) = Cardinality(T) - 1
        BY <1>1, <4>1, FS_RemoveElement
      <4>3. Cardinality(T) \in Nat /\ Cardinality(T) <= k /\ k \in Nat
        BY <1>1, <2>1
      <4>4. Cardinality(T) - 1 <= k - 1
        BY <4>3
      <4> QED
        BY <4>1, <4>2, <4>4
    <3> DEFINE h == [T \in Small(k) |->
                        IF T = {} THEN 0 ELSE f[Pick(T)] + g[T \ {Pick(T)}]]
    <3>4. h \in [Small(k) -> Nat]
      <4>1. ASSUME NEW T \in Small(k), T # {}
            PROVE  f[Pick(T)] + g[T \ {Pick(T)}] \in Nat
        <5>1. f[Pick(T)] \in Nat
          BY <3>3, <4>1
        <5>2. g[T \ {Pick(T)}] \in Nat
          BY <3>3, <4>1
        <5> QED
          BY <5>1, <5>2
      <4> QED
        BY <4>1
    <3>5. \A T \in Small(k - 1) : T \in Small(k) /\ h[T] = g[T]
      <4> TAKE T \in Small(k - 1)
      <4>1. T \in Small(k)
        <5>1. Cardinality(T) \in Nat /\ Cardinality(T) <= k - 1 /\ k \in Nat
          BY <1>1, <2>1
        <5>2. Cardinality(T) <= k
          BY <5>1
        <5> QED
          BY <5>2
      <4>2. g[T] = IF T = {} THEN 0 ELSE f[Pick(T)] + g[T \ {Pick(T)}]
        BY <3>2
      <4> QED
        BY <4>1, <4>2
    <3>6. Upto(k, h)
      <4> TAKE T \in Small(k)
      <4>1. h[T] = IF T = {} THEN 0 ELSE f[Pick(T)] + g[T \ {Pick(T)}]
        OBVIOUS
      <4>2. T # {} => h[T \ {Pick(T)}] = g[T \ {Pick(T)}]
        BY <3>3, <3>5
      <4> QED
        BY <4>1, <4>2
    <3> QED
      BY <2>1, <3>4, <3>6
  <2> QED
    BY <2>2, <2>3
<1> DEFINE n == Cardinality(S)
<1>3. n \in Nat /\ SUBSET S = Small(n)
  BY <1>1, FS_Subset
<1>4. PICK g \in [Small(n) -> Nat] : Upto(n, g)
  BY <1>2, <1>3
<1>5. \A T \in SUBSET S :
         g[T] = IF T = {} THEN 0 ELSE f[Pick(T)] + g[T \ {Pick(T)}]
  BY <1>3, <1>4
<1>6. g \in [SUBSET S -> Nat]
  BY <1>3, <1>4
<1> QED
  BY <1>5, <1>6 DEF Equation

\* The sum is the value of any such function, at the set and at its subsets.
LEMMA SumIsSolution ==
    ASSUME NEW S, IsFiniteSet(S), NEW f, NEW g, Equation(g, f, S),
           NEW T \in SUBSET S
    PROVE  SumFunctionOnSet(f, T) = g[T]
<1> DEFINE cut == [s \in SUBSET T |-> g[s]]
           chosen == CHOOSE h : Equation(h, f, T)
<1>1. Equation(cut, f, T)
  <2>1. ASSUME NEW s \in SUBSET T
        PROVE  cut[s] = IF s = {} THEN 0 ELSE f[Pick(s)] + cut[s \ {Pick(s)}]
    <3>1. s \in SUBSET S /\ s \ {Pick(s)} \in SUBSET T
      OBVIOUS
    <3>2. g[s] = IF s = {} THEN 0 ELSE f[Pick(s)] + g[s \ {Pick(s)}]
      BY <3>1 DEF Equation
    <3> QED
      BY <3>1, <3>2
  <2> QED
    BY <2>1 DEF Equation
<1>2. Equation(chosen, f, T)
  BY <1>1
<1>3. SumFunctionOnSet(f, T) = chosen[T]
  BY SumIsChosen
<1>4. IsFiniteSet(T)
  BY FS_Subset
<1> HIDE DEF chosen
<1>5. chosen[T] = g[T]
  BY <1>2, <1>4, SolutionsAgree
<1> QED
  BY <1>3, <1>5

\* A sum of natural numbers is one.
LEMMA SumType ==
    ASSUME NEW S, IsFiniteSet(S), NEW f, \A x \in S : f[x] \in Nat
    PROVE  SumFunctionOnSet(f, S) \in Nat
<1>1. PICK g \in [SUBSET S -> Nat] : Equation(g, f, S)
  BY SolutionExists
<1>2. SumFunctionOnSet(f, S) = g[S]
  BY <1>1, SumIsSolution
<1> QED
  BY <1>1, <1>2

\* Nothing adds up to zero.
LEMMA SumOfNothing ==
    ASSUME NEW f
    PROVE  SumFunctionOnSet(f, {}) = 0
<1>1. IsFiniteSet({})
  BY FS_EmptySet
<1>2. PICK g \in [SUBSET {} -> Nat] : Equation(g, f, {})
  BY <1>1, SolutionExists
<1>3. SumFunctionOnSet(f, {}) = g[{}]
  BY <1>1, <1>2, SumIsSolution
<1> QED
  BY <1>2, <1>3 DEF Equation

\* The sum depends on the values in the set alone.
LEMMA SumOfSame ==
    ASSUME NEW S, IsFiniteSet(S), NEW f, NEW h,
           \A x \in S : f[x] \in Nat /\ h[x] = f[x]
    PROVE  SumFunctionOnSet(h, S) = SumFunctionOnSet(f, S)
<1>1. PICK g1 \in [SUBSET S -> Nat] : Equation(g1, f, S)
  BY SolutionExists
<1>2. PICK g2 \in [SUBSET S -> Nat] : Equation(g2, h, S)
  BY SolutionExists
<1>3. g1[S] = g2[S]
  BY <1>1, <1>2, SolutionsAgree
<1> QED
  BY <1>1, <1>2, <1>3, SumIsSolution

\* Which element is taken out first makes no difference.
LEMMA SumWithout ==
    ASSUME NEW S, IsFiniteSet(S), NEW f, \A x \in S : f[x] \in Nat,
           NEW e \in S
    PROVE  SumFunctionOnSet(f, S) = f[e] + SumFunctionOnSet(f, S \ {e})
<1>1. PICK g \in [SUBSET S -> Nat] : Equation(g, f, S)
  BY SolutionExists
<1> DEFINE Bad == {T \in SUBSET S :
                      \E x \in T : g[T] # f[x] + g[T \ {x}]}
<1>2. Bad = {}
  <2> SUFFICES ASSUME Bad # {} PROVE FALSE
    OBVIOUS
  <2>1. PICK T \in Bad : \A R \in Bad : R \subseteq T => R = T
    <3>1. Bad \subseteq SUBSET S
      OBVIOUS
    <3> HIDE DEF Bad
    <3> QED
      BY <3>1, SmallestSet
  <2>2. PICK x \in T : g[T] # f[x] + g[T \ {x}]
    BY <2>1
  <2>3. PICK p : p = Pick(T)
    OBVIOUS
  <2>4. p \in T /\ g[T] = f[p] + g[T \ {p}]
    <3>1. T # {} /\ T \in SUBSET S
      BY <2>1, <2>2
    <3>2. Pick(T) \in T
      BY <3>1, Picked
    <3>3. g[T] = f[Pick(T)] + g[T \ {Pick(T)}]
      BY <1>1, <3>1 DEF Equation
    <3> QED
      BY <2>3, <3>2, <3>3
  <2>5. p # x
    BY <2>2, <2>4
  <2>6. T \ {p} \notin Bad /\ T \ {x} \notin Bad
    BY <2>1, <2>2, <2>4
  <2>7. /\ T \ {p} \in SUBSET S /\ T \ {x} \in SUBSET S
        /\ x \in T \ {p} /\ p \in T \ {x}
    BY <2>1, <2>2, <2>4, <2>5
  <2>8. /\ g[T \ {p}] = f[x] + g[(T \ {p}) \ {x}]
        /\ g[T \ {x}] = f[p] + g[(T \ {x}) \ {p}]
    BY <2>6, <2>7
  <2>9. PICK rest : rest = g[T \ {p, x}]
    OBVIOUS
  <2>10. (T \ {p}) \ {x} = T \ {p, x} /\ (T \ {x}) \ {p} = T \ {p, x}
    OBVIOUS
  <2>11. f[x] \in Nat /\ f[p] \in Nat /\ rest \in Nat
    <3>1. T \ {p, x} \in SUBSET S
      BY <2>1
    <3> QED
      BY <1>1, <2>1, <2>2, <2>4, <2>9, <3>1
  <2>12. g[T \ {p}] = f[x] + rest /\ g[T \ {x}] = f[p] + rest
    BY <2>8, <2>9, <2>10
  <2>13. \A a, b, c \in Nat : a + (b + c) = b + (a + c)
    OBVIOUS
  <2>14. f[p] + (f[x] + rest) = f[x] + (f[p] + rest)
    BY <2>11, <2>13
  <2> QED
    BY <2>2, <2>4, <2>12, <2>14
<1>3. S \notin Bad /\ S \ {e} \in SUBSET S
  BY <1>2
<1>4. g[S] = f[e] + g[S \ {e}]
  BY <1>3
<1>5. SumFunctionOnSet(f, S) = g[S]
  BY <1>1, SumIsSolution
<1>6. SumFunctionOnSet(f, S \ {e}) = g[S \ {e}]
  BY <1>1, <1>3, SumIsSolution
<1> QED
  BY <1>4, <1>5, <1>6

\* When the value of one element grows, so does the sum.
LEMMA SumGrows ==
    ASSUME NEW S, IsFiniteSet(S), NEW f, NEW h, NEW e \in S, NEW more \in Nat,
           \A x \in S : f[x] \in Nat,
           \A x \in S \ {e} : h[x] = f[x],
           h[e] = f[e] + more
    PROVE  SumFunctionOnSet(h, S) = SumFunctionOnSet(f, S) + more
<1>1. IsFiniteSet(S \ {e})
  BY FS_RemoveElement
<1>2. f[e] \in Nat /\ h[e] \in Nat
  OBVIOUS
<1>3. \A x \in S : h[x] \in Nat
  BY <1>2
<1>4. PICK rest : rest = SumFunctionOnSet(f, S \ {e})
  OBVIOUS
<1>5. rest \in Nat
  BY <1>1, <1>4, SumType
<1>6. SumFunctionOnSet(h, S \ {e}) = rest
  BY <1>1, <1>4, SumOfSame
<1>7. SumFunctionOnSet(f, S) = f[e] + rest
  BY <1>4, SumWithout
<1>8. SumFunctionOnSet(h, S) = (f[e] + more) + rest
  BY <1>3, <1>6, SumWithout
<1>9. \A a, b, c \in Nat : (a + b) + c = (a + c) + b
  OBVIOUS
<1> QED
  BY <1>2, <1>5, <1>7, <1>8, <1>9

\* A new element adds its own value.
LEMMA SumOfOneMore ==
    ASSUME NEW S, IsFiniteSet(S), NEW f, NEW h, NEW e, e \notin S,
           \A x \in S : f[x] \in Nat /\ h[x] = f[x],
           h[e] \in Nat
    PROVE  SumFunctionOnSet(h, S \cup {e}) = SumFunctionOnSet(f, S) + h[e]
<1> DEFINE W == S \cup {e}
<1>1. IsFiniteSet(W) /\ W \ {e} = S
  BY FS_AddElement
<1>2. SumFunctionOnSet(h, W) = h[e] + SumFunctionOnSet(h, W \ {e})
  <2>1. \A x \in W : h[x] \in Nat
    OBVIOUS
  <2>2. e \in W
    OBVIOUS
  <2> HIDE DEF W
  <2> QED
    BY <1>1, <2>1, <2>2, SumWithout
<1>3. SumFunctionOnSet(h, S) = SumFunctionOnSet(f, S)
  BY SumOfSame
<1>4. SumFunctionOnSet(f, S) \in Nat
  BY SumType
<1>5. \A a, b \in Nat : a + b = b + a
  OBVIOUS
<1> QED
  BY <1>1, <1>2, <1>3, <1>4, <1>5

\* Zeros add up to zero, ones to their number.
LEMMA SumOfEqual ==
    ASSUME NEW S, IsFiniteSet(S), NEW f, NEW v \in {0, 1},
           \A x \in S : f[x] = v
    PROVE  SumFunctionOnSet(f, S) = IF v = 0 THEN 0 ELSE Cardinality(S)
<1> DEFINE Count(T) == IF v = 0 THEN 0 ELSE Cardinality(T)
           Bad == {T \in SUBSET S : SumFunctionOnSet(f, T) # Count(T)}
<1>1. \A T \in SUBSET S : IsFiniteSet(T) /\ Cardinality(T) \in Nat
  BY FS_Subset, FS_CardinalityType
<1>2. Bad = {}
  <2> SUFFICES ASSUME Bad # {} PROVE FALSE
    OBVIOUS
  <2>1. PICK T \in Bad : \A R \in Bad : R \subseteq T => R = T
    <3>1. Bad \subseteq SUBSET S
      OBVIOUS
    <3> HIDE DEF Bad
    <3> QED
      BY <3>1, SmallestSet
  <2>2. T \in SUBSET S /\ IsFiniteSet(T) /\ SumFunctionOnSet(f, T) # Count(T)
    BY <1>1, <2>1
  <2>3. T # {}
    BY <2>2, SumOfNothing, FS_EmptySet
  <2>4. PICK e \in T : TRUE
    BY <2>3
  <2>5. SumFunctionOnSet(f, T \ {e}) = Count(T \ {e})
    BY <2>1, <2>2, <2>4
  <2>6. SumFunctionOnSet(f, T) = v + SumFunctionOnSet(f, T \ {e})
    <3>1. f[e] = v /\ \A x \in T : f[x] \in Nat
      BY <2>2, <2>4
    <3> QED
      BY <2>2, <2>4, <3>1, SumWithout
  <2>7. Cardinality(T \ {e}) = Cardinality(T) - 1 /\ Cardinality(T) \in Nat
    BY <1>1, <2>2, <2>4, FS_RemoveElement
  <2>8. Count(T) = v + Count(T \ {e})
    BY <2>7
  <2> QED
    BY <2>2, <2>5, <2>6, <2>8
<1> QED
  BY <1>2

----------------------------------------------------------------------------
(* The state the tasks share *)

Sources == Destinations \cup Tags \cup {BrokerError}
Entry == [of: Sources, at: Nat]

\* Destinations, finitely many, with a number each.
IsTable(t) == IsFiniteSet(DOMAIN t) /\ t \in [DOMAIN t -> Nat]
Tables == {t \in UNION {[D -> Nat] : D \in SUBSET Destinations} : IsTable(t)}

Apps ==
    [subscriptions: Tables, count: [Tags -> Nat],
     messages: Seq(Entry), errors: Seq(Entry), show_headers: BOOLEAN,
     scroll_offset: Nat, error_scroll_offset: Nat]

\* A ring holds what it can of the n entries made for it, in order, none of
\* them from the future.
RingOK(ring, n, max, t) ==
    /\ ring \in Seq(Entry)
    /\ Len(ring) = AtMost(n, max)
    /\ InOrder(ring)
    /\ \A i \in DOMAIN ring : ring[i].at <= t

\* The newest of all ends one of the two rings.
NewestLast(a, t) ==
    a.messages # <<>> =>
        \/ a.messages[Len(a.messages)].at = t
        \/ a.errors # <<>> /\ a.errors[Len(a.errors)].at = t

\* The user scrolled no further than the last entry.
OffsetsOK(a) ==
    /\ a.scroll_offset <= Less(Len(a.messages), 1)
    /\ a.error_scroll_offset <= Less(Len(a.errors), 1)

\* What holds of the shared state after t entries, of which `errors` went to
\* the error pane and `gone` were cleared.
Panes(a, t, errors, gone) ==
    /\ a \in Apps
    /\ t \in Nat /\ errors \in Nat /\ gone \in Nat /\ gone + errors <= t
    /\ RingOK(a.messages, t - errors - gone, MAX_MESSAGES, t)
    /\ RingOK(a.errors, errors, MAX_ERRORS, t)
    /\ NewestLast(a, t)
    /\ SumFunction(a.subscriptions) + SumFunction(a.count) = t
    /\ OffsetsOK(a)

MainOK ==
    \/ main \in [pc: {"starting"}, todo: Seq(Destinations)]
    \/ main \in [pc: {"prompt", "quitting", "closing", "done"}]
    \/ main \in [pc: {"sending"}, say: {<<"SENT">>, <<"WARN", "SENT">>}]
    \/ main \in [pc: {"asking"}, dest: Destinations]

----------------------------------------------------------------------------
(* The rings *)

\* One more entry: what is left behind it is the end of what was there.
Pushed(new, ring, x, max) ==
    /\ Len(new) = AtMost(Len(ring) + 1, max)
    /\ Len(new) \in Nat \ {0}
    /\ new[Len(new)] = x
    /\ \E gone \in Nat : \A i \in 1..(Len(new) - 1) :
           i + gone \in DOMAIN ring /\ new[i] = ring[i + gone]

LEMMA PushShape ==
    ASSUME NEW S, NEW ring \in Seq(S), NEW x \in S, NEW max \in Nat \ {0},
           Len(ring) <= max
    PROVE  /\ Push(ring, x, max) \in Seq(S)
           /\ Pushed(Push(ring, x, max), ring, x, max)
<1> DEFINE all == Append(ring, x)
           n == Len(ring)
<1>1. /\ n \in Nat /\ all \in Seq(S) /\ Len(all) = n + 1
      /\ all[n + 1] = x
      /\ \A i \in 1..n : all[i] = ring[i]
      /\ DOMAIN ring = 1..n
  BY AppendProperties, LenProperties
<1>2. CASE n + 1 > max
  <2>1. n = max
    <3>1. n \in Nat /\ max \in Nat /\ n <= max /\ n + 1 > max
      BY <1>1, <1>2
    <3> HIDE DEF n
    <3> QED
      BY <3>1
  <2> DEFINE new == SubSeq(all, 2, n + 1)
  <2>2. Push(ring, x, max) = new
    <3>1. n + 1 - max + 1 = 2
      BY <1>1, <2>1
    <3> QED
      BY <1>1, <1>2, <3>1 DEF Push
  <2>3. /\ new \in Seq(S) /\ Len(new) = n
        /\ \A i \in 1..n : new[i] = all[i + 1]
    <3>1. \A i \in 2..(n + 1) : i \in 1..Len(all)
      BY <1>1
    <3>2. /\ Len(new) = IF 2 <= n + 1 THEN (n + 1) - 2 + 1 ELSE 0
          /\ \A i \in 1..((n + 1) - 2 + 1) : new[i] = all[2 + i - 1]
          /\ new \in Seq(S)
      BY <1>1, SubSeqProperties
    <3>3. (n + 1) - 2 + 1 = n /\ 2 <= n + 1
      BY <1>1, <2>1
    <3>4. \A i \in 1..n : 2 + i - 1 = i + 1
      BY <1>1
    <3> HIDE DEF new, all, n
    <3> QED
      BY <3>2, <3>3, <3>4
  <2>4. AtMost(n + 1, max) = n
    BY <1>1, <2>1 DEF AtMost
  <2>5. new[n] = x
    <3>1. n \in 1..n
      BY <1>1, <2>1
    <3> QED
      BY <1>1, <2>3, <3>1
  <2>6. \A i \in 1..(n - 1) : i + 1 \in DOMAIN ring /\ new[i] = ring[i + 1]
    <3> TAKE i \in 1..(n - 1)
    <3>1. i \in 1..n /\ i + 1 \in 1..n
      BY <1>1
    <3> HIDE DEF new, all, n
    <3> QED
      BY <1>1, <2>3, <3>1
  <2>7. n \in Nat \ {0} /\ 1 \in Nat
    BY <1>1, <2>1
  <2> HIDE DEF new, all
  <2> QED
    BY <2>2, <2>3, <2>4, <2>5, <2>6, <2>7 DEF Pushed
<1>3. CASE ~(n + 1 > max)
  <2>1. Push(ring, x, max) = all
    BY <1>1, <1>3 DEF Push
  <2>2. AtMost(n + 1, max) = n + 1
    BY <1>1, <1>3 DEF AtMost
  <2>3. \E gone \in Nat : \A i \in 1..(Len(all) - 1) :
           i + gone \in DOMAIN ring /\ all[i] = ring[i + gone]
    <3>1. \A i \in 1..(Len(all) - 1) :
             i + 0 \in DOMAIN ring /\ all[i] = ring[i + 0]
      BY <1>1
    <3> HIDE DEF all
    <3> QED
      BY <3>1
  <2>4. /\ Len(all) = AtMost(Len(ring) + 1, max) /\ Len(all) \in Nat \ {0}
        /\ all[Len(all)] = x
    BY <1>1, <2>2
  <2> HIDE DEF all
  <2>5. Pushed(all, ring, x, max)
    BY <2>3, <2>4 DEF Pushed
  <2> QED
    BY <1>1, <2>1, <2>5
<1> QED
  BY <1>2, <1>3

\* An entry that is newer than all that a ring holds leaves it in order.
LEMMA PushRing ==
    ASSUME NEW n \in Nat, NEW t \in Nat, NEW max \in Nat \ {0}, NEW ring,
           RingOK(ring, n, max, t), NEW of \in Sources
    PROVE  LET new == Push(ring, [of |-> of, at |-> t + 1], max)
           IN  /\ RingOK(new, n + 1, max, t + 1)
               /\ Len(ring) <= Len(new)
               /\ new # <<>> /\ new[Len(new)].at = t + 1
<1> DEFINE x == [of |-> of, at |-> t + 1]
           new == Push(ring, x, max)
<1>1. x \in Entry /\ x.at = t + 1
  BY DEF Entry
<1>2. /\ ring \in Seq(Entry) /\ Len(ring) \in Nat
      /\ Len(ring) = IF n < max THEN n ELSE max
      /\ \A i \in 2..Len(ring) : ring[i - 1].at < ring[i].at
      /\ \A i \in 1..Len(ring) : ring[i].at <= t
  BY DEF RingOK, InOrder, AtMost
<1>3. Len(ring) <= max
  BY <1>2
<1>4. /\ new \in Seq(Entry)
      /\ Len(new) = AtMost(Len(ring) + 1, max)
      /\ Len(new) \in Nat \ {0}
      /\ new[Len(new)] = x
      /\ \E gone \in Nat : \A i \in 1..(Len(new) - 1) :
             i + gone \in DOMAIN ring /\ new[i] = ring[i + gone]
  <2>1. x \in Entry /\ ring \in Seq(Entry) /\ Len(ring) <= max
    BY <1>1, <1>2, <1>3
  <2> HIDE DEF x
  <2>2. new \in Seq(Entry) /\ Pushed(new, ring, x, max)
    BY <2>1, PushShape
  <2> HIDE DEF new
  <2> QED
    BY <2>2 DEF Pushed
<1> HIDE DEF new, x
<1>5. PICK size : size = Len(new)
  OBVIOUS
<1>6. PICK shift \in Nat : \A i \in 1..(size - 1) :
         i + shift \in 1..Len(ring) /\ new[i] = ring[i + shift]
  <2>1. DOMAIN ring = 1..Len(ring)
    BY <1>2
  <2> QED
    BY <1>4, <1>5, <2>1
<1>0. size \in Nat \ {0} /\ new[size] = x
  BY <1>4, <1>5
<1>7. size = AtMost(n + 1, max) /\ Len(ring) <= size
  <2>1. size = IF Len(ring) + 1 < max THEN Len(ring) + 1 ELSE max
    BY <1>4, <1>5 DEF AtMost
  <2> QED
    BY <1>2, <2>1 DEF AtMost
<1>8. \A i \in 1..size : new[i].at <= t + 1
  <2> TAKE i \in 1..size
  <2>1. CASE i = size
    BY <1>1, <1>0, <1>6, <2>1
  <2>2. CASE i # size
    <3>1. i \in 1..(size - 1)
      BY <1>0, <1>6, <2>2
    <3>2. new[i].at <= t /\ new[i] \in Entry
      <4>1. PICK j \in 1..Len(ring) : new[i] = ring[j]
        BY <1>0, <1>6, <3>1
      <4> QED
        BY <1>2, <4>1
    <3>3. new[i].at \in Nat
      BY <3>2 DEF Entry
    <3> QED
      BY <3>2, <3>3
  <2> QED
    BY <2>1, <2>2
<1>9. \A i \in 2..size : new[i - 1].at < new[i].at
  <2> TAKE i \in 2..size
  <2>1. i - 1 \in 1..(size - 1) /\ new[i - 1] = ring[i - 1 + shift]
        /\ i - 1 + shift \in 1..Len(ring)
    <3>1. i - 1 \in 1..(size - 1)
      BY <1>0, <1>6
    <3> QED
      BY <1>0, <1>6, <3>1
  <2>2. CASE i = size
    <3>1. new[i - 1].at <= t /\ new[i - 1] \in Entry
      BY <1>2, <2>1
    <3>2. new[i - 1].at \in Nat
      BY <3>1 DEF Entry
    <3> QED
      BY <1>1, <1>0, <1>6, <2>2, <3>1, <3>2
  <2>3. CASE i # size
    <3>1. i \in 1..(size - 1)
      BY <1>0, <1>6, <2>3
    <3>2. new[i] = ring[i + shift] /\ i + shift \in 1..Len(ring)
      BY <1>0, <1>6, <3>1
    <3>3. i + shift \in 2..Len(ring) /\ (i + shift) - 1 = i - 1 + shift
      BY <1>2, <1>0, <1>6, <2>1, <3>2
    <3> QED
      BY <1>2, <2>1, <3>2, <3>3
  <2> QED
    BY <2>2, <2>3
<1>10. DOMAIN new = 1..size
  BY <1>4, <1>5
<1>11. RingOK(new, n + 1, max, t + 1)
  BY <1>4, <1>5, <1>7, <1>8, <1>9, <1>10 DEF RingOK, InOrder
<1>12. new # <<>>
  BY <1>4, EmptySeq
<1> QED
  BY <1>1, <1>5, <1>0, <1>6, <1>7, <1>11, <1>12 DEF new, x

\* What is no newer than t is no newer than t + 1.
LEMMA RingLater ==
    ASSUME NEW n, NEW max, NEW ring, NEW t \in Nat, RingOK(ring, n, max, t)
    PROVE  RingOK(ring, n, max, t + 1)
<1>1. ring \in Seq(Entry) /\ \A i \in DOMAIN ring : ring[i].at <= t
  BY DEF RingOK
<1>2. \A i \in DOMAIN ring : ring[i].at \in Nat
  <2>1. \A i \in DOMAIN ring : ring[i] \in Entry
    BY <1>1
  <2>2. \A y \in Entry : y.at \in Nat
    BY DEF Entry
  <2> QED
    BY <2>1, <2>2
<1>3. \A i \in DOMAIN ring : ring[i].at <= t + 1
  BY <1>1, <1>2
<1> QED
  BY <1>3 DEF RingOK

----------------------------------------------------------------------------
(* The state after an entry, a registration, a clear, a key *)

LEMMA TableIs ==
    \A t : t \in Tables <=> DOMAIN t \in SUBSET Destinations /\ IsTable(t)
BY DEF Tables, IsTable

\* Counting for a destination, known or not, adds to the sum of the table.
LEMMA TallyTable ==
    ASSUME NEW a \in Apps, NEW d \in Destinations, NEW more \in Nat
    PROVE  LET new == Tally(a, d, more).subscriptions
           IN  /\ Tally(a, d, more) = [a EXCEPT !.subscriptions = new]
               /\ new \in Tables
               /\ SumFunction(new) = SumFunction(a.subscriptions) + more
<1> DEFINE old == a.subscriptions
           known == DOMAIN old
           all == known \cup {d}
           so_far(e) == IF e \in known THEN old[e] ELSE 0
           new == [e \in all |-> IF e = d THEN so_far(e) + more ELSE so_far(e)]
<1>1. Tally(a, d, more) = [a EXCEPT !.subscriptions = new]
  BY DEF Tally
<1>2. Tally(a, d, more).subscriptions = new
  BY <1>1 DEF Apps
<1>3. /\ known \in SUBSET Destinations /\ IsFiniteSet(known)
      /\ \A x \in known : old[x] \in Nat
  <2>1. old \in Tables
    BY DEF Apps
  <2>2. known \in SUBSET Destinations /\ IsTable(old)
    BY <2>1, TableIs
  <2> QED
    BY <2>2 DEF IsTable
<1>4. \A e \in all : so_far(e) \in Nat
  BY <1>3
<1>5. new \in Tables
  <2>1. IsFiniteSet(all) /\ all \in SUBSET Destinations
    BY <1>3, FS_AddElement
  <2>2. new \in [all -> Nat]
    <3>1. \A e \in all : so_far(e) + more \in Nat
      BY <1>4
    <3> HIDE DEF so_far, all
    <3> QED
      BY <1>4, <3>1
  <2>3. DOMAIN new = all
    OBVIOUS
  <2> HIDE DEF new, all
  <2> QED
    BY <2>1, <2>2, <2>3, TableIs DEF IsTable
<1>6. /\ DOMAIN new = all /\ d \in all
      /\ \A x \in all \ {d} : new[x] = so_far(x)
      /\ new[d] = so_far(d) + more
  OBVIOUS
<1>7. SumFunctionOnSet(new, all) = SumFunctionOnSet(old, known) + more
  <2>1. CASE d \in known
    <3>1. all = known
      BY <2>1
    <3>2. \A x \in known \ {d} : new[x] = old[x]
      BY <1>6, <3>1
    <3>3. new[d] = old[d] + more
      BY <1>6, <2>1
    <3> HIDE DEF new, all, old, known
    <3> QED
      BY <1>3, <2>1, <3>1, <3>2, <3>3, SumGrows
  <2>2. CASE d \notin known
    <3>1. \A x \in known : old[x] \in Nat /\ new[x] = old[x]
      BY <1>3, <1>6, <2>2
    <3>2. new[d] = more
      BY <1>6, <2>2
    <3> HIDE DEF new, old, known
    <3> QED
      BY <1>3, <2>2, <3>1, <3>2, SumOfOneMore
  <2> QED
    BY <2>1, <2>2
<1>8. SumFunction(new) = SumFunctionOnSet(new, all)
      /\ SumFunction(old) = SumFunctionOnSet(old, known)
  <2> HIDE DEF new
  <2> QED
    BY <1>6 DEF SumFunction, SumFunctionOnSet, FoldFunction
<1> HIDE DEF new
<1> QED
  BY <1>1, <1>2, <1>5, <1>7, <1>8

LEMMA Sizes ==
    /\ MAX_MESSAGES \in Nat \ {0} /\ MAX_ERRORS \in Nat \ {0}
    /\ Height \in Nat \ {0} /\ Page \in Nat \ {0}
BY PanesAssumption

\* Between two states that differ by an entry in a pane, the sum of the
\* counters apart, nothing is lost.
LEMMA AddMessage ==
    ASSUME NEW t, NEW errors, NEW gone, NEW a, Panes(a, t, errors, gone),
           NEW of \in Sources, NEW b \in Apps,
           b.messages = Push(a.messages, [of |-> of, at |-> t + 1],
                             MAX_MESSAGES),
           b.errors = a.errors,
           b.scroll_offset = a.scroll_offset,
           b.error_scroll_offset = a.error_scroll_offset,
           SumFunction(b.subscriptions) + SumFunction(b.count) = t + 1
    PROVE  Panes(b, t + 1, errors, gone)
<1>1. /\ t \in Nat /\ errors \in Nat /\ gone \in Nat /\ gone + errors <= t
      /\ RingOK(a.messages, t - errors - gone, MAX_MESSAGES, t)
      /\ RingOK(a.errors, errors, MAX_ERRORS, t)
      /\ OffsetsOK(a)
  BY DEF Panes
<1>2. PICK n : n = t - errors - gone
  OBVIOUS
<1>3. n \in Nat /\ (t + 1) - errors - gone = n + 1
  BY <1>1, <1>2
<1>4. /\ RingOK(b.messages, n + 1, MAX_MESSAGES, t + 1)
      /\ Len(a.messages) <= Len(b.messages)
      /\ b.messages # <<>> /\ b.messages[Len(b.messages)].at = t + 1
  BY <1>1, <1>2, <1>3, Sizes, PushRing
<1>5. RingOK(b.errors, errors, MAX_ERRORS, t + 1)
  BY <1>1, RingLater
<1>6. OffsetsOK(b)
  <2>1. Len(a.messages) \in Nat /\ Len(b.messages) \in Nat
        /\ a.scroll_offset \in Nat
    <3>1. a \in Apps
      BY DEF Panes
    <3> QED
      BY <3>1 DEF Apps
  <2>2. a.scroll_offset <= Less(Len(b.messages), 1)
    BY <1>1, <1>4, <2>1 DEF OffsetsOK, Less
  <2> QED
    BY <1>1, <2>2 DEF OffsetsOK
<1>7. NewestLast(b, t + 1)
  BY <1>4 DEF NewestLast
<1>8. t + 1 \in Nat /\ gone + errors <= t + 1
  BY <1>1
<1> QED
  BY <1>1, <1>3, <1>4, <1>5, <1>6, <1>7, <1>8 DEF Panes

LEMMA AddError ==
    ASSUME NEW t, NEW errors, NEW gone, NEW a, Panes(a, t, errors, gone),
           NEW b \in Apps,
           b.errors = Push(a.errors, [of |-> BrokerError, at |-> t + 1],
                           MAX_ERRORS),
           b.messages = a.messages,
           b.scroll_offset = a.scroll_offset,
           b.error_scroll_offset = a.error_scroll_offset,
           SumFunction(b.subscriptions) + SumFunction(b.count) = t + 1
    PROVE  Panes(b, t + 1, errors + 1, gone)
<1>1. /\ t \in Nat /\ errors \in Nat /\ gone \in Nat /\ gone + errors <= t
      /\ RingOK(a.messages, t - errors - gone, MAX_MESSAGES, t)
      /\ RingOK(a.errors, errors, MAX_ERRORS, t)
      /\ OffsetsOK(a)
  BY DEF Panes
<1>2. (t + 1) - (errors + 1) - gone = t - errors - gone
  <2>1. \A x, y, z \in Nat : (x + 1) - (y + 1) - z = x - y - z
    OBVIOUS
  <2> QED
    BY <1>1, <2>1
<1>3. PICK of : of = BrokerError /\ of \in Sources
  BY DEF Sources
<1>4. /\ RingOK(b.errors, errors + 1, MAX_ERRORS, t + 1)
      /\ Len(a.errors) <= Len(b.errors)
      /\ b.errors # <<>> /\ b.errors[Len(b.errors)].at = t + 1
  <2>1. b.errors = Push(a.errors, [of |-> of, at |-> t + 1], MAX_ERRORS)
    BY <1>3
  <2>2. of \in Sources /\ t \in Nat /\ errors \in Nat
        /\ RingOK(a.errors, errors, MAX_ERRORS, t) /\ MAX_ERRORS \in Nat \ {0}
    BY <1>1, <1>3, Sizes
  <2> QED
    BY <2>1, <2>2, PushRing
<1>5. RingOK(b.messages, t - errors - gone, MAX_MESSAGES, t + 1)
  BY <1>1, RingLater
<1>6. OffsetsOK(b)
  <2>1. Len(a.errors) \in Nat /\ Len(b.errors) \in Nat
        /\ a.error_scroll_offset \in Nat
    <3>1. a \in Apps
      BY DEF Panes
    <3> QED
      BY <3>1 DEF Apps
  <2>2. a.error_scroll_offset <= Less(Len(b.errors), 1)
    BY <1>1, <1>4, <2>1 DEF OffsetsOK, Less
  <2> QED
    BY <1>1, <2>2 DEF OffsetsOK
<1>7. NewestLast(b, t + 1)
  BY <1>4 DEF NewestLast
<1>8. t + 1 \in Nat /\ errors + 1 \in Nat /\ gone + (errors + 1) <= t + 1
  BY <1>1
<1> QED
  BY <1>1, <1>2, <1>4, <1>5, <1>6, <1>7, <1>8 DEF Panes

\* A counter that goes up by one.
LEMMA CountOneMore ==
    ASSUME NEW a \in Apps, NEW tag \in Tags
    PROVE  LET new == [a.count EXCEPT ![tag] = @ + 1]
           IN  /\ new \in [Tags -> Nat]
               /\ SumFunction(new) = SumFunction(a.count) + 1
<1> DEFINE old == a.count
           new == [old EXCEPT ![tag] = @ + 1]
<1>1. old \in [Tags -> Nat] /\ DOMAIN old = Tags /\ old[tag] \in Nat
  BY DEF Apps
<1>2. new \in [Tags -> Nat] /\ DOMAIN new = Tags
  BY <1>1
<1>3. new[tag] = old[tag] + 1 /\ \A x \in Tags \ {tag} : new[x] = old[x]
  BY <1>1
<1>4. IsFiniteSet(Tags)
  <2>1. Tags =
        ((({} \cup {"SENT"}) \cup {"ERROR"}) \cup {"WARN"}) \cup {"INFO"}
    BY DEF Tags
  <2> QED
    BY <2>1, FS_EmptySet, FS_AddElement
<1> HIDE DEF new, old
<1>5. \A x \in Tags : old[x] \in Nat
  BY <1>1
<1>6. SumFunctionOnSet(new, Tags) = SumFunctionOnSet(old, Tags) + 1
  <2>1. 1 \in Nat
    OBVIOUS
  <2> QED
    BY <1>3, <1>4, <1>5, <2>1, SumGrows
<1>7. SumFunction(new) = SumFunctionOnSet(new, Tags)
      /\ SumFunction(old) = SumFunctionOnSet(old, Tags)
  BY <1>1, <1>2 DEF SumFunction, SumFunctionOnSet, FoldFunction
<1>8. SumFunction(new) = SumFunction(old) + 1
  BY <1>6, <1>7
<1> QED
  BY <1>2, <1>8 DEF new, old

\* The sums are numbers.
LEMMA SumsAreNat ==
    ASSUME NEW a \in Apps
    PROVE  SumFunction(a.subscriptions) \in Nat /\ SumFunction(a.count) \in Nat
<1>1. SumFunction(a.subscriptions) \in Nat
  <2>1. PICK old : old = a.subscriptions
    OBVIOUS
  <2>2. IsTable(old)
    BY <2>1, TableIs DEF Apps
  <2>3. SumFunctionOnSet(old, DOMAIN old) \in Nat
    BY <2>2, SumType DEF IsTable
  <2> QED
    BY <2>1, <2>3 DEF SumFunction, SumFunctionOnSet, FoldFunction
<1>2. SumFunction(a.count) \in Nat
  <2>1. PICK old : old = a.count
    OBVIOUS
  <2>2. old \in [Tags -> Nat]
    BY <2>1 DEF Apps
  <2>3. IsFiniteSet(Tags)
    <3>1. Tags =
        ((({} \cup {"SENT"}) \cup {"ERROR"}) \cup {"WARN"}) \cup {"INFO"}
      BY DEF Tags
    <3> QED
      BY <3>1, FS_EmptySet, FS_AddElement
  <2>4. \A x \in Tags : old[x] \in Nat
    BY <2>2
  <2>5. SumFunctionOnSet(old, Tags) \in Nat
    BY <2>3, <2>4, SumType
  <2>6. DOMAIN old = Tags
    BY <2>2
  <2> QED
    BY <2>1, <2>5, <2>6 DEF SumFunction, SumFunctionOnSet, FoldFunction
<1> QED
  BY <1>1, <1>2

----------------------------------------------------------------------------
(* Every operation keeps the panes in order *)

\* An entry: of a broker's error, of what the client says, or of a MESSAGE.
LEMMA RecordKeeps ==
    ASSUME NEW t, NEW errors, NEW gone, NEW a, Panes(a, t, errors, gone),
           NEW of \in Sources
    PROVE  Panes(record_message(a, of, t + 1), t + 1,
                 IF of = BrokerError THEN errors + 1 ELSE errors, gone)
<1>1. a \in Apps /\ t \in Nat
      /\ SumFunction(a.subscriptions) + SumFunction(a.count) = t
  BY DEF Panes
<1>2. /\ a.subscriptions \in Tables /\ a.count \in [Tags -> Nat]
      /\ a.messages \in Seq(Entry) /\ a.errors \in Seq(Entry)
  BY <1>1 DEF Apps
<1>3. PICK p, q \in Nat : /\ p = SumFunction(a.subscriptions)
                          /\ q = SumFunction(a.count)
  BY <1>1, SumsAreNat
<1>4. p + q = t /\ p + (q + 1) = t + 1 /\ (p + 1) + q = t + 1
  BY <1>1, <1>3
<1>5. PICK entry : entry = [of |-> of, at |-> t + 1]
  OBVIOUS
<1>6. /\ \E m : m = Push(a.messages, entry, MAX_MESSAGES) /\ m \in Seq(Entry)
      /\ \E m : m = Push(a.errors, entry, MAX_ERRORS) /\ m \in Seq(Entry)
  <2>1. entry \in Entry
    BY <1>1, <1>5 DEF Entry
  <2>2. Len(a.messages) <= MAX_MESSAGES /\ Len(a.errors) <= MAX_ERRORS
    <3>1. \A x \in Nat, y \in Nat : AtMost(x, y) <= y
      BY DEF AtMost
    <3>2. /\ t - errors - gone \in Nat /\ errors \in Nat
          /\ Len(a.messages) = AtMost(t - errors - gone, MAX_MESSAGES)
          /\ Len(a.errors) = AtMost(errors, MAX_ERRORS)
      BY DEF Panes, RingOK
    <3> QED
      BY <3>1, <3>2, Sizes
  <2> QED
    BY <1>2, <2>1, <2>2, Sizes, PushShape
<1>7. PICK ms : ms = Push(a.messages, entry, MAX_MESSAGES) /\ ms \in Seq(Entry)
  BY <1>6
<1>8. PICK es : es = Push(a.errors, entry, MAX_ERRORS) /\ es \in Seq(Entry)
  BY <1>6
<1>9. CASE of = BrokerError
  <2>1. PICK c : c = [a.count EXCEPT !["ERROR"] = @ + 1]
    OBVIOUS
  <2>2. c \in [Tags -> Nat] /\ SumFunction(c) = SumFunction(a.count) + 1
    BY <1>1, <2>1, CountOneMore DEF Tags
  <2>3. PICK b : b = [a EXCEPT !.count = c, !.errors = es]
    OBVIOUS
  <2>4. record_message(a, of, t + 1) = b
    BY <1>5, <1>8, <1>9, <2>1, <2>3 DEF record_message, record_error
  <2>5. /\ b \in Apps /\ b.count = c /\ b.errors = es
        /\ b.subscriptions = a.subscriptions /\ b.messages = a.messages
        /\ b.scroll_offset = a.scroll_offset
        /\ b.error_scroll_offset = a.error_scroll_offset
    BY <1>1, <1>8, <2>2, <2>3 DEF Apps
  <2>6. SumFunction(b.subscriptions) + SumFunction(b.count) = t + 1
    BY <1>3, <1>4, <2>2, <2>5
  <2>7. Panes(b, t + 1, errors + 1, gone)
    BY <1>5, <1>8, <1>9, <2>5, <2>6, AddError
  <2> QED
    BY <1>9, <2>4, <2>7
<1>10. CASE of # BrokerError
  <2>1. record_message(a, of, t + 1) = Recorded(a, of, t + 1)
    BY <1>10 DEF record_message
  <2>2. SUFFICES Panes(Recorded(a, of, t + 1), t + 1, errors, gone)
    BY <1>10, <2>1
  <2>3. CASE of \in Tags
    <3>1. PICK c : c = [a.count EXCEPT ![of] = @ + 1]
      OBVIOUS
    <3>2. c \in [Tags -> Nat] /\ SumFunction(c) = SumFunction(a.count) + 1
      BY <1>1, <2>3, <3>1, CountOneMore
    <3>3. PICK b : b = [a EXCEPT !.count = c, !.messages = ms]
      OBVIOUS
    <3>4. Recorded(a, of, t + 1) = b
      BY <1>1, <1>5, <1>7, <2>3, <3>1, <3>3 DEF Recorded, Apps
    <3>5. /\ b \in Apps /\ b.count = c /\ b.messages = ms
          /\ b.subscriptions = a.subscriptions /\ b.errors = a.errors
          /\ b.scroll_offset = a.scroll_offset
          /\ b.error_scroll_offset = a.error_scroll_offset
      BY <1>1, <1>7, <3>2, <3>3 DEF Apps
    <3>6. SumFunction(b.subscriptions) + SumFunction(b.count) = t + 1
      BY <1>3, <1>4, <3>2, <3>5
    <3>7. Panes(b, t + 1, errors, gone)
      BY <1>5, <1>7, <3>5, <3>6, AddMessage
    <3> QED
      BY <3>4, <3>7
  <2>4. CASE of \notin Tags
    <3>1. of \in Destinations
      BY <1>10, <2>4 DEF Sources
    <3>2. PICK s : s = Tally(a, of, 1).subscriptions
      OBVIOUS
    <3>3. /\ Tally(a, of, 1) = [a EXCEPT !.subscriptions = s] /\ s \in Tables
          /\ SumFunction(s) = SumFunction(a.subscriptions) + 1
      <4>1. 1 \in Nat
        OBVIOUS
      <4> QED
        BY <1>1, <3>1, <3>2, <4>1, TallyTable
    <3>4. PICK b : b = [a EXCEPT !.subscriptions = s, !.messages = ms]
      OBVIOUS
    <3>5. Recorded(a, of, t + 1) = b
      BY <1>1, <1>5, <1>7, <2>4, <3>3, <3>4 DEF Recorded, Apps
    <3>6. /\ b \in Apps /\ b.subscriptions = s /\ b.messages = ms
          /\ b.count = a.count /\ b.errors = a.errors
          /\ b.scroll_offset = a.scroll_offset
          /\ b.error_scroll_offset = a.error_scroll_offset
      BY <1>1, <1>7, <3>3, <3>4 DEF Apps
    <3>7. SumFunction(b.subscriptions) + SumFunction(b.count) = t + 1
      BY <1>3, <1>4, <3>3, <3>6
    <3>8. Panes(b, t + 1, errors, gone)
      BY <1>5, <1>7, <3>6, <3>7, AddMessage
    <3> QED
      BY <3>5, <3>8
  <2> QED
    BY <2>3, <2>4
<1> QED
  BY <1>9, <1>10

\* A destination that becomes known counts for nothing.
LEMMA RegisterKeeps ==
    ASSUME NEW t, NEW errors, NEW gone, NEW a, Panes(a, t, errors, gone),
           NEW d \in Destinations
    PROVE  Panes(register_subscription(a, d), t, errors, gone)
<1>1. a \in Apps
      /\ SumFunction(a.subscriptions) + SumFunction(a.count) = t
  BY DEF Panes
<1>2. PICK s : s = Tally(a, d, 0).subscriptions
  OBVIOUS
<1>3. /\ Tally(a, d, 0) = [a EXCEPT !.subscriptions = s] /\ s \in Tables
      /\ SumFunction(s) = SumFunction(a.subscriptions) + 0
  <2>1. 0 \in Nat
    OBVIOUS
  <2> QED
    BY <1>1, <1>2, <2>1, TallyTable
<1>4. PICK b : b = [a EXCEPT !.subscriptions = s]
  OBVIOUS
<1>5. /\ b \in Apps /\ b.subscriptions = s /\ b.count = a.count
      /\ b.messages = a.messages /\ b.errors = a.errors
      /\ b.scroll_offset = a.scroll_offset
      /\ b.error_scroll_offset = a.error_scroll_offset
  BY <1>1, <1>3, <1>4 DEF Apps
<1>6. SumFunction(b.subscriptions) + SumFunction(b.count) = t
  <2>1. SumFunction(a.subscriptions) \in Nat
    BY <1>1, SumsAreNat
  <2>2. SumFunction(s) = SumFunction(a.subscriptions)
    BY <1>3, <2>1
  <2> QED
    BY <1>1, <1>5, <2>2
<1>7. OffsetsOK(b) /\ NewestLast(b, t)
  BY <1>5 DEF Panes, OffsetsOK, NewestLast
<1>8. register_subscription(a, d) = b
  BY <1>3, <1>4 DEF register_subscription
<1>9. Panes(b, t, errors, gone)
  BY <1>5, <1>6, <1>7 DEF Panes
<1> QED
  BY <1>8, <1>9

\* A clear leaves the errors, and starts the messages anew.
LEMMA ClearKeeps ==
    ASSUME NEW t, NEW errors, NEW gone, NEW a, Panes(a, t, errors, gone)
    PROVE  Panes(clear_messages(a), t, errors, t - errors)
<1>1. /\ a \in Apps /\ t \in Nat /\ errors \in Nat /\ gone \in Nat
      /\ gone + errors <= t /\ OffsetsOK(a)
  BY DEF Panes
<1>2. PICK b : b = clear_messages(a)
  OBVIOUS
<1>3. <<>> \in Seq(Entry) /\ Len(<<>>) = 0
  BY EmptySeq
<1>4. /\ b \in Apps /\ b.subscriptions = a.subscriptions /\ b.count = a.count
      /\ b.messages = <<>> /\ b.errors = a.errors
      /\ b.scroll_offset = 0
      /\ b.error_scroll_offset = a.error_scroll_offset
  BY <1>1, <1>2, <1>3 DEF Apps, clear_messages
<1>5. t - errors \in Nat /\ (t - errors) + errors <= t
      /\ t - errors - (t - errors) = 0
  BY <1>1
<1>6. RingOK(b.messages, 0, MAX_MESSAGES, t)
  <2>1. AtMost(0, MAX_MESSAGES) = 0
    BY Sizes DEF AtMost
  <2>2. InOrder(<<>>)
    BY <1>3 DEF InOrder
  <2>3. \A i \in DOMAIN <<>> : <<>>[i].at <= t
    BY <1>3, LenProperties
  <2> QED
    BY <1>3, <1>4, <2>1, <2>2, <2>3 DEF RingOK
<1>7. NewestLast(b, t)
  BY <1>4 DEF NewestLast
<1>8. OffsetsOK(b)
  <2>1. 0 <= Less(Len(b.messages), 1)
    BY <1>3, <1>4 DEF Less
  <2> QED
    BY <1>1, <1>4, <2>1 DEF OffsetsOK
<1>9. RingOK(b.messages, t - errors - (t - errors), MAX_MESSAGES, t)
  BY <1>5, <1>6
<1>10. SumFunction(b.subscriptions) + SumFunction(b.count) = t
       /\ RingOK(b.errors, errors, MAX_ERRORS, t)
  BY <1>4 DEF Panes
<1>11. Panes(b, t, errors, t - errors)
  BY <1>1, <1>4, <1>5, <1>7, <1>8, <1>9, <1>10 DEF Panes
<1> QED
  BY <1>2, <1>11

\* Moving up or down by z, an offset stays where it may be.
LEMMA Moves ==
    ASSUME NEW x \in Nat, NEW y \in Nat, NEW z \in Nat, x <= Less(y, 1), NEW p,
           \/ p = Less(x, z)
           \/ p = AtMost(x + z, Less(y, 1))
           \/ p = IF x < Less(y, 1) THEN x + 1 ELSE x
    PROVE  p \in Nat /\ p <= Less(y, 1)
<1>1. PICK last \in Nat : last = Less(y, 1)
  BY DEF Less
<1>2. x <= last
  BY <1>1
<1>3. CASE p = Less(x, z)
  <2>1. p \in Nat /\ p <= x
    BY <1>3 DEF Less
  <2>2. p \in Nat /\ p <= last
    BY <1>2, <2>1
  <2> QED
    BY <1>1, <2>2
<1>4. CASE p = AtMost(x + z, last)
  <2>1. p \in Nat /\ p <= last
    BY <1>4 DEF AtMost
  <2> QED
    BY <1>1, <2>1
<1>5. CASE p = IF x < last THEN x + 1 ELSE x
  <2>1. p \in Nat /\ p <= last
    BY <1>2, <1>5
  <2> QED
    BY <1>1, <2>1
<1> QED
  BY <1>1, <1>3, <1>4, <1>5

\* The keys move the offsets, and keep them within the panes.
LEMMA ScrollKeeps ==
    ASSUME NEW t, NEW errors, NEW gone, NEW a, Panes(a, t, errors, gone),
           NEW b \in ScrollKeys(a)
    PROVE  Panes(b, t, errors, gone)
<1>1. a \in Apps /\ OffsetsOK(a)
  BY DEF Panes
<1>2. /\ a.scroll_offset \in Nat /\ a.error_scroll_offset \in Nat
      /\ a.show_headers \in BOOLEAN
      /\ Len(a.messages) \in Nat /\ Len(a.errors) \in Nat
  BY <1>1 DEF Apps
<1>3. PICK p, q, h : p = b.scroll_offset /\ q = b.error_scroll_offset
                     /\ h = b.show_headers
  OBVIOUS
<1>4. /\ b = [a EXCEPT !.scroll_offset = p, !.error_scroll_offset = q,
                       !.show_headers = h]
      /\ p \in Nat /\ p <= Less(Len(a.messages), 1)
      /\ q \in Nat /\ q <= Less(Len(a.errors), 1)
      /\ h \in BOOLEAN
  <2>1. /\ a.scroll_offset <= Less(Len(a.messages), 1)
        /\ a.error_scroll_offset <= Less(Len(a.errors), 1)
    BY <1>1 DEF OffsetsOK
  <2>2. 1 \in Nat /\ Page \in Nat
    BY Sizes
  <2>3. CASE b \in {ctrl_up(a), page_up(a), ctrl_down(a), page_down(a)}
    <3>1. /\ b = [a EXCEPT !.scroll_offset = p]
          /\ q = a.error_scroll_offset /\ h = a.show_headers
      BY <1>1, <1>3, <2>3
         DEF Apps, ctrl_up, page_up, ctrl_down, page_down
    <3>2. PICK o, n : o = a.scroll_offset /\ n = Len(a.messages)
      OBVIOUS
    <3>3. \/ p = Less(o, 1)
          \/ p = Less(o, Page)
          \/ p = AtMost(o + Page, Less(n, 1))
          \/ p = IF o < Less(n, 1) THEN o + 1 ELSE o
      BY <1>1, <1>3, <2>3, <3>2
         DEF Apps, ctrl_up, page_up, ctrl_down, page_down
    <3>4. o \in Nat /\ n \in Nat /\ o <= Less(n, 1)
      BY <1>2, <2>1, <3>2
    <3>5. p \in Nat /\ p <= Less(n, 1)
      <4>1. CASE p = Less(o, 1)
        BY <2>2, <3>4, <4>1, Moves
      <4>2. CASE p # Less(o, 1)
        BY <2>2, <3>3, <3>4, <4>2, Moves
      <4> QED
        BY <4>1, <4>2
    <3>6. p \in Nat /\ p <= Less(Len(a.messages), 1)
      BY <3>2, <3>5
    <3> QED
      BY <1>1, <1>2, <2>1, <3>1, <3>6 DEF Apps
  <2>4. CASE b \in {ctrl_e(a), ctrl_d(a)}
    <3>1. /\ b = [a EXCEPT !.error_scroll_offset = q]
          /\ p = a.scroll_offset /\ h = a.show_headers
      BY <1>1, <1>3, <2>4 DEF Apps, ctrl_e, ctrl_d
    <3>2. PICK o, n : o = a.error_scroll_offset /\ n = Len(a.errors)
      OBVIOUS
    <3>3. \/ q = Less(o, 1)
          \/ q = IF o < Less(n, 1) THEN o + 1 ELSE o
      BY <1>1, <1>3, <2>4, <3>2 DEF Apps, ctrl_e, ctrl_d
    <3>4. o \in Nat /\ n \in Nat /\ o <= Less(n, 1)
      BY <1>2, <2>1, <3>2
    <3>5. q \in Nat /\ q <= Less(n, 1)
      BY <2>2, <3>3, <3>4, Moves
    <3>6. q \in Nat /\ q <= Less(Len(a.errors), 1)
      BY <3>2, <3>5
    <3> QED
      BY <1>1, <1>2, <2>1, <3>1, <3>6 DEF Apps
  <2>5. CASE b = toggle_headers(a)
    <3>1. /\ b = [a EXCEPT !.show_headers = h] /\ h = ~a.show_headers
          /\ p = a.scroll_offset /\ q = a.error_scroll_offset
      BY <1>1, <1>3, <2>5 DEF Apps, toggle_headers
    <3>2. h \in BOOLEAN
      BY <3>1
    <3> QED
      BY <1>1, <1>2, <2>1, <3>1, <3>2 DEF Apps
  <2> QED
    BY <2>3, <2>4, <2>5 DEF ScrollKeys
<1>5. /\ b \in Apps /\ b.subscriptions = a.subscriptions
      /\ b.count = a.count /\ b.messages = a.messages
      /\ b.errors = a.errors
  BY <1>1, <1>4 DEF Apps
<1>6. OffsetsOK(b)
  BY <1>3, <1>4, <1>5 DEF OffsetsOK
<1>7. NewestLast(b, t)
  BY <1>5 DEF Panes, NewestLast
<1> QED
  BY <1>5, <1>6, <1>7 DEF Panes

\* Nothing recorded, nothing counted.
LEMMA NewAppKept == Panes(NewApp, 0, 0, 0)
<1>1. /\ <<>> \in Seq(Entry) /\ Len(<<>>) = 0 /\ DOMAIN <<>> = {}
  BY EmptySeq, LenProperties
<1>2. <<>> \in Tables
  <2>1. DOMAIN <<>> \in SUBSET Destinations
    BY <1>1
  <2>2. IsFiniteSet(DOMAIN <<>>)
    BY <1>1, FS_EmptySet
  <2>3. <<>> \in [DOMAIN <<>> -> Nat]
    BY <1>1
  <2> QED
    BY <2>1, <2>2, <2>3, TableIs DEF IsTable
<1>3. NewApp \in Apps
  BY <1>1, <1>2 DEF NewApp, Apps
<1>4. /\ NewApp.subscriptions = <<>> /\ NewApp.count = [x \in Tags |-> 0]
      /\ NewApp.messages = <<>> /\ NewApp.errors = <<>>
      /\ NewApp.scroll_offset = 0 /\ NewApp.error_scroll_offset = 0
  BY DEF NewApp
<1>5. SumFunction(NewApp.subscriptions) = 0
  <2>1. PICK s : s = NewApp.subscriptions /\ DOMAIN s = {}
    BY <1>1, <1>4
  <2>2. SumFunctionOnSet(s, {}) = 0
    BY SumOfNothing
  <2> QED
    BY <2>1, <2>2 DEF SumFunction, SumFunctionOnSet, FoldFunction
<1>6. SumFunction(NewApp.count) = 0
  <2>1. PICK c : c = NewApp.count /\ DOMAIN c = Tags
                 /\ \A x \in Tags : c[x] = 0
    BY <1>4
  <2>2. IsFiniteSet(Tags)
    <3>1. Tags =
        ((({} \cup {"SENT"}) \cup {"ERROR"}) \cup {"WARN"}) \cup {"INFO"}
      BY DEF Tags
    <3> QED
      BY <3>1, FS_EmptySet, FS_AddElement
  <2>3. SumFunctionOnSet(c, Tags) = 0
    <3>1. 0 \in {0, 1}
      OBVIOUS
    <3> QED
      BY <2>1, <2>2, <3>1, SumOfEqual
  <2> QED
    BY <2>1, <2>3 DEF SumFunction, SumFunctionOnSet, FoldFunction
<1>7. \A max \in Nat \ {0} : RingOK(<<>>, 0, max, 0)
  <2>1. \A max \in Nat \ {0} : AtMost(0, max) = 0
    BY DEF AtMost
  <2>2. InOrder(<<>>)
    BY <1>1 DEF InOrder
  <2>3. \A i \in DOMAIN <<>> : <<>>[i].at <= 0
    BY <1>1
  <2> QED
    BY <1>1, <2>1, <2>2, <2>3 DEF RingOK
<1>8. /\ 0 - 0 - 0 = 0 /\ 0 + 0 <= 0 /\ 0 + 0 = 0 /\ 0 \in Nat
  OBVIOUS
<1>9. NewestLast(NewApp, 0) /\ OffsetsOK(NewApp)
  <2>1. Less(0, 1) = 0
    BY DEF Less
  <2> QED
    BY <1>1, <1>4, <2>1 DEF NewestLast, OffsetsOK
<1>10. /\ RingOK(NewApp.messages, 0, MAX_MESSAGES, 0)
       /\ RingOK(NewApp.errors, 0, MAX_ERRORS, 0)
       /\ SumFunction(NewApp.subscriptions) + SumFunction(NewApp.count) = 0
  BY <1>4, <1>5, <1>6, <1>7, <1>8, Sizes
<1> QED
  BY <1>3, <1>8, <1>9, <1>10 DEF Panes

----------------------------------------------------------------------------
(* Entries recorded one after the other: no step records more than two.      *)

After(state, sources, n) ==
    FoldLeft(LAMBDA a, i : record_message(a, sources[i], n + i),
             state, [i \in DOMAIN sources |-> i])

Step(state, sources, n, i) == record_message(state, sources[i], n + i)

Steps(it, state, sources, n, at) ==
    it = [s \in SUBSET DOMAIN at |->
             IF s = {} THEN state
             ELSE Step(it[s \ {Max(s)}], sources, n, at[Max(s)])]

LEMMA AfterIsChosen ==
    ASSUME NEW state, NEW sources, NEW n
    PROVE  LET at == [i \in DOMAIN sources |-> i]
           IN  After(state, sources, n) =
                 (CHOOSE it : Steps(it, state, sources, n, at))[DOMAIN at]
BY DEF After, FoldLeft, MapThenFoldSet, Steps, Step

LEMMA Maxima == Max({1}) = 1 /\ Max({2}) = 2 /\ Max({1, 2}) = 2
BY DEF Max

\* What is recorded is recorded in order.
LEMMA AfterIs ==
    ASSUME NEW state, NEW sources \in Seq(Sources), Len(sources) <= 2,
           NEW n \in Nat
    PROVE  After(state, sources, n) =
               IF Len(sources) = 0 THEN state
               ELSE IF Len(sources) = 1 THEN Step(state, sources, n, 1)
               ELSE Step(Step(state, sources, n, 1), sources, n, 2)
<1> DEFINE at == [i \in DOMAIN sources |-> i]
           D == DOMAIN at
           it == CHOOSE it : Steps(it, state, sources, n, at)
           one == Step(state, sources, n, 1)
           two == Step(one, sources, n, 2)
           alone == Step(state, sources, n, 2)
           sol == [s \in SUBSET D |->
                      IF s = {} THEN state
                      ELSE IF s = {1} THEN one
                      ELSE IF s = {1, 2} THEN two ELSE alone]
<1>1. /\ Len(sources) \in {0, 1, 2}
      /\ D = 1..Len(sources)
      /\ D \in {{}, {1}, {1, 2}}
      /\ \A i \in D : at[i] = i
  <2>1. Len(sources) \in {0, 1, 2} /\ D = 1..Len(sources)
    <3>1. Len(sources) \in Nat /\ DOMAIN sources = 1..Len(sources)
      OBVIOUS
    <3>2. Len(sources) \in {0, 1, 2}
      BY <3>1
    <3>3. D = DOMAIN sources
      OBVIOUS
    <3> QED
      BY <3>1, <3>2, <3>3
  <2>2. 1..0 = {} /\ 1..1 = {1} /\ 1..2 = {1, 2}
    OBVIOUS
  <2> QED
    BY <2>1, <2>2
<1>2. \A s \in SUBSET D : s \in {{}, {1}, {2}, {1, 2}}
  <2>1. D \in {{}, {1}, {1, 2}}
    BY <1>1
  <2> HIDE DEF D
  <2> QED
    BY <2>1
<1>3. Steps(sol, state, sources, n, at)
  <2>1. ASSUME NEW s \in SUBSET D
        PROVE  sol[s] = IF s = {} THEN state
                        ELSE Step(sol[s \ {Max(s)}], sources, n, at[Max(s)])
    <3>1. CASE s = {}
      BY <3>1
    <3>2. CASE s = {1}
      <4>1. /\ Max(s) = 1 /\ s \ {Max(s)} = {} /\ {} \in SUBSET D
            /\ at[1] = 1
        BY <1>1, <2>1, <3>2, Maxima
      <4>2. sol[{}] = state
        BY <4>1
      <4>3. sol[s] = one
        BY <2>1, <3>2
      <4> HIDE DEF sol, at
      <4> QED
        BY <3>2, <4>1, <4>2, <4>3
    <3>3. CASE s = {2}
      <4>1. /\ Max(s) = 2 /\ s \ {Max(s)} = {} /\ {} \in SUBSET D
            /\ at[2] = 2
        BY <1>1, <2>1, <3>3, Maxima
      <4>2. sol[{}] = state
        BY <4>1
      <4>3. sol[s] = alone
        BY <2>1, <3>3
      <4> HIDE DEF sol, at
      <4> QED
        BY <3>3, <4>1, <4>2, <4>3
    <3>4. CASE s = {1, 2}
      <4>1. /\ Max(s) = 2 /\ s \ {Max(s)} = {1} /\ {1} \in SUBSET D
            /\ at[2] = 2
        BY <1>1, <2>1, <3>4, Maxima
      <4>2. sol[{1}] = one
        BY <4>1
      <4>3. sol[s] = two
        BY <2>1, <3>4
      <4> HIDE DEF sol, at
      <4> QED
        BY <3>4, <4>1, <4>2, <4>3
    <3> QED
      BY <1>2, <2>1, <3>1, <3>2, <3>3, <3>4
  <2> HIDE DEF at
  <2> QED
    BY <2>1 DEF Steps
<1>4. Steps(it, state, sources, n, at)
  <2> HIDE DEF sol, at
  <2> QED
    BY <1>3
<1>5. \A s \in SUBSET D :
         it[s] = IF s = {} THEN state
                 ELSE Step(it[s \ {Max(s)}], sources, n, at[Max(s)])
  <2>1. ASSUME NEW f, Steps(f, state, sources, n, at)
        PROVE  \A s \in SUBSET D :
                 f[s] = IF s = {} THEN state
                        ELSE Step(f[s \ {Max(s)}], sources, n, at[Max(s)])
    <3> HIDE DEF at
    <3> QED
      BY <2>1 DEF Steps
  <2> HIDE DEF it, at
  <2> QED
    BY <1>4, <2>1
<1>6. After(state, sources, n) = it[D]
  BY AfterIsChosen
<1> HIDE DEF it, at
<1>7. it[{}] = state
  BY <1>5
<1>8. CASE D = {}
  <2>1. Len(sources) = 0
    BY <1>1, <1>8
  <2> QED
    BY <1>6, <1>7, <1>8, <2>1
<1>9. D # {} => it[{1}] = one
  <2> SUFFICES ASSUME D # {} PROVE it[{1}] = one
    OBVIOUS
  <2>1. 1 \in D /\ at[1] = 1 /\ {1} \in SUBSET D /\ {1} \ {1} = {}
    BY <1>1
  <2> QED
    BY <1>5, <1>7, <2>1, Maxima
<1>10. CASE D = {1}
  <2>1. Len(sources) = 1
    BY <1>1, <1>10
  <2> QED
    BY <1>6, <1>9, <1>10, <2>1
<1>11. CASE D = {1, 2}
  <2>1. Len(sources) = 2
    BY <1>1, <1>11
  <2>2. at[2] = 2 /\ {1, 2} \in SUBSET D /\ {1, 2} \ {2} = {1}
    BY <1>1, <1>11
  <2>3. it[{1, 2}] = two
    BY <1>5, <1>9, <1>11, <2>2, Maxima
  <2> QED
    BY <1>6, <1>11, <2>1, <2>3
<1> QED
  BY <1>1, <1>8, <1>10, <1>11

LEMMA TagIsNoBroker == BrokerError \notin Tags
BY DEF BrokerError, Tags

\* One entry.
LEMMA OneKeeps ==
    ASSUME NEW t, NEW errors, NEW gone, NEW a, Panes(a, t, errors, gone),
           NEW of \in Sources
    PROVE  Panes(After(a, <<of>>, t), t + Len(<<of>>),
                 IF of = BrokerError THEN errors + 1 ELSE errors, gone)
<1>1. PICK sources : sources = <<of>>
  OBVIOUS
<1>2. sources \in Seq(Sources) /\ Len(sources) = 1 /\ sources[1] = of
  BY <1>1
<1>3. t \in Nat
  BY DEF Panes
<1>4. After(a, sources, t) = record_message(a, of, t + 1)
  <2>1. Len(sources) <= 2 /\ Len(sources) # 0
    BY <1>2
  <2>2. After(a, sources, t) = Step(a, sources, t, 1)
    BY <1>2, <1>3, <2>1, AfterIs
  <2> QED
    BY <1>2, <2>2 DEF Step
<1> QED
  BY <1>1, <1>2, <1>4, RecordKeeps

\* What the client has to say.
LEMMA SayKeeps ==
    ASSUME NEW t, NEW errors, NEW gone, NEW a, Panes(a, t, errors, gone),
           NEW sources \in Seq(Tags), Len(sources) <= 2
    PROVE  Panes(After(a, sources, t), t + Len(sources), errors, gone)
<1>1. t \in Nat
  BY DEF Panes
<1>2. Tags \subseteq Sources
  BY DEF Sources
<1>3. sources \in Seq(Sources) /\ Len(sources) \in {0, 1, 2}
  <2>1. PICK n : n = Len(sources)
    OBVIOUS
  <2>2. n \in Nat /\ n <= 2
    BY <2>1
  <2>3. n \in {0, 1, 2}
    BY <2>2
  <2> QED
    BY <1>2, <2>1, <2>3
<1>4. \A i \in 1..Len(sources) :
         sources[i] \in Sources /\ sources[i] # BrokerError
  <2>1. \A i \in 1..Len(sources) : sources[i] \in Tags
    OBVIOUS
  <2> QED
    BY <1>2, <2>1, TagIsNoBroker
<1>5. CASE Len(sources) = 0
  <2>1. After(a, sources, t) = a
    BY <1>1, <1>3, <1>5, AfterIs
  <2>2. t + Len(sources) = t
    BY <1>1, <1>5
  <2> QED
    BY <2>1, <2>2
<1>6. Len(sources) # 0 =>
         Panes(Step(a, sources, t, 1), t + 1, errors, gone)
  <2> SUFFICES ASSUME Len(sources) # 0
               PROVE  Panes(Step(a, sources, t, 1), t + 1, errors, gone)
    OBVIOUS
  <2>1. 1 \in 1..Len(sources)
    BY <1>3
  <2>2. sources[1] \in Sources /\ sources[1] # BrokerError
    BY <1>4, <2>1
  <2> QED
    BY <2>2, RecordKeeps DEF Step
<1>7. CASE Len(sources) = 1
  <2>1. Len(sources) <= 2 /\ Len(sources) # 0
    BY <1>7
  <2>2. After(a, sources, t) = Step(a, sources, t, 1)
    BY <1>1, <1>3, <1>7, <2>1, AfterIs
  <2> QED
    BY <1>6, <1>7, <2>1, <2>2
<1>8. CASE Len(sources) = 2
  <2>1. PICK b : b = Step(a, sources, t, 1)
    OBVIOUS
  <2>2. After(a, sources, t) = Step(b, sources, t, 2)
    <3>1. Len(sources) <= 2 /\ Len(sources) # 0 /\ Len(sources) # 1
      BY <1>8
    <3> QED
      BY <1>1, <1>3, <2>1, <3>1, AfterIs
  <2>3. Panes(b, t + 1, errors, gone)
    BY <1>6, <1>8, <2>1
  <2>4. sources[2] \in Sources /\ sources[2] # BrokerError
    <3>1. 2 \in 1..Len(sources)
      BY <1>8
    <3> QED
      BY <1>4, <3>1
  <2>5. Panes(record_message(b, sources[2], (t + 1) + 1), (t + 1) + 1, errors,
              gone)
    BY <2>3, <2>4, RecordKeeps
  <2>6. (t + 1) + 1 = t + 2 /\ t + Len(sources) = t + 2
    BY <1>1, <1>8
  <2>7. Panes(Step(b, sources, t, 2), t + 2, errors, gone)
    BY <2>5, <2>6 DEF Step
  <2> QED
    BY <2>2, <2>6, <2>7
<1> QED
  BY <1>3, <1>5, <1>7, <1>8

----------------------------------------------------------------------------
(* The invariant *)

PanesInv == Panes(app, now, broker.errors, cleared)

LEMMA TagSequences ==
    /\ <<"INFO">> \in Seq(Tags) /\ Len(<<"INFO">>) <= 2
    /\ <<"WARN">> \in Seq(Tags) /\ Len(<<"WARN">>) <= 2
    /\ <<"ERROR">> \in Seq(Tags) /\ Len(<<"ERROR">>) <= 2
    /\ <<"SENT">> \in Seq(Tags) /\ Len(<<"SENT">>) <= 2
    /\ <<"WARN", "SENT">> \in Seq(Tags) /\ Len(<<"WARN", "SENT">>) <= 2
<1>1. {"SENT", "ERROR", "WARN", "INFO"} \subseteq Tags
  BY DEF Tags
<1>2. \A x \in Tags : <<x>> \in Seq(Tags) /\ Len(<<x>>) <= 2
  OBVIOUS
<1>3. \A x, y \in Tags : <<x, y>> \in Seq(Tags) /\ Len(<<x, y>>) <= 2
  OBVIOUS
<1> QED
  BY <1>1, <1>2, <1>3, Zenon

\* Recording what the client says, or nothing.
LEMMA Says ==
    ASSUME PanesInv, UNCHANGED broker, NEW sources \in Seq(Tags),
           Len(sources) <= 2, Say(sources) \/ Record(app, sources)
    PROVE  PanesInv'
<1>1. CASE Record(app, sources)
  <2>1. /\ app' = After(app, sources, now) /\ now' = now + Len(sources)
        /\ cleared' = cleared
    BY <1>1 DEF Record, After
  <2>2. Panes(After(app, sources, now), now + Len(sources), broker.errors,
              cleared)
    BY SayKeeps DEF PanesInv
  <2> QED
    BY <2>1, <2>2 DEF PanesInv
<1>2. CASE RecordNothing
  BY <1>2 DEF RecordNothing, panes, PanesInv
<1> QED
  BY <1>1, <1>2 DEF Say

\* Recording a MESSAGE or a broker's error.
LEMMA RecordsOne ==
    ASSUME PanesInv, NEW of \in Sources, Record(app, <<of>>),
           broker'.errors = IF of = BrokerError THEN broker.errors + 1
                            ELSE broker.errors
    PROVE  PanesInv'
<1>1. /\ app' = After(app, <<of>>, now) /\ now' = now + Len(<<of>>)
      /\ cleared' = cleared
  BY DEF Record, After
<1>2. Panes(After(app, <<of>>, now), now + Len(<<of>>),
            IF of = BrokerError THEN broker.errors + 1 ELSE broker.errors,
            cleared)
  BY OneKeeps DEF PanesInv
<1> QED
  BY <1>1, <1>2 DEF PanesInv

LEMMA PanesInit == Init => PanesInv
<1> SUFFICES ASSUME Init PROVE PanesInv
  OBVIOUS
<1>1. app = NewApp /\ now = 0 /\ broker.errors = 0 /\ cleared = 0
  BY DEF Init
<1> QED
  BY <1>1, NewAppKept DEF PanesInv

LEMMA PanesStep ==
    ASSUME PanesInv, MainOK, broker \in [messages: Nat, errors: Nat],
           [Next]_vars
    PROVE  PanesInv'
<1>1. ASSUME UNCHANGED panes, UNCHANGED broker
      PROVE  PanesInv'
  BY <1>1 DEF panes, PanesInv
<1>2. CASE Start
  <2>1. CASE UNCHANGED app
    BY <1>1, <1>2, <2>1 DEF Start, panes
  <2>2. CASE /\ main.todo # <<>>
             /\ app' = register_subscription(app, Head(main.todo))
    <3>1. main.todo \in Seq(Destinations)
      BY <1>2 DEF Start, MainOK
    <3>2. Head(main.todo) \in Destinations
      BY <2>2, <3>1
    <3>3. now' = now /\ cleared' = cleared /\ broker' = broker
      BY <1>2 DEF Start
    <3> QED
      BY <2>2, <3>2, <3>3, RegisterKeeps DEF PanesInv
  <2> QED
    BY <1>2, <2>1, <2>2 DEF Start
<1>3. ASSUME NEW d \in Destinations, SendCommand(d)
      PROVE  PanesInv'
  BY <1>1, <1>3 DEF SendCommand, Command, RecordNothing
<1>4. ASSUME NEW d \in Destinations, SubCommand(d)
      PROVE  PanesInv'
  <2>1. RecordNothing \/ Say(<<"WARN">>)
    BY <1>4 DEF SubCommand
  <2>2. broker' = broker
    BY <1>4 DEF SubCommand, Command
  <2>3. CASE RecordNothing
    BY <1>1, <2>2, <2>3 DEF RecordNothing
  <2>4. CASE Say(<<"WARN">>)
    BY <2>2, <2>4, TagSequences, Says
  <2> QED
    BY <2>1, <2>3, <2>4
<1>5. CASE ClearCommand
  <2>1. /\ app' = clear_messages(app) /\ cleared' = now - broker.errors
        /\ now' = now /\ broker' = broker
    BY <1>5 DEF ClearCommand, Command
  <2>2. Panes(clear_messages(app), now, broker.errors, now - broker.errors)
    BY ClearKeeps DEF PanesInv
  <2> QED
    BY <2>1, <2>2 DEF PanesInv
<1>6. ASSUME NEW answer \in Answers, OtherCommand(answer)
      PROVE  PanesInv'
  <2>1. answer \in Seq(Tags) /\ Len(answer) <= 2
    <3>1. CASE answer = <<>>
      BY <3>1, EmptySeq
    <3>2. CASE answer = <<"INFO">> \/ answer = <<"ERROR">>
      BY <3>2, TagSequences, Zenon
    <3> QED
      BY <3>1, <3>2 DEF Answers
  <2>2. Say(answer) /\ broker' = broker
    BY <1>6 DEF OtherCommand, Command
  <2> QED
    BY <2>1, <2>2, Says
<1>7. CASE QuitCommand
  BY <1>1, <1>7 DEF QuitCommand, Command, RecordNothing
<1>8. CASE Sent
  <2>1. main.say \in {<<"SENT">>, <<"WARN", "SENT">>}
    BY <1>8 DEF Sent, MainOK
  <2>2. main.say \in Seq(Tags) /\ Len(main.say) <= 2
    <3>1. main.say = <<"SENT">> \/ main.say = <<"WARN", "SENT">>
      BY <2>1, Zenon
    <3> QED
      BY <3>1, TagSequences, Zenon
  <2>3. Say(main.say) /\ broker' = broker
    BY <1>8 DEF Sent
  <2> QED
    BY <2>2, <2>3, Says
<1>9. CASE Asked
  BY <1>1, <1>9 DEF Asked, RecordNothing, io
<1>10. CASE Scroll
  <2>1. /\ app' \in ScrollKeys(app) /\ now' = now /\ cleared' = cleared
        /\ broker' = broker
    BY <1>10 DEF Scroll, io
  <2> QED
    BY <2>1, ScrollKeeps DEF PanesInv
<1>11. CASE EndOfInput \/ StopAtEof \/ Disconnect \/ Closed \/ Take \/ Write
  BY <1>1, <1>11 DEF EndOfInput, StopAtEof, Disconnect, Closed, Take, Write, io
<1>12. CASE Subscribed
  <2>1. /\ manager \in Destinations
        /\ app' = register_subscription(app, manager)
        /\ now' = now /\ cleared' = cleared /\ broker' = broker
    BY <1>12 DEF Subscribed
  <2> QED
    BY <2>1, RegisterKeeps DEF PanesInv
<1>13. CASE Announce
  <2>1. Record(app, <<"INFO">>) /\ broker' = broker
    BY <1>13 DEF Announce, io
  <2> QED
    BY <2>1, TagSequences, Says
<1>14. CASE Monitor
  <2>1. CASE RecordNothing /\ UNCHANGED broker
    BY <1>1, <2>1 DEF RecordNothing
  <2>2. CASE /\ Record(app, <<BrokerError>>)
             /\ broker' = [broker EXCEPT !.errors = @ + 1]
    <3>1. BrokerError \in Sources
      BY DEF Sources
    <3>2. broker'.errors = broker.errors + 1
      BY <2>2
    <3> QED
      BY <2>2, <3>1, <3>2, RecordsOne
  <2> QED
    BY <1>14, <2>1, <2>2 DEF Monitor
<1>15. ASSUME NEW d \in Destinations, Handle(d)
       PROVE  PanesInv'
  <2>1. d \in Sources
    BY DEF Sources
  <2>2. /\ Record(app, <<d>>)
        /\ broker'.errors = IF d = BrokerError THEN broker.errors + 1
                            ELSE broker.errors
    BY <1>15 DEF Handle
  <2> QED
    BY <2>1, <2>2, RecordsOne
<1>16. ASSUME NEW frame \in {"ERROR", "MESSAGE"}, Forward(frame)
       PROVE  PanesInv'
  BY <1>1, <1>16 DEF Forward
<1>17. CASE UNCHANGED vars
  BY <1>1, <1>17 DEF vars, io
<1> QED
  BY <1>2, <1>3, <1>4, <1>5, <1>6, <1>7, <1>8, <1>9, <1>10, <1>11, <1>12,
     <1>13, <1>14, <1>15, <1>16, <1>17
     DEF Next, User, Main, Tasks, Network

\* The main loop has in hand what it needs where it is.
LEMMA MainStep ==
    ASSUME MainOK, [Next]_vars
    PROVE  MainOK'
<1>1. ASSUME UNCHANGED main
      PROVE  MainOK'
  BY <1>1 DEF MainOK
<1>2. CASE Start
  <2>1. main \in [pc: {"starting"}, todo: Seq(Destinations)]
    BY <1>2 DEF Start, MainOK
  <2>2. CASE main' = At("prompt")
    BY <2>2 DEF At, MainOK
  <2>3. CASE main.todo # <<>> /\ main' = [main EXCEPT !.todo = Tail(@)]
    <3>1. Tail(main.todo) \in Seq(Destinations)
      BY <2>1, <2>3
    <3>2. main' \in [pc: {"starting"}, todo: Seq(Destinations)]
      BY <2>1, <2>3, <3>1
    <3> QED
      BY <3>2 DEF MainOK
  <2> QED
    BY <1>2, <2>2, <2>3 DEF Start
<1>3. ASSUME NEW d \in Destinations, SendCommand(d)
      PROVE  MainOK'
  <2>1. main' \in [pc: {"sending"}, say: {<<"SENT">>, <<"WARN", "SENT">>}]
    BY <1>3 DEF SendCommand
  <2> QED
    BY <2>1 DEF MainOK
<1>4. ASSUME NEW d \in Destinations, SubCommand(d)
      PROVE  MainOK'
  <2>1. main' \in [pc: {"asking"}, dest: Destinations]
    BY <1>4 DEF SubCommand, With
  <2> QED
    BY <2>1 DEF MainOK
<1>5. CASE \/ QuitCommand \/ Sent \/ Asked \/ StopAtEof \/ Disconnect \/ Closed
  <2>1. main' \in {At("prompt"), At("quitting"), At("closing"), At("done")}
    BY <1>5 DEF QuitCommand, Sent, Asked, StopAtEof, Disconnect, Closed
  <2> QED
    BY <2>1 DEF At, MainOK
<1>6. CASE \/ ClearCommand \/ Scroll \/ EndOfInput \/ Take \/ Subscribed
           \/ Announce \/ Monitor \/ Write
           \/ \E answer \in Answers : OtherCommand(answer)
           \/ \E d \in Destinations : Handle(d)
           \/ \E frame \in {"ERROR", "MESSAGE"} : Forward(frame)
           \/ UNCHANGED vars
  <2>1. main' = main
    BY <1>6 DEF ClearCommand, Scroll, EndOfInput, Take, Subscribed, Announce,
                Monitor, Write, OtherCommand, Handle, Forward, vars
  <2> QED
    BY <1>1, <2>1
<1> QED
  BY <1>2, <1>3, <1>4, <1>5, <1>6 DEF Next, User, Main, Tasks, Network

\* A queue with room takes one more; a queue that is not empty gives one.
LEMMA QueueMoves ==
    ASSUME NEW S, NEW cap \in Nat, NEW q \in Seq(S), Len(q) <= cap
    PROVE  /\ \A x \in S : Len(q) < cap =>
                  Append(q, x) \in Seq(S) /\ Len(Append(q, x)) <= cap
           /\ q # <<>> =>
                  /\ Head(q) \in S
                  /\ Tail(q) \in Seq(S) /\ Len(Tail(q)) <= cap
<1>1. Len(q) \in Nat
  OBVIOUS
<1>2. ASSUME NEW x \in S, Len(q) < cap
      PROVE  Append(q, x) \in Seq(S) /\ Len(Append(q, x)) <= cap
  <2>1. Append(q, x) \in Seq(S) /\ Len(Append(q, x)) = Len(q) + 1
    BY AppendProperties
  <2>2. Len(q) + 1 <= cap
    BY <1>1, <1>2
  <2> QED
    BY <2>1, <2>2
<1>3. ASSUME q # <<>>
      PROVE  /\ Head(q) \in S
             /\ Tail(q) \in Seq(S) /\ Len(Tail(q)) <= cap
  <2>1. /\ Head(q) \in S
        /\ Tail(q) \in Seq(S) /\ Len(Tail(q)) = Len(q) - 1
    BY <1>3, HeadTailProperties
  <2>2. Len(q) - 1 <= cap
    BY <1>1
  <2> QED
    BY <2>1, <2>2
<1> QED
  BY <1>2, <1>3

LEMMA Capacities == SUB_CAP \in Nat /\ OUT_CAP \in Nat /\ IN_CAP \in Nat
BY SessionAssumption

\* The outbound channel: only what has room is written to it.
OutOK ==
    /\ out \in Seq({"SEND", "SUBSCRIBE", "DISCONNECT"})
    /\ Len(out) <= OUT_CAP

LEMMA OutStep ==
    ASSUME OutOK, [Next]_vars
    PROVE  OutOK'
<1>1. /\ \A x \in {"SEND", "SUBSCRIBE", "DISCONNECT"} :
             Len(out) < OUT_CAP /\ out' = Append(out, x) => OutOK'
      /\ out # <<>> /\ out' = Tail(out) => OutOK'
  <2>1. OUT_CAP \in Nat
    BY Capacities
  <2>2. /\ \A x \in {"SEND", "SUBSCRIBE", "DISCONNECT"} :
               Len(out) < OUT_CAP =>
                   /\ Append(out, x) \in Seq({"SEND", "SUBSCRIBE", "DISCONNECT"})
                   /\ Len(Append(out, x)) <= OUT_CAP
        /\ out # <<>> =>
               /\ Tail(out) \in Seq({"SEND", "SUBSCRIBE", "DISCONNECT"})
               /\ Len(Tail(out)) <= OUT_CAP
    BY <2>1, QueueMoves DEF OutOK
  <2>3. ASSUME NEW x \in {"SEND", "SUBSCRIBE", "DISCONNECT"},
               Len(out) < OUT_CAP, out' = Append(out, x)
        PROVE  OutOK'
    BY <2>2, <2>3 DEF OutOK
  <2>4. ASSUME out # <<>>, out' = Tail(out)
        PROVE  OutOK'
    BY <2>2, <2>4 DEF OutOK
  <2> QED
    BY <2>3, <2>4
<1>2. CASE out' = out
  BY <1>2 DEF OutOK
<1>3. CASE Start
  <2>1. CASE Subscribe(Head(main.todo))
    BY <1>1, <2>1 DEF Subscribe, Room
  <2> QED
    BY <1>2, <1>3, <2>1 DEF Start
<1>4. CASE Sent
  BY <1>1, <1>4 DEF Sent, Room
<1>5. CASE Disconnect
  BY <1>1, <1>5 DEF Disconnect, Room
<1>6. CASE Subscribed
  BY <1>1, <1>6 DEF Subscribed, Subscribe, Room
<1>7. CASE Write
  BY <1>1, <1>7 DEF Write
<1>8. ASSUME NEW d \in Destinations, SendCommand(d) \/ SubCommand(d)
      PROVE  OutOK'
  BY <1>2, <1>8 DEF SendCommand, SubCommand
<1>9. CASE \/ ClearCommand \/ QuitCommand
           \/ \E answer \in Answers : OtherCommand(answer)
  BY <1>2, <1>9 DEF ClearCommand, QuitCommand, OtherCommand
<1>10. CASE \/ Scroll \/ EndOfInput \/ Asked \/ StopAtEof \/ Closed \/ Take
            \/ Announce \/ Monitor
  BY <1>2, <1>10 DEF Scroll, EndOfInput, Asked, StopAtEof, Closed, Take,
                     Announce, Monitor, io
<1>11. CASE \/ \E d \in Destinations : Handle(d)
            \/ \E frame \in {"ERROR", "MESSAGE"} : Forward(frame)
            \/ UNCHANGED vars
  BY <1>2, <1>11 DEF Handle, Forward, vars, io
<1> QED
  BY <1>3, <1>4, <1>5, <1>6, <1>7, <1>8, <1>9, <1>10, <1>11
     DEF Next, User, Main, Tasks, Network

\* The inbound channel drops what it has no room for.
InOK == in \in Seq({"ERROR", "MESSAGE"}) /\ Len(in) <= IN_CAP

LEMMA InStep ==
    ASSUME InOK, [Next]_vars
    PROVE  InOK'
<1>1. CASE in' = in
  BY <1>1 DEF InOK
<1>2. ASSUME NEW frame \in {"ERROR", "MESSAGE"}, Forward(frame)
      PROVE  InOK'
  <2>1. CASE Len(in) < IN_CAP
    <3>1. in' = Append(in, frame)
      BY <1>2, <2>1 DEF Forward
    <3>2. Append(in, frame) \in Seq({"ERROR", "MESSAGE"})
          /\ Len(Append(in, frame)) <= IN_CAP
      BY <2>1, Capacities, QueueMoves DEF InOK
    <3> QED
      BY <3>1, <3>2 DEF InOK
  <2>2. CASE ~(Len(in) < IN_CAP)
    BY <1>1, <1>2, <2>2 DEF Forward
  <2> QED
    BY <2>1, <2>2
<1>3. CASE Monitor
  <2>1. in # <<>> /\ in' = Tail(in)
    BY <1>3 DEF Monitor
  <2>2. Tail(in) \in Seq({"ERROR", "MESSAGE"}) /\ Len(Tail(in)) <= IN_CAP
    BY <2>1, Capacities, QueueMoves DEF InOK
  <2> QED
    BY <2>1, <2>2 DEF InOK
<1>4. ASSUME NEW d \in Destinations, SendCommand(d) \/ SubCommand(d)
      PROVE  InOK'
  BY <1>1, <1>4 DEF SendCommand, SubCommand, Command
<1>5. CASE \/ ClearCommand \/ QuitCommand
           \/ \E answer \in Answers : OtherCommand(answer)
  BY <1>1, <1>5 DEF ClearCommand, QuitCommand, OtherCommand, Command
<1>6. CASE \/ Scroll \/ EndOfInput \/ Main \/ Take \/ Subscribed \/ Announce
           \/ Write
  BY <1>1, <1>6 DEF Scroll, EndOfInput, Main, Start, Sent, Asked, StopAtEof,
                    Disconnect, Closed, Take, Subscribed, Announce, Write, io
<1>7. CASE \/ \E d \in Destinations : Handle(d)
           \/ UNCHANGED vars
  BY <1>1, <1>7 DEF Handle, vars, io
<1> QED
  BY <1>2, <1>3, <1>4, <1>5, <1>6, <1>7 DEF Next, User, Tasks, Network

\* The channel of requests, the task that takes from it, and the tasks it
\* starts.
RequestsOK ==
    /\ requests \in Seq(Destinations) /\ Len(requests) <= SUB_CAP
    /\ manager \in Destinations \cup {None, Announcing}
    /\ handlers \subseteq Destinations

LEMMA RequestsStep ==
    ASSUME RequestsOK, MainOK, [Next]_vars
    PROVE  RequestsOK'
<1>1. CASE UNCHANGED <<requests, manager, handlers>>
  BY <1>1 DEF RequestsOK
<1>2. CASE Start
  <2>1. requests' = requests /\ manager' = manager
    BY <1>2 DEF Start
  <2>2. handlers' \subseteq Destinations
    <3>1. main.todo \in Seq(Destinations)
      BY <1>2 DEF Start, MainOK
    <3>2. main.todo # <<>> => Head(main.todo) \in Destinations
      BY <3>1
    <3> QED
      BY <1>2, <3>2 DEF Start, Subscribe, RequestsOK
  <2> QED
    BY <2>1, <2>2 DEF RequestsOK
<1>3. CASE Asked
  <2>1. main.dest \in Destinations
    BY <1>3 DEF Asked, MainOK
  <2>2. requests' = Append(requests, main.dest) /\ Len(requests) < SUB_CAP
        /\ manager' = manager /\ handlers' = handlers
    BY <1>3 DEF Asked
  <2>3. Append(requests, main.dest) \in Seq(Destinations)
        /\ Len(Append(requests, main.dest)) <= SUB_CAP
    BY <2>1, <2>2, Capacities, QueueMoves DEF RequestsOK
  <2> QED
    BY <2>2, <2>3 DEF RequestsOK
<1>4. CASE Take
  <2>1. requests # <<>> /\ requests' = Tail(requests)
        /\ manager' = Head(requests) /\ handlers' = handlers
    BY <1>4 DEF Take
  <2>2. Head(requests) \in Destinations /\ Tail(requests) \in Seq(Destinations)
        /\ Len(Tail(requests)) <= SUB_CAP
    BY <2>1, Capacities, QueueMoves DEF RequestsOK
  <2> QED
    BY <2>1, <2>2 DEF RequestsOK
<1>5. CASE Subscribed
  <2>1. /\ manager' \in {None, Announcing} /\ requests' = requests
        /\ manager \in Destinations /\ handlers' = handlers \cup {manager}
    BY <1>5 DEF Subscribed, Subscribe
  <2> QED
    BY <2>1 DEF RequestsOK
<1>6. CASE Announce
  <2>1. manager' = None /\ requests' = requests /\ handlers' = handlers
    BY <1>6 DEF Announce
  <2> QED
    BY <2>1 DEF RequestsOK
<1>7. ASSUME NEW d \in Destinations, SendCommand(d) \/ SubCommand(d)
      PROVE  RequestsOK'
  BY <1>1, <1>7 DEF SendCommand, SubCommand, Command
<1>8. CASE \/ ClearCommand \/ QuitCommand
           \/ \E answer \in Answers : OtherCommand(answer)
  BY <1>1, <1>8 DEF ClearCommand, QuitCommand, OtherCommand, Command
<1>9. CASE \/ Scroll \/ EndOfInput \/ Sent \/ StopAtEof \/ Disconnect
           \/ Closed \/ Monitor \/ Write
  BY <1>1, <1>9 DEF Scroll, EndOfInput, Sent, StopAtEof, Disconnect, Closed,
                    Monitor, Write
<1>10. CASE \/ \E d \in Destinations : Handle(d)
            \/ \E frame \in {"ERROR", "MESSAGE"} : Forward(frame)
            \/ UNCHANGED vars
  BY <1>1, <1>10 DEF Handle, Forward, vars
<1> QED
  BY <1>2, <1>3, <1>4, <1>5, <1>6, <1>7, <1>8, <1>9, <1>10
     DEF Next, User, Main, Tasks, Network

\* The switches and the counters.
FlagsOK ==
    /\ tui \in BOOLEAN /\ eof \in BOOLEAN /\ commands \in Nat
    /\ broker \in [messages: Nat, errors: Nat]

LEMMA FlagsStep ==
    ASSUME FlagsOK, [Next]_vars
    PROVE  FlagsOK'
<1>1. tui' = tui
  BY DEF Next, User, Main, Tasks, Network, SendCommand, SubCommand,
         OtherCommand, ClearCommand, QuitCommand, Command, Scroll, EndOfInput,
         Start, Sent, Asked, StopAtEof, Disconnect, Closed, Take, Subscribed,
         Announce, Monitor, Handle, Forward, Write, vars
<1>2. eof' \in BOOLEAN
  <2>1. eof' = eof \/ eof' = TRUE
    BY DEF Next, User, Main, Tasks, Network, SendCommand, SubCommand,
           OtherCommand, ClearCommand, QuitCommand, Command, Scroll,
           EndOfInput, Start, Sent, Asked, StopAtEof, Disconnect, Closed,
           Take, Subscribed, Announce, Monitor, Handle, Forward, Write, vars
  <2> QED
    BY <2>1 DEF FlagsOK
<1>3. commands' \in Nat
  <2>1. commands' = commands \/ commands' = commands + 1
    BY DEF Next, User, Main, Tasks, Network, SendCommand, SubCommand,
           OtherCommand, ClearCommand, QuitCommand, Command, Scroll,
           EndOfInput, Start, Sent, Asked, StopAtEof, Disconnect, Closed,
           Take, Subscribed, Announce, Monitor, Handle, Forward, Write, vars
  <2> QED
    BY <2>1 DEF FlagsOK
<1>4. broker' \in [messages: Nat, errors: Nat]
  <2>1. CASE broker' = broker
    BY <2>1 DEF FlagsOK
  <2>2. ASSUME NEW d \in Destinations, Handle(d)
        PROVE  broker' \in [messages: Nat, errors: Nat]
    BY <2>2 DEF Handle, FlagsOK
  <2>3. CASE Monitor
    BY <2>1, <2>3 DEF Monitor, FlagsOK
  <2>4. CASE \/ \E d \in Destinations : SendCommand(d) \/ SubCommand(d)
             \/ \E answer \in Answers : OtherCommand(answer)
             \/ ClearCommand \/ QuitCommand
    <3>1. Command
      BY <2>4 DEF SendCommand, SubCommand, OtherCommand, ClearCommand,
                  QuitCommand
    <3> QED
      BY <2>1, <3>1 DEF Command
  <2>5. CASE \/ Scroll \/ EndOfInput \/ Main \/ Take \/ Subscribed \/ Announce
             \/ Write
             \/ \E frame \in {"ERROR", "MESSAGE"} : Forward(frame)
             \/ UNCHANGED vars
    BY <2>1, <2>5 DEF Scroll, EndOfInput, Main, Start, Sent, Asked, StopAtEof,
                      Disconnect, Closed, Take, Subscribed, Announce, Write,
                      Forward, vars, io
  <2> QED
    BY <2>2, <2>3, <2>4, <2>5 DEF Next, User, Tasks, Network
<1> QED
  BY <1>1, <1>2, <1>3, <1>4 DEF FlagsOK

SessionInv == FlagsOK /\ MainOK /\ RequestsOK /\ OutOK /\ InOK /\ PanesInv

LEMMA InvInit == Init => SessionInv
<1> SUFFICES ASSUME Init PROVE SessionInv
  OBVIOUS
<1>1. FlagsOK
  BY DEF Init, FlagsOK
<1>2. MainOK
  <2>1. main \in [pc: {"starting"}, todo: Seq(Destinations)]
    BY SessionAssumption DEF Init
  <2> QED
    BY <2>1 DEF MainOK
<1>3. RequestsOK /\ OutOK /\ InOK
  BY Capacities, EmptySeq DEF Init, RequestsOK, OutOK, InOK
<1> QED
  BY <1>1, <1>2, <1>3, PanesInit DEF SessionInv

LEMMA InvStep == SessionInv /\ [Next]_vars => SessionInv'
<1> SUFFICES ASSUME SessionInv, [Next]_vars PROVE SessionInv'
  OBVIOUS
<1>1. FlagsOK' /\ MainOK' /\ OutOK' /\ InOK'
  BY FlagsStep, MainStep, OutStep, InStep DEF SessionInv
<1>2. RequestsOK'
  BY RequestsStep DEF SessionInv
<1>3. PanesInv'
  BY PanesStep DEF SessionInv, FlagsOK
<1> QED
  BY <1>1, <1>2, <1>3 DEF SessionInv

THEOREM Invariant == Spec => []SessionInv
BY InvInit, InvStep, PTL DEF Spec

\* Every variable has its type, and no channel holds more than its capacity.
THEOREM TypeCorrect == Spec => []TypeOK
<1>1. ASSUME SessionInv PROVE TypeOK
  <2>1. main.pc \in {"starting", "prompt", "sending", "asking", "quitting",
                     "closing", "done"}
    BY <1>1 DEF SessionInv, MainOK
  <2>2. now \in Nat /\ cleared \in Nat
    BY <1>1 DEF SessionInv, PanesInv, Panes
  <2>3. commands \in Nat
    BY <1>1 DEF SessionInv, FlagsOK
  <2> QED
    BY <1>1, <2>1, <2>2, <2>3
       DEF SessionInv, FlagsOK, RequestsOK, OutOK, InOK, TypeOK
<1> QED
  BY <1>1, Invariant, PTL

----------------------------------------------------------------------------
(* What the panes hold *)

\* The panes hold the newest of what was recorded for them, as much as there
\* is room for, and the counters add up to all of it.
THEOREM LatestIsHeld == Spec => []PanesHoldLatest
<1>1. ASSUME SessionInv PROVE PanesHoldLatest
  <2>1. /\ app \in Apps
        /\ now \in Nat /\ broker.errors \in Nat /\ cleared \in Nat
        /\ RingOK(app.messages, now - broker.errors - cleared, MAX_MESSAGES,
                  now)
        /\ RingOK(app.errors, broker.errors, MAX_ERRORS, now)
        /\ NewestLast(app, now)
        /\ SumFunction(app.subscriptions) + SumFunction(app.count) = now
    BY <1>1 DEF SessionInv, PanesInv, Panes
  <2>2. /\ Len(app.messages)
             = AtMost(now - broker.errors - cleared, MAX_MESSAGES)
        /\ Len(app.errors) = AtMost(broker.errors, MAX_ERRORS)
        /\ InOrder(app.messages) /\ InOrder(app.errors)
    BY <2>1 DEF RingOK
  <2>3. ASSUME app.messages # <<>>
        PROVE  \E e \in Range(app.messages) \cup Range(app.errors) : e.at = now
    <3>1. app.messages \in Seq(Entry) /\ app.errors \in Seq(Entry)
      BY <2>1 DEF Apps
    <3>2. \A q \in Seq(Entry) : q # <<>> => q[Len(q)] \in Range(q)
      <4> TAKE q \in Seq(Entry)
      <4> HAVE q # <<>>
      <4>1. Len(q) \in DOMAIN q
        <5>1. Len(q) \in Nat /\ Len(q) # 0 /\ DOMAIN q = 1..Len(q)
          BY EmptySeq
        <5> QED
          BY <5>1
      <4> QED
        BY <4>1 DEF Range
    <3> QED
      BY <2>1, <2>3, <3>1, <3>2 DEF NewestLast
  <2>4. total_message_count(app) + SumFunction(app.count) = now
    BY <2>1 DEF total_message_count
  <2> QED
    BY <2>2, <2>3, <2>4 DEF PanesHoldLatest
<1> QED
  BY <1>1, Invariant, PTL

----------------------------------------------------------------------------
(* What the panes show *)

\* A pane of `total` entries, each of its own number of rows.
Shown(total, offset, rows) ==
    LET first == FirstDrawn(offset, total) + 1
    IN  {i \in first..total : SumFunctionOnSet(rows, first..(i - 1)) < Height}

MessageRows(a) == [i \in DOMAIN a.messages |-> 1 + Headers(a, a.messages[i])]
ErrorRows(a) == [i \in DOMAIN a.errors |-> 2 + Headers(a, a.errors[i])]

LEMMA RenderedIsShown ==
    ASSUME NEW a
    PROVE  /\ render_messages(a) =
                  Shown(Len(a.messages), a.scroll_offset, MessageRows(a))
           /\ render_errors(a) =
                  Shown(Len(a.errors), a.error_scroll_offset, ErrorRows(a))
<1>1. render_messages(a)
        = Shown(Len(a.messages), a.scroll_offset, MessageRows(a))
  BY DEF render_messages, Drawn, Shown, MessageRows
<1>2. render_errors(a)
        = Shown(Len(a.errors), a.error_scroll_offset, ErrorRows(a))
  BY DEF render_errors, Drawn, Shown, ErrorRows
<1> QED
  BY <1>1, <1>2

\* A pane that has something begins within it.
LEMMA FirstIsThere ==
    ASSUME NEW total \in Nat \ {0}, NEW offset \in Nat,
           offset <= Less(total, 1)
    PROVE  /\ FirstDrawn(offset, total) \in Nat
           /\ FirstDrawn(offset, total) < total
<1>1. offset < total
  BY DEF Less
<1>2. Height \in Nat \ {0}
  BY Sizes
<1> QED
  BY <1>1, <1>2 DEF FirstDrawn

\* So it is never empty while there is something for it.
LEMMA SomethingIsShown ==
    ASSUME NEW total \in Nat \ {0}, NEW offset \in Nat,
           offset <= Less(total, 1), NEW rows
    PROVE  Shown(total, offset, rows) # {}
<1>1. PICK f \in Nat : f = FirstDrawn(offset, total) /\ f < total
  BY FirstIsThere
<1>2. f + 1 \in (f + 1)..total /\ (f + 1)..((f + 1) - 1) = {}
  BY <1>1
<1>3. SumFunctionOnSet(rows, (f + 1)..((f + 1) - 1)) < Height
  <2>1. SumFunctionOnSet(rows, {}) = 0
    BY SumOfNothing
  <2>2. 0 < Height
    BY Sizes
  <2> QED
    BY <1>2, <2>1, <2>2
<1>4. f + 1 \in Shown(total, offset, rows)
  BY <1>1, <1>2, <1>3 DEF Shown
<1> QED
  BY <1>4

\* Not scrolled, and each entry a row, it goes on to the last.
LEMMA LastIsShown ==
    ASSUME NEW total \in Nat \ {0}, NEW rows, \A i \in 1..total : rows[i] = 1
    PROVE  total \in Shown(total, 0, rows)
<1>1. 0 <= Less(total, 1) /\ 0 \in Nat
  BY DEF Less
<1>2. PICK f \in Nat : f = FirstDrawn(0, total) /\ f < total
  BY <1>1, FirstIsThere
<1>3. f = IF total > Height THEN total - Height ELSE 0
  BY <1>2 DEF FirstDrawn
<1>4. PICK S : S = (f + 1)..(total - 1)
  OBVIOUS
<1>5. IsFiniteSet(S) /\ Cardinality(S) = total - 1 - f
  <2>1. PICK m, n \in Int : m = f + 1 /\ n = total - 1
    OBVIOUS
  <2>2. IsFiniteSet(m..n)
        /\ Cardinality(m..n) = IF m > n THEN 0 ELSE n - m + 1
    BY FS_Interval
  <2>3. (IF m > n THEN 0 ELSE n - m + 1) = total - 1 - f
    BY <1>2, <2>1
  <2> QED
    BY <1>4, <2>1, <2>2, <2>3
<1>6. SumFunctionOnSet(rows, S) = Cardinality(S)
  <2>1. \A x \in S : rows[x] = 1
    BY <1>2, <1>4
  <2>2. 1 \in {0, 1}
    OBVIOUS
  <2> QED
    BY <1>5, <2>1, <2>2, SumOfEqual
<1>7. total - 1 - f < Height
  BY <1>2, <1>3, Sizes
<1>8. total \in (f + 1)..total
  BY <1>2
<1> QED
  BY <1>2, <1>4, <1>5, <1>6, <1>7, <1>8 DEF Shown

\* No pane is empty while there is something for it, and unless the user
\* scrolled or shows headers, the newest message can be seen.
THEOREM NewestIsShown == Spec => []NewestShown
<1>1. ASSUME SessionInv PROVE NewestShown
  <2>1. app \in Apps /\ OffsetsOK(app)
    BY <1>1 DEF SessionInv, PanesInv, Panes
  <2>2. /\ app.messages \in Seq(Entry) /\ app.errors \in Seq(Entry)
        /\ app.scroll_offset \in Nat /\ app.error_scroll_offset \in Nat
    BY <2>1 DEF Apps
  <2>3. \A q \in Seq(Entry) : q # <<>> => Len(q) \in Nat \ {0}
    BY EmptySeq
  <2>4. app.messages # <<>> => render_messages(app) # {}
    <3> SUFFICES ASSUME app.messages # <<>> PROVE render_messages(app) # {}
      OBVIOUS
    <3>1. PICK n \in Nat \ {0} : n = Len(app.messages)
      BY <2>2, <2>3
    <3>2. app.scroll_offset <= Less(n, 1)
      BY <2>1, <3>1 DEF OffsetsOK
    <3>3. Shown(n, app.scroll_offset, MessageRows(app)) # {}
      BY <2>2, <3>2, SomethingIsShown
    <3> QED
      BY <3>1, <3>3, RenderedIsShown
  <2>5. app.errors # <<>> => render_errors(app) # {}
    <3> SUFFICES ASSUME app.errors # <<>> PROVE render_errors(app) # {}
      OBVIOUS
    <3>1. PICK n \in Nat \ {0} : n = Len(app.errors)
      BY <2>2, <2>3
    <3>2. app.error_scroll_offset <= Less(n, 1)
      BY <2>1, <3>1 DEF OffsetsOK
    <3>3. Shown(n, app.error_scroll_offset, ErrorRows(app)) # {}
      BY <2>2, <3>2, SomethingIsShown
    <3> QED
      BY <3>1, <3>3, RenderedIsShown
  <2>6. app.messages # <<>> /\ app.scroll_offset = 0 /\ ~app.show_headers =>
            Len(app.messages) \in render_messages(app)
    <3> SUFFICES ASSUME app.messages # <<>>, app.scroll_offset = 0,
                        ~app.show_headers
                 PROVE  Len(app.messages) \in render_messages(app)
      OBVIOUS
    <3>1. PICK n \in Nat \ {0} : n = Len(app.messages)
      BY <2>2, <2>3
    <3>2. \A i \in 1..n : MessageRows(app)[i] = 1
      <4> TAKE i \in 1..n
      <4>1. Headers(app, app.messages[i]) = 0
        BY DEF Headers
      <4>2. i \in DOMAIN app.messages
        BY <2>2, <3>1
      <4>3. MessageRows(app)[i] = 1 + Headers(app, app.messages[i])
        BY <4>2 DEF MessageRows
      <4> QED
        BY <4>1, <4>3
    <3>3. n \in Shown(n, 0, MessageRows(app))
      BY <3>2, LastIsShown
    <3> QED
      BY <3>1, <3>3, RenderedIsShown
  <2> QED
    BY <2>4, <2>5, <2>6 DEF NewestShown
<1> QED
  BY <1>1, Invariant, PTL
=============================================================================
