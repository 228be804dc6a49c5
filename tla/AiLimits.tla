------------------------------ MODULE AiLimits -------------------------------
(***************************************************************************)
(* The request and token limits of AiRuns hold, for any tasks, limits,     *)
(* window and answers.  First, what sums over finite sets do; then the     *)
(* rolling window; then its invariant, step by step.                       *)
(***************************************************************************)
EXTENDS AiRunsProofs, Integers, SequenceTheorems, WellFoundedInduction

\* A finite set of sets has a member that holds no other.
LEMMA LeastSet ==
  ASSUME NEW S, IsFiniteSet(S), NEW F \in SUBSET (SUBSET S), F # {}
  PROVE  \E m \in F : \A b \in F : b \subseteq m => b = m
<1>1. IsWellFoundedOn(StrictSubsetOrdering(S), SUBSET S)
  <2>1. FiniteSubsetsOf(S) = SUBSET S
    BY FS_FiniteSubsetsOfFinite
  <2>2. IsWellFoundedOn(StrictSubsetOrdering(S), FiniteSubsetsOf(S))
    BY FS_StrictSubsetOrderingWellFounded, Zenon
  <2> QED  BY <2>1, <2>2, Zenon
<1>2. PICK m \in F : \A b \in F : <<b, m>> \notin StrictSubsetOrdering(S)
  BY <1>1, WFMin
<1>3. \A b \in F : b \subseteq m => b = m
  BY <1>2 DEF StrictSubsetOrdering
<1> QED  BY <1>3

\* What SumFunctionOnSet computes, step by step.
Taken(T) == CHOOSE x \in T : TRUE
Sums(g, f, S) ==
  g = [T \in SUBSET S |-> IF T = {} THEN 0 ELSE f[Taken(T)] + g[T \ {Taken(T)}]]

LEMMA SumUnfolds ==
  ASSUME NEW f, NEW S
  PROVE  SumFunctionOnSet(f, S) = (CHOOSE g : Sums(g, f, S))[S]
BY Zenon DEF SumFunctionOnSet, FoldFunctionOnSet, MapThenFoldSet, Sums, Taken

LEMMA TakenIn == ASSUME NEW T, T # {} PROVE Taken(T) \in T
BY DEF Taken

LEMMA SumsAgree ==
  ASSUME NEW f, NEW S, IsFiniteSet(S), NEW g, Sums(g, f, S),
         NEW U \in SUBSET S, NEW h, Sums(h, f, U)
  PROVE  g[U] = h[U]
<1> DEFINE F == {V \in SUBSET U : g[V] # h[V]}
<1>1. SUFFICES ASSUME F # {} PROVE FALSE
  OBVIOUS
<1>2. F \in SUBSET (SUBSET S)
  OBVIOUS
<1>3. PICK m \in F : \A b \in F : b \subseteq m => b = m
  <2> HIDE DEF F
  <2> QED  BY <1>1, <1>2, LeastSet
<1>4. m # {}
  BY DEF Sums
<1>5. Taken(m) \in m
  BY <1>4, TakenIn
<1>6. g[m \ {Taken(m)}] = h[m \ {Taken(m)}]
  BY <1>3, <1>5
<1>7. g[m] = f[Taken(m)] + g[m \ {Taken(m)}]
  BY <1>4 DEF Sums
<1>8. h[m] = f[Taken(m)] + h[m \ {Taken(m)}]
  BY <1>4 DEF Sums
<1> QED  BY <1>6, <1>7, <1>8

LEMMA SumsExist ==
  ASSUME NEW f, NEW S, IsFiniteSet(S)
  PROVE  \E g : Sums(g, f, S)
<1> DEFINE F == {V \in SUBSET S : ~\E g : Sums(g, f, V)}
<1>1. SUFFICES ASSUME F # {} PROVE FALSE
  OBVIOUS
<1>2. PICK m \in F : \A b \in F : b \subseteq m => b = m
  <2>1. F \in SUBSET (SUBSET S)
    OBVIOUS
  <2> HIDE DEF F
  <2> QED  BY <1>1, <2>1, LeastSet
<1> DEFINE Total(V) == (CHOOSE g : Sums(g, f, V))[V]
<1>3. \A V \in SUBSET m : V # m => Sums(CHOOSE g : Sums(g, f, V), f, V)
  BY <1>2
<1>4. \A V \in SUBSET m : V # m /\ V # {} => Total(V) = f[Taken(V)] + Total(V \ {Taken(V)})
  <2> SUFFICES ASSUME NEW V \in SUBSET m, V # m, V # {}
               PROVE  Total(V) = f[Taken(V)] + Total(V \ {Taken(V)})
    OBVIOUS
  <2>1. PICK g : Sums(g, f, V) /\ g = CHOOSE k : Sums(k, f, V)
    BY <1>3
  <2>2. Taken(V) \in V
    BY TakenIn
  <2>3. PICK W \in SUBSET V : W = V \ {Taken(V)}
    OBVIOUS
  <2>4. PICK h : Sums(h, f, W) /\ h = CHOOSE k : Sums(k, f, W)
    BY <1>3, <2>3
  <2>5. IsFiniteSet(V)
    BY FS_Subset
  <2>6. g[W] = h[W]
    BY <2>1, <2>4, <2>5, SumsAgree
  <2>7. g[V] = f[Taken(V)] + g[W]
    BY <2>1, <2>3 DEF Sums
  <2> QED  BY <2>1, <2>3, <2>4, <2>6, <2>7
<1>5. Total({}) = 0 \/ m = {}
  <2>1. CASE m # {}
    <3>1. PICK g : Sums(g, f, {}) /\ g = CHOOSE k : Sums(k, f, {})
      BY <1>3, <2>1
    <3> QED  BY <3>1 DEF Sums
  <2> QED  BY <2>1
<1>6. CASE m = {}
  <2>1. Sums([T \in SUBSET {} |-> 0], f, {})
    BY DEF Sums
  <2> QED  BY <1>6, <2>1
<1>7. CASE m # {}
  <2> DEFINE g == [V \in SUBSET m |-> IF V = m THEN f[Taken(m)] + Total(m \ {Taken(m)})
                                      ELSE Total(V)]
  <2>1. Taken(m) \in m
    BY <1>7, TakenIn
  <2> HIDE DEF Total
  <2>2. \A V \in SUBSET m : g[V] = IF V = {} THEN 0 ELSE f[Taken(V)] + g[V \ {Taken(V)}]
    <3> SUFFICES ASSUME NEW V \in SUBSET m
                 PROVE  g[V] = IF V = {} THEN 0 ELSE f[Taken(V)] + g[V \ {Taken(V)}]
      OBVIOUS
    <3>1. CASE V = {}
      BY <1>5, <1>7, <3>1
    <3>2. CASE V # {}
      <4>1. Taken(V) \in V
        BY <3>2, TakenIn
      <4>2. V \ {Taken(V)} \in SUBSET m /\ V \ {Taken(V)} # m
        BY <4>1
      <4>3. g[V \ {Taken(V)}] = Total(V \ {Taken(V)})
        BY <4>2
      <4>4. CASE V = m
        BY <3>2, <4>3, <4>4
      <4>5. CASE V # m
        BY <1>4, <3>2, <4>3, <4>5
      <4> QED  BY <4>4, <4>5
    <3> QED  BY <3>1, <3>2
  <2>3. Sums(g, f, m)
    BY <2>2 DEF Sums
  <2> QED  BY <2>3
<1> QED  BY <1>6, <1>7

\* A sum takes the elements in some order.
LEMMA SumStep ==
  ASSUME NEW f, NEW S, IsFiniteSet(S)
  PROVE  /\ SumFunctionOnSet(f, {}) = 0
         /\ S # {} => SumFunctionOnSet(f, S)
                         = f[Taken(S)] + SumFunctionOnSet(f, S \ {Taken(S)})
<1>1. \A T \in SUBSET S : Sums(CHOOSE g : Sums(g, f, T), f, T)
  BY SumsExist, FS_Subset
<1>2. SumFunctionOnSet(f, {}) = 0
  <2>1. PICK g : Sums(g, f, {}) /\ g = CHOOSE k : Sums(k, f, {})
    BY <1>1
  <2> QED  BY <2>1, SumUnfolds DEF Sums
<1>3. ASSUME S # {} PROVE SumFunctionOnSet(f, S) = f[Taken(S)] + SumFunctionOnSet(f, S \ {Taken(S)})
  <2>1. PICK g : Sums(g, f, S) /\ g = CHOOSE k : Sums(k, f, S)
    BY <1>1
  <2>2. PICK W \in SUBSET S : W = S \ {Taken(S)}
    OBVIOUS
  <2>3. PICK h : Sums(h, f, W) /\ h = CHOOSE k : Sums(k, f, W)
    BY <1>1, <2>2
  <2>4. g[W] = h[W]
    BY <2>1, <2>3, SumsAgree
  <2>5. g[S] = f[Taken(S)] + g[W]
    BY <1>3, <2>1, <2>2 DEF Sums
  <2>6. SumFunctionOnSet(f, S) = g[S] /\ SumFunctionOnSet(f, W) = h[W]
    BY <2>1, <2>3, SumUnfolds
  <2> QED  BY <2>2, <2>4, <2>5, <2>6
<1> QED  BY <1>2, <1>3

LEMMA SumType ==
  ASSUME NEW f, NEW S, IsFiniteSet(S), \A x \in S : f[x] \in Int
  PROVE  SumFunctionOnSet(f, S) \in Int
<1> DEFINE F == {V \in SUBSET S : SumFunctionOnSet(f, V) \notin Int}
<1>1. SUFFICES ASSUME F # {} PROVE FALSE
  OBVIOUS
<1>2. PICK m \in F : \A b \in F : b \subseteq m => b = m
  <2>1. F \in SUBSET (SUBSET S)
    OBVIOUS
  <2> HIDE DEF F
  <2> QED  BY <1>1, <2>1, LeastSet
<1>3. IsFiniteSet(m)
  BY FS_Subset
<1>4. m # {}
  <2>1. SumFunctionOnSet(f, {}) = 0
    BY <1>3, SumStep
  <2>2. SumFunctionOnSet(f, {}) \in Int
    BY <2>1
  <2> QED  BY <2>2
<1>5. Taken(m) \in m
  BY <1>4, TakenIn
<1>6. SumFunctionOnSet(f, m \ {Taken(m)}) \in Int
  BY <1>2, <1>5
<1>7. SumFunctionOnSet(f, m) = f[Taken(m)] + SumFunctionOnSet(f, m \ {Taken(m)})
  BY <1>3, <1>4, SumStep
<1> QED  BY <1>5, <1>6, <1>7

LEMMA SumNat ==
  ASSUME NEW f, NEW S, IsFiniteSet(S), \A x \in S : f[x] \in Nat
  PROVE  SumFunctionOnSet(f, S) \in Nat
<1> DEFINE F == {V \in SUBSET S : SumFunctionOnSet(f, V) \notin Nat}
<1>1. SUFFICES ASSUME F # {} PROVE FALSE
  OBVIOUS
<1>2. PICK m \in F : \A b \in F : b \subseteq m => b = m
  <2>1. F \in SUBSET (SUBSET S)
    OBVIOUS
  <2> HIDE DEF F
  <2> QED  BY <1>1, <2>1, LeastSet
<1>3. IsFiniteSet(m)
  BY FS_Subset
<1>4. m # {}
  <2>1. SumFunctionOnSet(f, {}) = 0
    BY <1>3, SumStep
  <2>2. SumFunctionOnSet(f, {}) \in Nat
    BY <2>1
  <2> QED  BY <2>2
<1>5. Taken(m) \in m
  BY <1>4, TakenIn
<1>6. SumFunctionOnSet(f, m \ {Taken(m)}) \in Nat
  BY <1>2, <1>5
<1>7. SumFunctionOnSet(f, m) = f[Taken(m)] + SumFunctionOnSet(f, m \ {Taken(m)})
  BY <1>3, <1>4, SumStep
<1> QED  BY <1>5, <1>6, <1>7

\* Any element may be the first.
LEMMA SumTakes ==
  ASSUME NEW f, NEW S, IsFiniteSet(S), \A x \in S : f[x] \in Int, NEW y \in S
  PROVE  SumFunctionOnSet(f, S) = f[y] + SumFunctionOnSet(f, S \ {y})
<1> DEFINE Bad(V) == \E z \in V : SumFunctionOnSet(f, V) # f[z] + SumFunctionOnSet(f, V \ {z})
           F == {V \in SUBSET S : Bad(V)}
<1>1. SUFFICES ASSUME F # {} PROVE FALSE
  OBVIOUS
<1>2. PICK m \in F : \A b \in F : b \subseteq m => b = m
  <2>1. F \in SUBSET (SUBSET S)
    OBVIOUS
  <2> HIDE DEF F
  <2> QED  BY <1>1, <2>1, LeastSet
<1>3. PICK z \in m : SumFunctionOnSet(f, m) # f[z] + SumFunctionOnSet(f, m \ {z})
  OBVIOUS
<1>4. PICK t : t = Taken(m)
  OBVIOUS
<1>5. t \in m
  BY <1>4, TakenIn
<1>6. PICK A \in SUBSET m : A = m \ {t}
  OBVIOUS
<1>7. PICK B \in SUBSET m : B = m \ {z}
  OBVIOUS
<1>8. PICK C \in SUBSET m : C = (m \ {t}) \ {z}
  OBVIOUS
<1>9. IsFiniteSet(m) /\ IsFiniteSet(C)
  BY FS_Subset
<1>10. SumFunctionOnSet(f, m) = f[t] + SumFunctionOnSet(f, A)
  BY <1>4, <1>5, <1>6, <1>9, SumStep
<1>11. z # t
  BY <1>3, <1>6, <1>10
<1>12. SumFunctionOnSet(f, A) = f[z] + SumFunctionOnSet(f, C)
  <2>1. A \notin F
    BY <1>2, <1>5, <1>6
  <2>2. z \in A /\ C = A \ {z}
    BY <1>6, <1>8, <1>11
  <2> QED  BY <2>1, <2>2
<1>13. SumFunctionOnSet(f, B) = f[t] + SumFunctionOnSet(f, C)
  <2>1. B \notin F
    BY <1>2, <1>3, <1>7
  <2>2. t \in B /\ C = B \ {t}
    BY <1>5, <1>7, <1>8, <1>11
  <2> QED  BY <2>1, <2>2
<1>14. SumFunctionOnSet(f, C) \in Int /\ f[z] \in Int /\ f[t] \in Int
  BY <1>5, <1>9, SumType
<1>15. SumFunctionOnSet(f, m) = f[z] + SumFunctionOnSet(f, B)
  BY <1>10, <1>12, <1>13, <1>14
<1> QED  BY <1>3, <1>7, <1>15

\* What is at most the other, element by element, sums up to at most as much; what
\* is left over in the other is not negative.
LEMMA SumLeq ==
  ASSUME NEW f, NEW S, IsFiniteSet(S), \A x \in S : f[x] \in Int,
         NEW g, NEW T, IsFiniteSet(T), \A x \in T : g[x] \in Nat,
         NEW h \in Injection(S, T), \A x \in S : f[x] <= g[h[x]]
  PROVE  SumFunctionOnSet(f, S) <= SumFunctionOnSet(g, T)
<1> DEFINE F == {V \in SUBSET S : \E W \in SUBSET T :
                   /\ \A x \in V : h[x] \in W
                   /\ ~(SumFunctionOnSet(f, V) <= SumFunctionOnSet(g, W))}
<1>1. \A x \in S : h[x] \in T
  BY DEF Injection
<1>2. SUFFICES ASSUME F # {} PROVE FALSE
  BY <1>1
<1>3. PICK m \in F : \A b \in F : b \subseteq m => b = m
  <2>1. F \in SUBSET (SUBSET S)
    OBVIOUS
  <2> HIDE DEF F
  <2> QED  BY <1>2, <2>1, LeastSet
<1>4. PICK W \in SUBSET T : /\ \A x \in m : h[x] \in W
                            /\ ~(SumFunctionOnSet(f, m) <= SumFunctionOnSet(g, W))
  OBVIOUS
<1>5. IsFiniteSet(m) /\ IsFiniteSet(W) /\ \A x \in m : f[x] \in Int
  BY FS_Subset
<1>6. CASE m = {}
  <2>1. SumFunctionOnSet(f, m) = 0
    BY <1>5, <1>6, SumStep
  <2>2. \A x \in W : g[x] \in Nat
    OBVIOUS
  <2>3. SumFunctionOnSet(g, W) \in Nat
    BY <1>5, <2>2, SumNat
  <2> QED  BY <1>4, <2>1, <2>3
<1>7. CASE m # {}
  <2>1. PICK x \in m : TRUE
    BY <1>7
  <2>2. h[x] \in W
    BY <1>4
  <2>3. PICK A \in SUBSET m : A = m \ {x}
    OBVIOUS
  <2>4. PICK B \in SUBSET W : B = W \ {h[x]}
    OBVIOUS
  <2>5. SumFunctionOnSet(f, m) = f[x] + SumFunctionOnSet(f, A)
    BY <1>5, <2>3, SumTakes
  <2>6. SumFunctionOnSet(g, W) = g[h[x]] + SumFunctionOnSet(g, B)
    <3>1. \A y \in W : g[y] \in Int
      OBVIOUS
    <3> QED  BY <1>5, <2>2, <2>4, <3>1, SumTakes
  <2>7. \A y \in A : h[y] \in B
    <3>1. \A y \in A : h[y] # h[x]
      BY <2>3 DEF Injection, IsInjective
    <3> QED  BY <1>4, <2>3, <2>4, <3>1
  <2>8. A \notin F
    BY <1>3, <2>3
  <2>9. SumFunctionOnSet(f, A) <= SumFunctionOnSet(g, B)
    BY <2>7, <2>8
  <2>10. SumFunctionOnSet(f, A) \in Int /\ SumFunctionOnSet(g, B) \in Int
    <3>1. IsFiniteSet(A) /\ IsFiniteSet(B)
      BY <1>5, FS_Subset
    <3>2. \A y \in A : f[y] \in Int
      OBVIOUS
    <3>3. \A y \in B : g[y] \in Int
      OBVIOUS
    <3> QED  BY <3>1, <3>2, <3>3, SumType
  <2>11. f[x] \in Int /\ g[h[x]] \in Int /\ f[x] <= g[h[x]]
    BY <2>2
  <2> QED  BY <1>4, <2>5, <2>6, <2>9, <2>10, <2>11
<1> QED  BY <1>6, <1>7

\* Two sums add up to the sum of both.
LEMMA SumAdds ==
  ASSUME NEW f, NEW g, NEW h, NEW S, IsFiniteSet(S),
         \A x \in S : f[x] \in Int /\ g[x] \in Int /\ h[x] = f[x] + g[x]
  PROVE  SumFunctionOnSet(h, S) = SumFunctionOnSet(f, S) + SumFunctionOnSet(g, S)
<1> DEFINE Adds(V) == SumFunctionOnSet(h, V) = SumFunctionOnSet(f, V) + SumFunctionOnSet(g, V)
           F == {V \in SUBSET S : ~Adds(V)}
<1>1. SUFFICES ASSUME F # {} PROVE FALSE
  OBVIOUS
<1>2. PICK m \in F : \A b \in F : b \subseteq m => b = m
  <2>1. F \in SUBSET (SUBSET S)
    OBVIOUS
  <2> HIDE DEF F
  <2> QED  BY <1>1, <2>1, LeastSet
<1>3. IsFiniteSet(m)
  BY FS_Subset
<1>4. m # {}
  <2>1. /\ SumFunctionOnSet(f, {}) = 0 /\ SumFunctionOnSet(g, {}) = 0
        /\ SumFunctionOnSet(h, {}) = 0
    BY <1>3, SumStep
  <2>2. Adds({})
    BY <2>1
  <2> QED  BY <2>2
<1>5. PICK x : x = Taken(m)
  OBVIOUS
<1>6. x \in m
  BY <1>4, <1>5, TakenIn
<1>7. PICK A \in SUBSET m : A = m \ {x}
  OBVIOUS
<1>8. Adds(A)
  BY <1>2, <1>6, <1>7
<1>9. /\ SumFunctionOnSet(f, m) = f[x] + SumFunctionOnSet(f, A)
      /\ SumFunctionOnSet(g, m) = g[x] + SumFunctionOnSet(g, A)
      /\ SumFunctionOnSet(h, m) = h[x] + SumFunctionOnSet(h, A)
  BY <1>3, <1>4, <1>5, <1>7, SumStep
<1>10. SumFunctionOnSet(f, A) \in Int /\ SumFunctionOnSet(g, A) \in Int
  <2>1. IsFiniteSet(A)
    BY <1>3, FS_Subset
  <2>2. \A y \in A : f[y] \in Int
    OBVIOUS
  <2>3. \A y \in A : g[y] \in Int
    OBVIOUS
  <2> QED  BY <2>1, <2>2, <2>3, SumType
<1>11. f[x] \in Int /\ g[x] \in Int /\ h[x] = f[x] + g[x]
  BY <1>6
<1>12. Adds(m)
  BY <1>8, <1>9, <1>10, <1>11
<1> QED  BY <1>12

-----------------------------------------------------------------------------
(* The inductive invariant.                                                  *)

\* What a reservation takes of the token limit, and the entries younger than b.
Kept(r) == IF r.tokens > r.estimate THEN r.estimate ELSE r.tokens
Young(w, b) == {n \in DOMAIN w : w[n].age < b}
KeptSum(w) == SumFunction([n \in DOMAIN w |-> Kept(w[n])])

LimiterTypes == window \in Seq(Reservation) /\ launches \in [0..Window-1 -> Nat]

\* acquire never lets the deque outgrow the request limit.
RoomOK == Len(window) <= Rpm

\* A launch is never older than its reservation, so the launches of the last b
\* ticks are no more than the entries of the last b ticks.
LaunchesOK ==
  \A b \in 0..Window : SumFunctionOnSet(launches, 0..b-1) <= Cardinality(Young(window, b))

\* Until its answer is there, a request is accounted at its estimate.
UnansweredOK ==
  \A t \in Tasks : pc[t] = "sent" =>
    \A n \in Latest(t) : window[n].tokens = window[n].estimate

\* What the reservations take, answers beyond their estimate left out, fits.
TokensOK == KeptSum(window) <= InputTpm

LimiterInv == LimiterTypes /\ RoomOK /\ LaunchesOK /\ UnansweredOK /\ TokensOK

-----------------------------------------------------------------------------
LEMMA LimiterConstants ==
  /\ Rpm \in Nat /\ Rpm > 0 /\ InputTpm \in Nat /\ Window \in Nat /\ Window > 0
  /\ PromptTokens \in [Tasks -> Nat] /\ RepairTokens \in [Tasks -> Nat] /\ Usages \subseteq Nat
BY LimiterAssumption, AiAssumption

LEMMA EntryIs ==
  ASSUME LimiterTypes
  PROVE  /\ Len(window) \in Nat
         /\ window \in [1..Len(window) -> Reservation]
         /\ DOMAIN window = 1..Len(window)
         /\ \A n \in 1..Len(window) :
              /\ window[n] \in Reservation
              /\ window[n].age \in 0..Window /\ window[n].estimate \in Nat
              /\ window[n].tokens \in Nat /\ window[n].by \in Tasks
<1>1. window \in Seq(Reservation)
  BY DEF LimiterTypes
<1>2. Len(window) \in Nat /\ window \in [1..Len(window) -> Reservation]
      /\ DOMAIN window = 1..Len(window)
  BY <1>1, LenProperties
<1> QED  BY <1>2 DEF Reservation

LEMMA ExpiredIs ==
  ASSUME LimiterTypes
  PROVE  /\ Expired \in 0..Len(window)
         /\ \A n \in 1..Expired : window[n].age = Window
<1> DEFINE L == Len(window)
           Goes1(k) == \A n \in 1..k : window[n].age = Window
           Stops(k) == k < L => window[k+1].age < Window
           Ends == {k \in 0..L : k < L /\ window[k+1].age < Window}
<1>1. L \in Nat /\ \A n \in 1..L : window[n].age \in 0..Window
  BY EntryIs
<1>2. Window \in Nat
  BY LimiterConstants
<1> HIDE DEF L
<1>3. \E k \in 0..L : Goes1(k) /\ Stops(k)
  <2>1. CASE Ends = {}
    <3>1. \A n \in 1..L : ~(window[n].age < Window)
      <4> SUFFICES ASSUME NEW n \in 1..L, window[n].age < Window PROVE FALSE
        OBVIOUS
      <4>1. n - 1 \in 0..L /\ n - 1 < L /\ (n - 1) + 1 = n
        BY <1>1
      <4>2. n - 1 \in Ends
        BY <4>1
      <4> QED  BY <2>1, <4>2
    <3>2. Goes1(L) /\ Stops(L)
      BY <1>1, <1>2, <3>1
    <3> QED  BY <1>1, <3>2
  <2>2. CASE Ends # {}
    <3> DEFINE F == {0..k : k \in Ends}
    <3>0. PICK S : S = 0..L
      OBVIOUS
    <3>1. F \in SUBSET (SUBSET S) /\ F # {}
      BY <1>1, <2>2, <3>0
    <3>2. IsFiniteSet(S)
      <4>1. 0 \in Int /\ L \in Int
        BY <1>1
      <4> HIDE DEF F
      <4> QED  BY <3>0, <4>1, FS_Interval
    <3>3. PICK m \in F : \A b \in F : b \subseteq m => b = m
      <4> HIDE DEF F
      <4> QED  BY <3>1, <3>2, LeastSet
    <3>4. PICK k \in Ends : m = 0..k
      OBVIOUS
    <3>5. \A n \in 1..k : window[n].age = Window
      <4> SUFFICES ASSUME NEW n \in 1..k, window[n].age # Window PROVE FALSE
        OBVIOUS
      <4>1. n \in 1..L /\ window[n].age < Window
        BY <1>1, <1>2
      <4>2. n - 1 \in Ends
        <5>1. n - 1 \in 0..L /\ n - 1 < L /\ (n - 1) + 1 = n
          BY <1>1, <4>1
        <5> QED  BY <4>1, <5>1
      <4>3. 0..(n-1) \in F /\ 0..(n-1) \subseteq m
        BY <1>1, <3>4, <4>2
      <4>4. k \in m /\ k \notin 0..(n-1)
        BY <1>1, <3>4
      <4> QED  BY <3>3, <4>3, <4>4
    <3> QED  BY <3>5
  <2> QED  BY <2>1, <2>2
<1> QED  BY <1>3 DEF Expired, L

LEMMA PrunedIs ==
  ASSUME LimiterTypes
  PROVE  /\ Pruned \in Seq(Reservation)
         /\ Len(Pruned) = Len(window) - Expired
         /\ \A n \in 1..Len(Pruned) : Pruned[n] = window[n + Expired]
<1>1. PICK k \in 0..Len(window) : k = Expired
  BY ExpiredIs
<1>2. PICK L \in Nat : L = Len(window)
  BY EntryIs
<1>3. \A n \in k+1..L : window[n] \in Reservation
  BY <1>1, <1>2, EntryIs
<1>4. /\ SubSeq(window, k+1, L) \in Seq(Reservation)
      /\ Len(SubSeq(window, k+1, L)) = IF k+1 <= L THEN L-(k+1)+1 ELSE 0
      /\ \A i \in 1..L-(k+1)+1 : SubSeq(window, k+1, L)[i] = window[(k+1)+i-1]
  <2>1. k+1 \in Int /\ L \in Int
    BY <1>1, <1>2
  <2> QED  BY <1>3, <2>1, SubSeqProperties
<1>5. PICK p : p = SubSeq(window, k+1, L)
  OBVIOUS
<1>6. p = Pruned
  BY <1>1, <1>2, <1>5 DEF Pruned
<1>7. p \in Seq(Reservation) /\ Len(p) = L - k
  BY <1>1, <1>2, <1>4, <1>5
<1>8. \A n \in 1..Len(p) : p[n] = window[n + k]
  <2> SUFFICES ASSUME NEW n \in 1..Len(p) PROVE p[n] = window[n + k]
    OBVIOUS
  <2>1. n \in 1..L-(k+1)+1 /\ (k+1)+n-1 = n + k
    BY <1>1, <1>2, <1>7
  <2> QED  BY <1>4, <1>5, <2>1
<1> QED  BY <1>1, <1>2, <1>6, <1>7, <1>8

\* The window after acquire has let a request through.
LEMMA ReservesIs ==
  ASSUME LimiterTypes, NEW t \in Tasks, NEW e \in Nat, Reserves(t, e)
  PROVE  /\ window' \in Seq(Reservation)
         /\ Len(window') = Len(Pruned) + 1
         /\ \A n \in 1..Len(Pruned) : window'[n] = window[n + Expired]
         /\ window'[Len(Pruned) + 1] = [by |-> t, age |-> 0, estimate |-> e, tokens |-> e]
<1>1. PICK r \in Reservation : r = [by |-> t, age |-> 0, estimate |-> e, tokens |-> e]
  <2>1. 0 \in 0..Window
    BY LimiterConstants
  <2>2. [by |-> t, age |-> 0, estimate |-> e, tokens |-> e] \in Reservation
    BY <2>1 DEF Reservation
  <2> QED  BY <2>2
<1>2. PICK p \in Seq(Reservation) : p = Pruned
  BY PrunedIs
<1>3. window' = Append(p, r)
  BY <1>1, <1>2 DEF Reserves
<1>4. /\ Append(p, r) \in Seq(Reservation)
      /\ Len(Append(p, r)) = Len(p) + 1
      /\ \A i \in 1..Len(p) : Append(p, r)[i] = p[i]
      /\ Append(p, r)[Len(p) + 1] = r
  BY AppendProperties
<1>5. \A n \in 1..Len(Pruned) : Pruned[n] = window[n + Expired]
  BY PrunedIs
<1> QED  BY <1>1, <1>2, <1>3, <1>4, <1>5

-----------------------------------------------------------------------------
LEMMA SumZero ==
  ASSUME NEW f, NEW S, IsFiniteSet(S), \A x \in S : f[x] = 0
  PROVE  SumFunctionOnSet(f, S) = 0
<1>1. \A x \in S : f[x] \in Int /\ f[x] \in Int /\ f[x] = f[x] + f[x]
  OBVIOUS
<1>2. SumFunctionOnSet(f, S) = SumFunctionOnSet(f, S) + SumFunctionOnSet(f, S)
  BY <1>1, SumAdds
<1>3. SumFunctionOnSet(f, S) \in Int
  BY <1>1, SumType
<1>4. PICK n \in Int : n = SumFunctionOnSet(f, S)
  BY <1>3
<1>5. n = n + n
  BY <1>2, <1>4
<1>6. n = 0
  BY <1>5
<1> QED  BY <1>4, <1>6

LEMMA SumMonotone ==
  ASSUME NEW f, NEW g, NEW S, IsFiniteSet(S),
         \A x \in S : f[x] \in Nat /\ g[x] \in Nat /\ f[x] <= g[x]
  PROVE  SumFunctionOnSet(f, S) <= SumFunctionOnSet(g, S)
<1>1. PICK h : h = [x \in S |-> x]
  OBVIOUS
<1>2. h \in Injection(S, S) /\ \A x \in S : h[x] = x
  BY <1>1 DEF Injection, IsInjective
<1>3. \A x \in S : f[x] \in Int /\ g[x] \in Nat /\ f[x] <= g[h[x]]
  BY <1>2
<1> QED  BY <1>2, <1>3, SumLeq

LEMMA YoungFinite ==
  ASSUME NEW w \in Seq(Reservation), NEW b
  PROVE  /\ IsFiniteSet(Young(w, b)) /\ Cardinality(Young(w, b)) \in Nat
         /\ Cardinality(Young(w, b)) <= Len(w)
<1>1. PICK L \in Nat : L = Len(w) /\ DOMAIN w = 1..L
  BY LenProperties
<1>2. IsFiniteSet(1..L) /\ Cardinality(1..L) = L
  BY FS_Interval
<1>3. Young(w, b) \in SUBSET (1..L)
  BY <1>1 DEF Young
<1>4. IsFiniteSet(Young(w, b)) /\ Cardinality(Young(w, b)) <= L
  BY <1>2, <1>3, FS_Subset
<1> QED  BY <1>1, <1>4, FS_CardinalityType

\* acquire adds one entry to those of any age, and forgets only what is a whole
\* window old.
LEMMA ReservesYoung ==
  ASSUME LimiterTypes, NEW t \in Tasks, NEW e \in Nat, Reserves(t, e),
         NEW b \in 1..Window
  PROVE  Cardinality(Young(window', b)) >= Cardinality(Young(window, b)) + 1
<1>1. PICK k \in Nat : k = Expired /\ k <= Len(window)
  BY ExpiredIs, EntryIs
<1>2. PICK m \in Nat : m = Len(Pruned) /\ m = Len(window) - k
  BY <1>1, PrunedIs, EntryIs
<1>3. /\ window' \in Seq(Reservation) /\ Len(window') = m + 1
      /\ \A n \in 1..m : window'[n] = window[n + k]
      /\ window'[m + 1].age = 0
  <2>1. /\ window' \in Seq(Reservation)
        /\ Len(window') = Len(Pruned) + 1
        /\ \A n \in 1..Len(Pruned) : window'[n] = window[n + Expired]
        /\ window'[Len(Pruned) + 1] = [by |-> t, age |-> 0, estimate |-> e, tokens |-> e]
    BY ReservesIs
  <2>2. PICK r : r = [by |-> t, age |-> 0, estimate |-> e, tokens |-> e]
    OBVIOUS
  <2>3. window'[m + 1] = r /\ r.age = 0
    BY <1>2, <2>1, <2>2
  <2> QED  BY <1>1, <1>2, <2>1, <2>3
<1>4. DOMAIN window' = 1..m+1
  BY <1>3, LenProperties
<1>5. Window \in Nat
  BY LimiterConstants
<1>6. \A n \in 1..k : window[n].age = Window
  BY <1>1, ExpiredIs
<1>7. DOMAIN window = 1..m+k
  BY <1>1, <1>2, EntryIs
<1>8. PICK Y : Y = Young(window, b)
  OBVIOUS
<1>9. PICK Z : Z = {n \in 1..m : window'[n].age < b}
  OBVIOUS
<1>10. \A n \in Y : n \in k+1..m+k /\ window[n].age < b
  BY <1>5, <1>6, <1>7, <1>8 DEF Young
<1>11. PICK h : h = [n \in Y |-> n - k]
  OBVIOUS
<1>12. h \in Injection(Y, Z)
  <2>1. \A n \in Y : h[n] = n - k /\ n - k \in 1..m /\ (n - k) + k = n
    BY <1>10, <1>11
  <2>2. \A n \in Y : h[n] \in Z
    BY <1>3, <1>9, <1>10, <2>1
  <2>3. \A n, q \in Y : h[n] = h[q] => n = q
    BY <2>1, <1>10
  <2> QED  BY <1>11, <2>2, <2>3 DEF Injection, IsInjective
<1>13. IsFiniteSet(Z)
  <2>1. IsFiniteSet(1..m)
    BY FS_Interval
  <2>2. Z \in SUBSET (1..m)
    BY <1>9
  <2> QED  BY <2>1, <2>2, FS_Subset
<1>14. Cardinality(Y) <= Cardinality(Z) /\ IsFiniteSet(Y)
  BY <1>12, <1>13, FS_Injection
<1>15. Young(window', b) = Z \cup {m + 1}
  BY <1>3, <1>4, <1>9 DEF Young
<1>16. m + 1 \notin Z
  BY <1>9
<1>17. Cardinality(Z \cup {m + 1}) = Cardinality(Z) + 1
  BY <1>13, <1>16, FS_AddElement
<1>18. Cardinality(Y) \in Nat /\ Cardinality(Z) \in Nat
  BY <1>13, <1>14, FS_CardinalityType
<1> QED  BY <1>8, <1>14, <1>15, <1>17, <1>18

LEMMA LaunchNat ==
  ASSUME NEW l \in [0..Window-1 -> Nat], NEW b \in 0..Window
  PROVE  /\ IsFiniteSet(0..b-1)
         /\ \A a \in 0..b-1 : l[a] \in Nat
         /\ SumFunctionOnSet(l, 0..b-1) \in Nat
<1>1. b \in Int /\ b - 1 \in Int /\ b - 1 <= Window - 1 /\ Window \in Nat
  BY LimiterConstants
<1>2. IsFiniteSet(0..b-1)
  BY <1>1, FS_Interval
<1>3. \A a \in 0..b-1 : l[a] \in Nat
  BY <1>1
<1> QED  BY <1>2, <1>3, SumNat

\* A launch is the youngest of all.
LEMMA LaunchSumsUp ==
  ASSUME LimiterTypes, Launches, NEW b \in 1..Window
  PROVE  SumFunctionOnSet(launches', 0..b-1) = SumFunctionOnSet(launches, 0..b-1) + 1
<1>1. Window \in Nat /\ b \in 0..Window /\ 0 \in 0..Window-1
  BY LimiterConstants
<1>2. PICK S : S = 0..b-1
  OBVIOUS
<1>3. IsFiniteSet(S) /\ \A a \in S : launches[a] \in Int
  BY <1>1, <1>2, LaunchNat DEF LimiterTypes
<1>4. launches' \in [0..Window-1 -> Nat] /\ launches'[0] = launches[0] + 1
      /\ \A a \in 0..Window-1 : a # 0 => launches'[a] = launches[a]
  BY <1>1 DEF Launches, LimiterTypes
<1>5. 0 \in S /\ S \subseteq 0..Window-1
  BY <1>1, <1>2
<1>6. \A a \in S : launches'[a] \in Int
  BY <1>4, <1>5
<1>7. PICK one : one = [a \in S |-> IF a = 0 THEN 1 ELSE 0]
  OBVIOUS
<1>8. \A a \in S : /\ launches[a] \in Int /\ one[a] \in Int
                   /\ launches'[a] = launches[a] + one[a]
  BY <1>3, <1>4, <1>5, <1>7
<1>9. SumFunctionOnSet(launches', S) = SumFunctionOnSet(launches, S) + SumFunctionOnSet(one, S)
  BY <1>3, <1>8, SumAdds
<1>10. SumFunctionOnSet(one, S) = 1
  <2>1. SumFunctionOnSet(one, S) = one[0] + SumFunctionOnSet(one, S \ {0})
    <3>1. \A a \in S : one[a] \in Int
      BY <1>8
    <3>2. PICK y \in S : y = 0
      BY <1>5
    <3>3. SumFunctionOnSet(one, S) = one[y] + SumFunctionOnSet(one, S \ {y})
      BY <1>3, <3>1, SumTakes
    <3> QED  BY <3>2, <3>3
  <2>2. PICK Z : Z = S \ {0}
    OBVIOUS
  <2>3. IsFiniteSet(Z) /\ \A a \in Z : one[a] = 0
    BY <1>3, <1>7, <2>2, FS_RemoveElement
  <2>4. SumFunctionOnSet(one, Z) = 0
    BY <2>3, SumZero
  <2>5. one[0] = 1
    BY <1>5, <1>7
  <2> QED  BY <2>1, <2>2, <2>4, <2>5
<1>11. SumFunctionOnSet(launches, S) \in Nat
  BY <1>1, <1>2, LaunchNat DEF LimiterTypes
<1> QED  BY <1>2, <1>9, <1>10, <1>11

\* A tick makes every launch one older, and drops the oldest.
LEMMA LaunchSumsAge ==
  ASSUME LimiterTypes, Tick, NEW b \in 1..Window
  PROVE  SumFunctionOnSet(launches', 0..b-1) <= SumFunctionOnSet(launches, 0..(b-1)-1)
<1>1. Window \in Nat /\ b \in 1..Window /\ b - 1 \in 0..Window
  BY LimiterConstants
<1>2. launches' = [a \in 0..Window-1 |-> IF a = 0 THEN 0 ELSE launches[a-1]]
  BY DEF Tick
<1>3. PICK S : S = 0..b-1
  OBVIOUS
<1>4. PICK A : A = S \ {0}
  OBVIOUS
<1>5. PICK T : T = 0..(b-1)-1
  OBVIOUS
<1>6. A = 1..b-1 /\ 0 \in S
  BY <1>1, <1>3, <1>4
<1>7. IsFiniteSet(S) /\ IsFiniteSet(A) /\ IsFiniteSet(T)
  <2>1. IsFiniteSet(T)
    BY <1>1, <1>5, LaunchNat DEF LimiterTypes
  <2>2. 0 \in Int /\ b - 1 \in Int
    BY <1>1
  <2>3. IsFiniteSet(S)
    BY <1>3, <2>2, FS_Interval
  <2> QED  BY <1>4, <2>1, <2>3, FS_RemoveElement
<1>8. \A a \in T : launches[a] \in Nat
  BY <1>1, <1>5, LaunchNat DEF LimiterTypes
<1>9. /\ \A a \in A : a - 1 \in T /\ launches'[a] = launches[a-1]
      /\ launches'[0] = 0
  BY <1>1, <1>2, <1>5, <1>6
<1>10. \A a \in S : launches'[a] \in Int
  BY <1>4, <1>8, <1>9
<1>11. SumFunctionOnSet(launches', S) = launches'[0] + SumFunctionOnSet(launches', A)
  BY <1>4, <1>6, <1>7, <1>10, SumTakes
<1>12. PICK h : h = [a \in A |-> a - 1]
  OBVIOUS
<1>13. h \in Injection(A, T) /\ \A a \in A : h[a] = a - 1
  <2>1. \A a \in A : h[a] = a - 1 /\ h[a] \in T /\ a \in Int
    <3>1. \A a \in A : h[a] = a - 1 /\ a - 1 \in T
      BY <1>9, <1>12
    <3>2. \A a \in A : a \in Int
      BY <1>1, <1>6
    <3> QED  BY <3>1, <3>2
  <2>2. \A a, c \in A : h[a] = h[c] => a = c
    BY <2>1
  <2> QED  BY <1>12, <2>1, <2>2 DEF Injection, IsInjective
<1>14. \A a \in A : launches'[a] \in Int /\ launches'[a] <= launches[h[a]]
  BY <1>4, <1>8, <1>9, <1>10, <1>13
<1>15. SumFunctionOnSet(launches', A) <= SumFunctionOnSet(launches, T)
  BY <1>7, <1>8, <1>13, <1>14, SumLeq
<1>16. SumFunctionOnSet(launches', A) \in Int
  BY <1>7, <1>14, SumType
<1> QED  BY <1>3, <1>5, <1>9, <1>11, <1>15, <1>16

-----------------------------------------------------------------------------
(* What the methods of the limiter keep.                                    *)

LEMMA KeptSums ==
  ASSUME NEW w \in Seq(Reservation), NEW L \in Nat, L = Len(w)
  PROVE  /\ IsFiniteSet(1..L)
         /\ KeptSum(w) = SumFunctionOnSet([n \in 1..L |-> Kept(w[n])], 1..L)
         /\ \A n \in 1..L : /\ w[n].tokens \in Nat /\ Kept(w[n]) \in Nat
                            /\ Kept(w[n]) <= w[n].tokens
                            /\ Kept(w[n]) <= w[n].estimate
<1>1. DOMAIN w = 1..L
  BY LenProperties
<1>2. IsFiniteSet(1..L)
  BY FS_Interval
<1>3. \A n \in 1..L : w[n].tokens \in Nat /\ w[n].estimate \in Nat
  <2>1. \A n \in 1..L : w[n] \in Reservation
    BY ElementOfSeq
  <2> QED  BY <2>1 DEF Reservation
<1>4. \A n \in 1..L : /\ Kept(w[n]) \in Nat /\ Kept(w[n]) <= w[n].tokens
                      /\ Kept(w[n]) <= w[n].estimate
  BY <1>3 DEF Kept
<1>5. KeptSum(w) = SumFunctionOnSet([n \in 1..L |-> Kept(w[n])], 1..L)
  BY <1>1 DEF KeptSum, SumFunction
<1> QED  BY <1>2, <1>3, <1>4, <1>5

LEMMA KeptSumNat ==
  ASSUME NEW w \in Seq(Reservation)
  PROVE  KeptSum(w) \in Nat
<1>1. PICK L \in Nat : L = Len(w)
  BY LenProperties
<1>2. PICK f : f = [n \in 1..L |-> Kept(w[n])]
  OBVIOUS
<1>3. /\ IsFiniteSet(1..L) /\ KeptSum(w) = SumFunctionOnSet(f, 1..L)
      /\ \A n \in 1..L : Kept(w[n]) \in Nat
  BY <1>1, <1>2, KeptSums
<1>4. \A n \in 1..L : f[n] \in Nat
  BY <1>2, <1>3
<1> QED  BY <1>3, <1>4, SumNat

LEMMA FunctionIsSeq ==
  ASSUME NEW S, NEW n \in Nat, NEW f \in [1..n -> S]
  PROVE  f \in Seq(S)
OBVIOUS

LEMMA AdmittedTokens ==
  ASSUME LimiterTypes, NEW t \in Tasks, NEW e \in Nat, Admits(e), Reserves(t, e)
  PROVE  KeptSum(window') <= InputTpm
<1>1. PICK p \in Seq(Reservation) : p = Pruned
  BY PrunedIs
<1>2. PICK m \in Nat : m = Len(p) /\ DOMAIN p = 1..m
  BY LenProperties
<1>3. PICK w \in Seq(Reservation) : w = window'
  BY ReservesIs
<1>4. /\ Len(w) = m + 1
      /\ \A n \in 1..m : w[n] = p[n]
      /\ w[m + 1] = [by |-> t, age |-> 0, estimate |-> e, tokens |-> e]
  BY <1>1, <1>2, <1>3, ReservesIs, PrunedIs
<1>5. PICK S : S = 1..m+1
  OBVIOUS
<1>6. PICK T : T = 1..m
  OBVIOUS
<1>7. PICK f : f = [n \in S |-> Kept(w[n])]
  OBVIOUS
<1>8. PICK g : g = [n \in T |-> p[n].tokens]
  OBVIOUS
<1>9. PICK y : y = m + 1
  OBVIOUS
<1>10. /\ IsFiniteSet(S) /\ KeptSum(w) = SumFunctionOnSet(f, S)
       /\ \A n \in S : /\ w[n].tokens \in Nat /\ Kept(w[n]) \in Nat
                        /\ Kept(w[n]) <= w[n].tokens
  <2>1. m + 1 \in Nat
    OBVIOUS
  <2> QED  BY <1>4, <1>5, <1>7, <2>1, KeptSums
<1>11. Sum(p) = SumFunctionOnSet(g, T)
  BY <1>2, <1>6, <1>8 DEF Sum, SumFunction
<1>12. y \in S /\ S \ {y} = T /\ T \subseteq S
  BY <1>5, <1>6, <1>9
<1>13. IsFiniteSet(T)
  BY <1>10, <1>12, FS_Subset
<1>14. f[y] = e
  <2>1. Kept(w[y]) = e
    BY <1>4, <1>9 DEF Kept
  <2> QED  BY <1>7, <1>12, <2>1
<1>15. (\A n \in S : f[n] \in Nat) /\ (\A n \in T : f[n] \in Nat /\ g[n] \in Nat /\ f[n] <= g[n])
  BY <1>4, <1>6, <1>7, <1>8, <1>10, <1>12
<1>16. SumFunctionOnSet(f, S) = f[y] + SumFunctionOnSet(f, T)
  <2>1. \A n \in S : f[n] \in Int
    BY <1>15
  <2>2. SumFunctionOnSet(f, S) = f[y] + SumFunctionOnSet(f, S \ {y})
    BY <1>10, <1>12, <2>1, SumTakes
  <2> QED  BY <1>12, <2>2
<1>17. SumFunctionOnSet(f, T) <= SumFunctionOnSet(g, T)
  BY <1>13, <1>15, SumMonotone
<1>18. PICK a \in Nat : a = SumFunctionOnSet(f, T)
  BY <1>13, <1>15, SumNat
<1>19. PICK b \in Nat : b = SumFunctionOnSet(g, T)
  BY <1>13, <1>15, SumNat
<1>20. b + e <= InputTpm
  BY <1>1, <1>11, <1>19 DEF Admits, TpmOk
<1>21. a <= b /\ KeptSum(w) = e + a /\ InputTpm \in Nat
  BY <1>10, <1>14, <1>16, <1>17, <1>18, <1>19, LimiterConstants
<1> QED  BY <1>3, <1>20, <1>21

LEMMA ReserveKeeps ==
  ASSUME LimiterInv, DOMAIN pc = Tasks,
         NEW t \in Tasks, NEW e \in Nat, Admits(e), Reserves(t, e),
         \/ Launches /\ pc' = [pc EXCEPT ![t] = "sent"]
         \/ UNCHANGED launches /\ pc' = [pc EXCEPT ![t] = "done"]
  PROVE  LimiterInv'
<1> USE DEF LimiterInv
<1>1. LimiterTypes'
  <2>1. launches' \in [0..Window-1 -> Nat]
    BY DEF LimiterTypes, Launches
  <2> QED  BY <2>1, ReservesIs DEF LimiterTypes
<1>2. RoomOK'
  <2>1. Len(Pruned) < Rpm /\ Len(Pruned) \in Nat /\ Rpm \in Nat
    BY PrunedIs, LenProperties, LimiterConstants DEF Admits
  <2>2. Len(window') = Len(Pruned) + 1
    BY ReservesIs
  <2> QED  BY <2>1, <2>2 DEF RoomOK
<1>3. LaunchesOK'
  <2> SUFFICES ASSUME NEW b \in 0..Window
               PROVE  SumFunctionOnSet(launches', 0..b-1) <= Cardinality(Young(window', b))
    BY DEF LaunchesOK
  <2>1. Window \in Nat
    BY LimiterConstants
  <2>2. /\ SumFunctionOnSet(launches, 0..b-1) \in Nat
        /\ SumFunctionOnSet(launches, 0..b-1) <= Cardinality(Young(window, b))
        /\ Cardinality(Young(window, b)) \in Nat /\ Cardinality(Young(window', b)) \in Nat
    <3>1. window' \in Seq(Reservation) /\ window \in Seq(Reservation)
      BY <1>1 DEF LimiterTypes
    <3>2. Cardinality(Young(window, b)) \in Nat /\ Cardinality(Young(window', b)) \in Nat
      BY <3>1, YoungFinite
    <3> QED  BY <3>2, LaunchNat DEF LaunchesOK, LimiterTypes
  <2>3. CASE b = 0
    <3>1. 0..b-1 = {}
      BY <2>3
    <3>2. SumFunctionOnSet(launches', {}) = 0
      BY FS_EmptySet, SumStep
    <3> QED  BY <2>2, <3>1, <3>2
  <2>4. CASE b # 0
    <3>1. b \in 1..Window
      BY <2>1, <2>4
    <3>2. Cardinality(Young(window', b)) >= Cardinality(Young(window, b)) + 1
      BY <3>1, ReservesYoung
    <3>3. SumFunctionOnSet(launches', 0..b-1) = SumFunctionOnSet(launches, 0..b-1)
          \/ SumFunctionOnSet(launches', 0..b-1) = SumFunctionOnSet(launches, 0..b-1) + 1
      BY <3>1, LaunchSumsUp
    <3> QED  BY <2>2, <3>2, <3>3
  <2> QED  BY <2>3, <2>4
<1>4. UnansweredOK'
  <2>1. PICK k \in Nat : k = Expired /\ k <= Len(window)
    BY ExpiredIs, EntryIs
  <2>2. PICK m \in Nat : m = Len(Pruned) /\ m = Len(window) - k
    BY <2>1, PrunedIs, EntryIs
  <2>3. /\ Len(window') = m + 1 /\ window' \in Seq(Reservation)
        /\ \A n \in 1..m : window'[n] = window[n + k]
        /\ window'[m + 1] = [by |-> t, age |-> 0, estimate |-> e, tokens |-> e]
    BY <2>1, <2>2, ReservesIs
  <2>4. DOMAIN window' = 1..m+1 /\ DOMAIN window = 1..m+k /\ Len(window) = m + k
    BY <2>1, <2>2, <2>3, LenProperties, EntryIs
  <2>5. window'[m + 1].by = t /\ window'[m + 1].tokens = window'[m + 1].estimate
    BY <2>3
  <2> SUFFICES ASSUME NEW u \in Tasks, pc'[u] = "sent", NEW n \in Latest(u)'
               PROVE  window'[n].tokens = window'[n].estimate
    BY DEF UnansweredOK
  <2>6. n \in 1..m+1 /\ window'[n].by = u /\ \A i \in n+1..m+1 : window'[i].by # u
    BY <2>3, <2>4 DEF Latest
  <2>7. CASE n = m + 1
    BY <2>5, <2>7
  <2>8. CASE n # m + 1
    <3>1. n \in 1..m /\ m + 1 \in n+1..m+1
      BY <2>6, <2>8
    <3>2. u # t /\ pc[u] = "sent"
      BY <2>5, <2>6, <3>1
    <3>3. n + k \in 1..m+k /\ window[n + k] = window'[n]
      BY <2>3, <3>1
    <3>4. \A i \in n+k+1..m+k : window[i].by # u
      <4> SUFFICES ASSUME NEW i \in n+k+1..m+k PROVE window[i].by # u
        OBVIOUS
      <4>1. i - k \in n+1..m+1 /\ i - k \in 1..m /\ (i - k) + k = i
        BY <3>1
      <4> QED  BY <2>3, <2>6, <4>1
    <3>5. n + k \in Latest(u)
      BY <2>4, <2>6, <3>3, <3>4 DEF Latest
    <3>6. window[n + k].tokens = window[n + k].estimate
      BY <3>2, <3>5 DEF UnansweredOK
    <3> QED  BY <3>3, <3>6
  <2> QED  BY <2>7, <2>8
<1>5. TokensOK'
  BY <1>1, AdmittedTokens DEF TokensOK
<1> QED  BY <1>1, <1>2, <1>3, <1>4, <1>5

\* A window whose entries are as old, and take no more, as before.
LEMMA KeptShrinks ==
  ASSUME LimiterTypes, NEW w \in Seq(Reservation), Len(w) = Len(window),
         \A n \in 1..Len(window) : Kept(w[n]) <= Kept(window[n])
  PROVE  KeptSum(w) <= KeptSum(window)
<1>1. PICK L \in Nat : L = Len(window)
  BY EntryIs
<1>2. window \in Seq(Reservation)
  BY DEF LimiterTypes
<1>3. PICK f : f = [n \in 1..L |-> Kept(w[n])]
  OBVIOUS
<1>4. PICK g : g = [n \in 1..L |-> Kept(window[n])]
  OBVIOUS
<1>5. /\ IsFiniteSet(1..L)
      /\ KeptSum(w) = SumFunctionOnSet(f, 1..L)
      /\ \A n \in 1..L : Kept(w[n]) \in Nat
  BY <1>1, <1>3, KeptSums
<1>6. /\ KeptSum(window) = SumFunctionOnSet(g, 1..L)
      /\ \A n \in 1..L : Kept(window[n]) \in Nat
  BY <1>1, <1>2, <1>4, KeptSums
<1>7. \A n \in 1..L : f[n] \in Nat /\ g[n] \in Nat /\ f[n] <= g[n]
  BY <1>1, <1>3, <1>4, <1>5, <1>6
<1>8. SumFunctionOnSet(f, 1..L) <= SumFunctionOnSet(g, 1..L)
  BY <1>5, <1>7, SumMonotone
<1> QED  BY <1>5, <1>6, <1>8

LEMMA ReconcileKeeps ==
  ASSUME LimiterInv, NEW t \in Tasks, pc[t] = "sent", NEW usage \in Nat,
         Reconciles(t, usage), UNCHANGED launches,
         \A u \in Tasks : pc'[u] = "sent" => u # t /\ pc[u] = "sent"
  PROVE  LimiterInv'
<1> USE DEF LimiterInv
<1>1. PICK L \in Nat : L = Len(window) /\ DOMAIN window = 1..L
  BY EntryIs
<1>2. \A n \in 1..L :
        /\ window[n] \in Reservation /\ window[n].estimate \in Nat
        /\ window[n].tokens \in Nat
  BY <1>1, EntryIs
<1>3. window' = [n \in 1..L |-> IF n \in Latest(t) /\ usage > 0
                                THEN [window[n] EXCEPT !.tokens = usage] ELSE window[n]]
  BY <1>1 DEF Reconciles
<1>4. \A n \in 1..L : window'[n] \in Reservation
  BY <1>2, <1>3 DEF Reservation
<1>5. window' \in Seq(Reservation) /\ Len(window') = L /\ DOMAIN window' = 1..L
  <2>1. window' \in [1..L -> Reservation]
    BY <1>3, <1>4
  <2>2. window' \in Seq(Reservation)
    BY <2>1, FunctionIsSeq
  <2> QED  BY <2>1, <2>2, LenProperties
<1>6. \A n \in 1..L :
        /\ window'[n].age = window[n].age /\ window'[n].by = window[n].by
        /\ window'[n].estimate = window[n].estimate
        /\ n \notin Latest(t) => window'[n] = window[n]
        /\ n \in Latest(t) => Kept(window[n]) = window[n].estimate
  BY <1>2, <1>3 DEF UnansweredOK, Kept, Reservation
<1>7. LimiterTypes'
  BY <1>5 DEF LimiterTypes
<1>8. RoomOK'
  BY <1>1, <1>5 DEF RoomOK
<1>9. LaunchesOK'
  <2>1. \A b : Young(window', b) = Young(window, b)
    BY <1>1, <1>5, <1>6 DEF Young
  <2> QED  BY <2>1 DEF LaunchesOK
<1>10. UnansweredOK'
  <2> SUFFICES ASSUME NEW u \in Tasks, pc'[u] = "sent", NEW n \in Latest(u)'
               PROVE  window'[n].tokens = window'[n].estimate
    BY DEF UnansweredOK
  <2>1. u # t /\ pc[u] = "sent"
    OBVIOUS
  <2>2. n \in 1..L /\ window[n].by = u /\ \A k \in n+1..L : window[k].by # u
    BY <1>5, <1>6 DEF Latest
  <2>3. n \in Latest(u) /\ n \notin Latest(t)
    BY <1>1, <2>1, <2>2 DEF Latest
  <2> QED  BY <1>6, <2>1, <2>2, <2>3 DEF UnansweredOK
<1>11. TokensOK'
  <2>1. PICK w \in Seq(Reservation) : w = window'
    BY <1>5
  <2>2. \A n \in 1..L : Kept(w[n]) \in Nat /\ Kept(w[n]) <= w[n].estimate
    BY <1>5, <2>1, KeptSums
  <2>3. \A n \in 1..L : Kept(w[n]) <= Kept(window[n])
    <3> SUFFICES ASSUME NEW n \in 1..L PROVE Kept(w[n]) <= Kept(window[n])
      OBVIOUS
    <3>1. CASE n \in Latest(t)
      BY <1>6, <2>1, <2>2, <3>1
    <3>2. CASE n \notin Latest(t)
      BY <1>6, <2>1, <2>2, <3>2
    <3> QED  BY <3>1, <3>2
  <2>4. KeptSum(w) <= KeptSum(window)
    BY <1>1, <1>5, <2>1, <2>3, KeptShrinks
  <2>5. KeptSum(w) \in Nat /\ KeptSum(window) \in Nat
    BY <1>7, <2>1, KeptSumNat DEF LimiterTypes
  <2> QED  BY <2>1, <2>4, <2>5, LimiterConstants DEF TokensOK
<1> QED  BY <1>7, <1>8, <1>9, <1>10, <1>11

LEMMA TickKeeps ==
  ASSUME LimiterInv, Tick, UNCHANGED pc
  PROVE  LimiterInv'
<1> USE DEF LimiterInv
<1>1. PICK L \in Nat : L = Len(window) /\ DOMAIN window = 1..L
  BY EntryIs
<1>2. Window \in Nat /\ Window > 0
  BY LimiterConstants
<1>3. \A n \in 1..L :
        window[n] \in Reservation /\ window[n].age \in 0..Window
  BY <1>1, EntryIs
<1>4. window' = [n \in 1..L |-> [window[n] EXCEPT !.age = Older(@)]]
  BY <1>1 DEF Tick
<1>5. \A n \in 1..L : /\ window'[n].by = window[n].by
                      /\ window'[n].estimate = window[n].estimate
                      /\ window'[n].tokens = window[n].tokens
                      /\ window'[n].age = Older(window[n].age)
                      /\ window'[n] \in Reservation
  <2>1. \A a \in 0..Window : Older(a) \in 0..Window
    BY <1>2 DEF Older
  <2> QED  BY <1>3, <1>4, <2>1 DEF Reservation
<1>6. window' \in Seq(Reservation) /\ Len(window') = L /\ DOMAIN window' = 1..L
  <2>1. window' \in [1..L -> Reservation]
    BY <1>4, <1>5
  <2>2. window' \in Seq(Reservation)
    BY <2>1, FunctionIsSeq
  <2> QED  BY <2>1, <2>2, LenProperties
<1>7. LimiterTypes'
  <2>1. \A a \in 0..Window-1 : (IF a = 0 THEN 0 ELSE launches[a-1]) \in Nat
    BY <1>2 DEF LimiterTypes
  <2>2. launches' \in [0..Window-1 -> Nat]
    BY <2>1 DEF Tick
  <2> QED  BY <1>6, <2>2 DEF LimiterTypes
<1>8. RoomOK'
  BY <1>1, <1>6 DEF RoomOK
<1>9. LaunchesOK'
  <2> SUFFICES ASSUME NEW b \in 0..Window
               PROVE  SumFunctionOnSet(launches', 0..b-1) <= Cardinality(Young(window', b))
    BY DEF LaunchesOK
  <2>1. IsFiniteSet(Young(window', b)) /\ Cardinality(Young(window', b)) \in Nat
    BY <1>6, YoungFinite
  <2>2. CASE b = 0
    <3>1. 0..b-1 = {}
      BY <2>2
    <3>2. SumFunctionOnSet(launches', {}) = 0
      BY FS_EmptySet, SumStep
    <3> QED  BY <2>1, <3>1, <3>2
  <2>3. CASE b # 0
    <3>1. b \in 1..Window /\ b - 1 \in 0..Window
      BY <1>2, <2>3
    <3>2. SumFunctionOnSet(launches', 0..b-1) <= SumFunctionOnSet(launches, 0..(b-1)-1)
      BY <3>1, LaunchSumsAge
    <3>3. SumFunctionOnSet(launches, 0..(b-1)-1) <= Cardinality(Young(window, b-1))
      BY <3>1 DEF LaunchesOK
    <3>4. Young(window, b-1) \in SUBSET Young(window', b)
      <4>1. \A a \in 0..Window : a < b - 1 => Older(a) < b
        BY <1>2, <3>1 DEF Older
      <4> QED  BY <1>1, <1>3, <1>5, <1>6, <4>1 DEF Young
    <3>5. Cardinality(Young(window, b-1)) <= Cardinality(Young(window', b))
      BY <2>1, <3>4, FS_Subset
    <3>6. SumFunctionOnSet(launches', 0..b-1) \in Nat
      BY <1>7, LaunchNat DEF LimiterTypes
    <3>7. /\ SumFunctionOnSet(launches, 0..(b-1)-1) \in Nat
          /\ Cardinality(Young(window, b-1)) \in Nat
      BY <3>1, LaunchNat, YoungFinite DEF LimiterTypes
    <3> QED  BY <2>1, <3>2, <3>3, <3>5, <3>6, <3>7
  <2> QED  BY <2>2, <2>3
<1>10. UnansweredOK'
  <2> SUFFICES ASSUME NEW u \in Tasks, pc'[u] = "sent", NEW n \in Latest(u)'
               PROVE  window'[n].tokens = window'[n].estimate
    BY DEF UnansweredOK
  <2>1. n \in 1..L /\ window[n].by = u /\ \A k \in n+1..L : window[k].by # u
    BY <1>5, <1>6 DEF Latest
  <2>2. n \in Latest(u)
    BY <1>1, <2>1 DEF Latest
  <2> QED  BY <1>5, <2>1, <2>2 DEF UnansweredOK
<1>11. TokensOK'
  <2>1. \A n \in 1..L : Kept(window'[n]) = Kept(window[n])
    BY <1>5 DEF Kept
  <2>2. PICK f : f = [n \in 1..L |-> Kept(window[n])]
    OBVIOUS
  <2>3. f = [n \in 1..L |-> Kept(window'[n])]
    BY <2>1, <2>2
  <2>4. KeptSum(window') = KeptSum(window)
    BY <1>1, <1>6, <2>2, <2>3 DEF KeptSum
  <2> QED  BY <2>4 DEF TokensOK
<1> QED  BY <1>7, <1>8, <1>9, <1>10, <1>11

LEMMA FrameKeeps ==
  ASSUME LimiterInv, UNCHANGED <<window, launches>>,
         \A u \in Tasks : pc'[u] = "sent" => pc[u] = "sent"
  PROVE  LimiterInv'
<1>1. UnansweredOK'
  BY DEF LimiterInv, UnansweredOK, Latest
<1>2. LimiterTypes' /\ RoomOK' /\ LaunchesOK' /\ TokensOK'
  BY DEF LimiterInv, LimiterTypes, RoomOK, LaunchesOK, TokensOK
<1> QED  BY <1>1, <1>2 DEF LimiterInv

LEMMA FreshKeeps ==
  FreshLimiter /\ pc = NoTask => LimiterInv
<1> SUFFICES ASSUME FreshLimiter, pc = NoTask PROVE LimiterInv
  OBVIOUS
<1> USE LimiterConstants DEF FreshLimiter, NoTask
<1>1. window \in Seq(Reservation) /\ Len(window) = 0 /\ DOMAIN window = {}
  BY EmptySeq, LenProperties
<1>2. LimiterTypes
  BY <1>1 DEF LimiterTypes
<1>3. RoomOK
  BY <1>1 DEF RoomOK
<1>4. LaunchesOK
  <2> SUFFICES ASSUME NEW b \in 0..Window
               PROVE  SumFunctionOnSet(launches, 0..b-1) <= Cardinality(Young(window, b))
    BY DEF LaunchesOK
  <2>1. IsFiniteSet(0..b-1)
    BY <1>2, LaunchNat DEF LimiterTypes
  <2>2. \A a \in 0..b-1 : launches[a] = 0
    OBVIOUS
  <2>3. SumFunctionOnSet(launches, 0..b-1) = 0
    BY <2>1, <2>2, SumZero
  <2>4. Cardinality(Young(window, b)) \in Nat
    BY <1>1, YoungFinite
  <2> QED  BY <2>3, <2>4
<1>5. UnansweredOK
  BY DEF UnansweredOK
<1>6. TokensOK
  <2>1. PICK f : f = [n \in DOMAIN window |-> Kept(window[n])]
    OBVIOUS
  <2>2. DOMAIN f = {}
    BY <1>1, <2>1
  <2>3. KeptSum(window) = SumFunctionOnSet(f, {})
    BY <2>1, <2>2 DEF KeptSum, SumFunction
  <2>4. SumFunctionOnSet(f, {}) = 0
    BY FS_EmptySet, SumStep
  <2> QED  BY <2>3, <2>4 DEF TokensOK
<1> QED  BY <1>2, <1>3, <1>4, <1>5, <1>6 DEF LimiterInv

LEMMA LimiterStep == IInv /\ LimiterInv /\ [Next]_vars => LimiterInv'
<1> SUFFICES ASSUME IInv, LimiterInv, [Next]_vars PROVE LimiterInv'
  OBVIOUS
<1>1. DOMAIN pc = Tasks
  BY DEF IInv, TypesOK
<1>2. CASE \/ StartRun \/ DrainOne \/ EndOfSource \/ GatherRaises \/ UNCHANGED vars
  <2>1. UNCHANGED <<window, launches, pc>>
    BY <1>2 DEF StartRun, DrainOne, EndOfSource, GatherRaises, vars, limiter
  <2> QED  BY <2>1, FrameKeeps
<1>3. ASSUME NEW t \in Tasks, Skip(t) \/ Start(t) PROVE LimiterInv'
  <2>1. UNCHANGED <<window, launches>> /\ (pc' = pc \/ pc' = [pc EXCEPT ![t] = "queued"])
    BY <1>3 DEF Skip, Start, Goes, limiter
  <2> QED  BY <1>1, <2>1, FrameKeeps
<1>4. CASE GatherAll \/ Unwind \/ Crash \/ HungIsKilled
  <2>1. FreshLimiter' /\ pc' = NoTask
    BY <1>4 DEF GatherAll, Unwind, Crash, HungIsKilled, Closes, NewLimiter, FreshLimiter
  <2>2. FreshLimiter' /\ (pc = NoTask)' => LimiterInv'
    BY FreshKeeps, PTL
  <2> QED  BY <2>1, <2>2 DEF NoTask
<1>5. CASE TimePasses
  BY <1>5, TickKeeps DEF TimePasses
<1>6. ASSUME NEW t \in Tasks, Acquire(t) PROVE LimiterInv'
  BY <1>1, <1>6, FrameKeeps DEF Acquire, Goes
<1>7. ASSUME NEW t \in Tasks, Send(t) \/ RefuseRepair(t) \/ MarkFails(t) PROVE LimiterInv'
  <2>1. Estimate(t) \in Nat
    BY LimiterConstants DEF Estimate
  <2>2. Admits(Estimate(t)) /\ Reserves(t, Estimate(t))
    BY <1>7 DEF Send, RefuseRepair, MarkFails, Admitted
  <2>3. \/ Launches /\ pc' = [pc EXCEPT ![t] = "sent"]
        \/ UNCHANGED launches /\ pc' = [pc EXCEPT ![t] = "done"]
    BY <1>7 DEF Send, RefuseRepair, MarkFails, Goes
  <2> QED  BY <1>1, <2>1, <2>2, <2>3, ReserveKeeps
<1>8. ASSUME NEW t \in Tasks, pc[t] = "sent", UNCHANGED launches,
             UNCHANGED window \/ (\E usage \in Usages : Reconciles(t, usage)),
             NEW s \in {"done", "raised", "polling", "queued"}, Goes(t, s)
      PROVE  LimiterInv'
  <2>1. \A u \in Tasks : pc'[u] = "sent" => u # t /\ pc[u] = "sent"
    BY <1>1, <1>8 DEF Goes
  <2>2. CASE UNCHANGED window
    BY <1>8, <2>1, <2>2, FrameKeeps
  <2>3. ASSUME NEW usage \in Usages, Reconciles(t, usage) PROVE LimiterInv'
    <3>1. usage \in Nat
      BY LimiterConstants
    <3> QED  BY <1>8, <2>1, <2>3, <3>1, ReconcileKeeps
  <2> QED  BY <1>8, <2>2, <2>3
<1>9. ASSUME NEW t \in Tasks, Extracted(t) \/ SaveFails(t) \/ Repair(t) PROVE LimiterInv'
  <2>1. pc[t] = "sent" /\ UNCHANGED launches /\ \E usage \in Usages : Reconciles(t, usage)
    BY <1>9 DEF Extracted, SaveFails, Repair, Answered
  <2>2. Goes(t, "done") \/ Goes(t, "raised") \/ Goes(t, "polling")
    BY <1>9 DEF Extracted, SaveFails, Repair
  <2> QED  BY <1>8, <2>1, <2>2
<1>10. ASSUME NEW t \in Tasks, FailsForGood(t) \/ Retry(t) \/ Fallback(t) \/ Exhausted(t)
       PROVE LimiterInv'
  <2>1. Raises(t)
    BY <1>10 DEF FailsForGood, Retry, Fallback, Exhausted, FailsForNow
  <2>2. pc[t] = "sent" /\ UNCHANGED launches
        /\ (UNCHANGED window \/ \E usage \in Usages : Reconciles(t, usage))
    BY <2>1 DEF Raises, Answered
  <2>3. Goes(t, "done") \/ Goes(t, "queued")
    BY <1>10 DEF FailsForGood, Retry, Fallback, Exhausted
  <2> QED  BY <1>8, <2>2, <2>3
<1> QED
  BY <1>2, <1>3, <1>4, <1>5, <1>6, <1>7, <1>9, <1>10 DEF Next, Stream, Job

LEMMA LimiterHolds == Spec => [](IInv /\ LimiterInv)
<1>1. Init => LimiterInv
  <2> SUFFICES ASSUME Init PROVE LimiterInv
    OBVIOUS
  <2>1. FreshLimiter /\ pc = NoTask
    BY DEF Init
  <2> QED  BY <2>1, FreshKeeps
<1> QED  BY InitOK, StepOK, LimiterStep, <1>1, PTL DEF Spec

\* At most Rpm requests are launched in any rolling window, for any number of
\* tasks, slots and answers (RollingRateHandler.acquire and _prune).
THEOREM RpmSafe == Spec => []RpmRespected
<1>1. IInv /\ LimiterInv => RpmRespected
  <2> SUFFICES ASSUME LimiterInv PROVE RpmRespected
    OBVIOUS
  <2> USE DEF LimiterInv
  <2>1. Window \in 0..Window /\ Rpm \in Nat
    BY LimiterConstants
  <2>2. SumFunction(launches) = SumFunctionOnSet(launches, 0..Window-1)
    BY DEF LimiterTypes, SumFunction
  <2>3. SumFunctionOnSet(launches, 0..Window-1) <= Cardinality(Young(window, Window))
    BY <2>1 DEF LaunchesOK
  <2>4. Cardinality(Young(window, Window)) \in Nat
        /\ Cardinality(Young(window, Window)) <= Len(window) /\ Len(window) \in Nat
    BY YoungFinite, LenProperties DEF LimiterTypes
  <2>5. SumFunctionOnSet(launches, 0..Window-1) \in Nat
    BY <2>1, LaunchNat DEF LimiterTypes
  <2> QED  BY <2>1, <2>2, <2>3, <2>4, <2>5 DEF RpmRespected, RoomOK
<1> QED  BY LimiterHolds, <1>1, PTL

\* The tokens in the window stay within the limit but for what the answers used
\* beyond their estimates (RollingRateHandler.acquire and reconcile).
THEOREM TpmSafe == Spec => []TpmRespected
<1>1. IInv /\ LimiterInv => TpmRespected
  <2> SUFFICES ASSUME LimiterInv PROVE TpmRespected
    OBVIOUS
  <2> USE DEF LimiterInv
  <2>1. PICK L \in Nat : L = Len(window) /\ DOMAIN window = 1..L
    BY EntryIs
  <2>2. PICK S : S = 1..L
    OBVIOUS
  <2>3. PICK f : f = [n \in S |-> Kept(window[n])]
    OBVIOUS
  <2>4. PICK g : g = [n \in S |-> Excess(window[n])]
    OBVIOUS
  <2>5. PICK h : h = [n \in S |-> window[n].tokens]
    OBVIOUS
  <2>6. IsFiniteSet(S) /\ KeptSum(window) = SumFunctionOnSet(f, S)
    BY <2>1, <2>2, <2>3, KeptSums DEF LimiterTypes
  <2>7. \A n \in S : f[n] \in Int /\ g[n] \in Int /\ h[n] = f[n] + g[n]
    <3>1. \A n \in S : window[n].tokens \in Nat /\ window[n].estimate \in Nat
      BY <2>1, <2>2, EntryIs
    <3> QED  BY <2>3, <2>4, <2>5, <3>1 DEF Kept, Excess
  <2>8. SumFunctionOnSet(h, S) = SumFunctionOnSet(f, S) + SumFunctionOnSet(g, S)
    BY <2>6, <2>7, SumAdds
  <2>9. Sum(window) = SumFunctionOnSet(h, S)
    BY <2>1, <2>2, <2>5 DEF Sum, SumFunction
  <2>10. SumFunction([n \in DOMAIN window |-> Excess(window[n])]) = SumFunctionOnSet(g, S)
    BY <2>1, <2>2, <2>4 DEF SumFunction
  <2>11. PICK a \in Int : a = SumFunctionOnSet(f, S)
    BY <2>6, <2>7, SumType
  <2>12. PICK b \in Int : b = SumFunctionOnSet(g, S)
    BY <2>6, <2>7, SumType
  <2>13. a <= InputTpm
    BY <2>6, <2>11 DEF TokensOK
  <2> QED  BY <2>8, <2>9, <2>10, <2>11, <2>12, <2>13, LimiterConstants DEF TpmRespected
<1> QED  BY LimiterHolds, <1>1, PTL

-----------------------------------------------------------------------------
(* The types.                                                               *)

StreamTypes ==
  /\ phase \in {"off", "hung", "pull", "drain", "gather", "unwind"}
  /\ pending \subseteq started
  /\ \A t \in Tasks : remaining[t] <= Limit(model[t])
  /\ repairs \in [Tasks -> 0..MaxRepairs]
  /\ faults <= MaxFaults

LEMMA StreamConstants ==
  /\ MaxRepairs \in Nat /\ MaxFaults \in Nat
  /\ MaxAttempts \in Nat /\ FallbackAttempts \in Nat
BY AiAssumption

LEMMA ClosesTypes ==
  ASSUME StreamTypes, Closes, UNCHANGED faults \/ Fault, faults \in Nat
  PROVE  StreamTypes'
<1> USE StreamConstants DEF StreamTypes, Closes, Primary, ZeroOf, Limit
<1>1. faults' <= MaxFaults
  BY DEF Fault
<1>2. repairs' \in [Tasks -> 0..MaxRepairs]
  OBVIOUS
<1>3. \A t \in Tasks : remaining'[t] <= Limit(model'[t])
  OBVIOUS
<1> QED  BY <1>1, <1>2, <1>3

LEMMA StreamTypesStep == IInv /\ StreamTypes /\ [Next]_vars => StreamTypes'
<1> SUFFICES ASSUME IInv, StreamTypes, [Next]_vars PROVE StreamTypes'
  OBVIOUS
<1> USE StreamConstants
<1>1. /\ model \in [Tasks -> Models] /\ remaining \in [Tasks -> Nat] /\ faults \in Nat
      /\ pc \in [Tasks -> Working \cup {"none", "done", "raised"}]
  BY DEF IInv, TypesOK
<1>2. CASE \/ StartRun \/ DrainOne \/ EndOfSource \/ GatherRaises \/ TimePasses
           \/ UNCHANGED vars
  BY <1>1, <1>2 DEF StartRun, DrainOne, EndOfSource, GatherRaises, TimePasses, vars, budget,
     stream, StreamTypes, Fault
<1>3. ASSUME NEW t \in Tasks, Skip(t) PROVE StreamTypes'
  BY <1>3 DEF Skip, StreamTypes, budget
<1>4. ASSUME NEW t \in Tasks, Start(t) PROVE StreamTypes'
  <2>1. model[t] = "primary"
    BY <1>4 DEF Start, IInv, WindowOK, BudgetOK
  <2>2. \A u \in Tasks : remaining'[u] <= Limit(model'[u])
    BY <1>1, <1>4, <2>1 DEF Start, StreamTypes, Limit
  <2> QED  BY <1>4, <2>2 DEF Start, StreamTypes
<1>5. CASE GatherAll \/ Unwind \/ Crash \/ HungIsKilled
  <2>1. Closes /\ (UNCHANGED faults \/ Fault)
    BY <1>5 DEF GatherAll, Unwind, Crash, HungIsKilled
  <2> QED  BY <1>1, <2>1, ClosesTypes
<1>6. ASSUME NEW t \in Tasks, Send(t) PROVE StreamTypes'
  <2>1. \A u \in Tasks : remaining'[u] <= Limit(model'[u])
    <3>1. \A u \in Tasks : Limit(model[u]) \in Nat
      BY DEF Limit
    <3> QED  BY <1>1, <1>6, <3>1 DEF Send, Spend, StreamTypes
  <2> QED  BY <1>6, <2>1 DEF Send, StreamTypes, stream
<1>7. ASSUME NEW t \in Tasks,
             Acquire(t) \/ RefuseRepair(t) \/ MarkFails(t) \/ Extracted(t) \/ SaveFails(t)
      PROVE  StreamTypes'
  <2>1. UNCHANGED <<stream, budget>> /\ (UNCHANGED faults \/ Fault)
    BY <1>7 DEF Acquire, RefuseRepair, MarkFails, Extracted, SaveFails
  <2> QED  BY <1>1, <2>1 DEF StreamTypes, stream, budget, Fault
<1>8. ASSUME NEW t \in Tasks, Repair(t) PROVE StreamTypes'
  <2>1. repairs' \in [Tasks -> 0..MaxRepairs]
    BY <1>8 DEF Repair, StreamTypes
  <2> QED  BY <1>8, <2>1 DEF Repair, StreamTypes, stream
<1>9. ASSUME NEW t \in Tasks, FailsForGood(t) \/ Retry(t) \/ Exhausted(t) \/ Fallback(t)
      PROVE  StreamTypes'
  <2>1. Raises(t)
    BY <1>9 DEF FailsForGood, Retry, Exhausted, Fallback, FailsForNow
  <2>2. repairs' \in [Tasks -> 0..MaxRepairs] /\ UNCHANGED <<stream, faults>>
    BY <2>1 DEF Raises, StreamTypes
  <2>3. \A u \in Tasks : remaining'[u] <= Limit(model'[u])
    <3>1. CASE Fallback(t)
      BY <1>1, <3>1 DEF Fallback, StreamTypes, Limit
    <3>2. CASE UNCHANGED <<model, remaining>>
      BY <3>2 DEF StreamTypes
    <3> QED  BY <1>9, <3>1, <3>2 DEF FailsForGood, Retry, Exhausted
  <2> QED  BY <2>2, <2>3 DEF StreamTypes, stream
<1> QED
  BY <1>2, <1>3, <1>4, <1>5, <1>6, <1>7, <1>8, <1>9 DEF Next, Stream, Job

\* The rows, the stream and the limiter keep their types.
THEOREM TypesSafe == Spec => []TypeOK
<1>1. Init => StreamTypes
  BY StreamConstants DEF Init, StreamTypes, Primary, ZeroOf, Limit
<1>2. IInv /\ LimiterInv /\ StreamTypes => TypeOK
  <2> SUFFICES ASSUME IInv, LimiterInv, StreamTypes PROVE TypeOK
    OBVIOUS
  <2>1. LimiterTypeOK
    BY DEF IInv, TypesOK, LimiterInv, LimiterTypes, LimiterTypeOK
  <2>2. \A t \in Tasks : remaining[t] \in 0..Limit(model[t])
    <3>1. \A t \in Tasks : Limit(model[t]) \in Nat /\ remaining[t] \in Nat
      BY StreamConstants DEF IInv, TypesOK, Limit
    <3> QED  BY <3>1 DEF StreamTypes
  <2>3. faults \in 0..MaxFaults
    BY StreamConstants DEF IInv, TypesOK, StreamTypes
  <2> QED  BY <2>1, <2>2, <2>3 DEF IInv, TypesOK, StreamTypes, TypeOK
<1> QED  BY LimiterHolds, StreamTypesStep, <1>1, <1>2, PTL DEF Spec
=============================================================================
