--------------------------- MODULE NaturalLemmas ----------------------------
(***************************************************************************)
(* Least and greatest members of sets of naturals, and sums over finite     *)
(* sets.  Every induction of this project goes through them: what fails      *)
(* somewhere fails first somewhere.                                          *)
(***************************************************************************)
EXTENDS Integers, FiniteSetsExt, FiniteSetTheorems, WellFoundedInduction, TLAPS

LEMMA LeastNatural ==
    ASSUME NEW T \in SUBSET Nat, T # {}
    PROVE  \E m \in T : \A k \in T : m <= k
  <1>1. IsWellFoundedOn(OpToRel(<, Nat), Nat)
    BY NatLessThanWellFounded
  <1>2. PICK m \in T : \A k \in T : ~ (<<k, m>> \in OpToRel(<, Nat))
    BY <1>1, WFMin
  <1>3. \A k \in T : ~(k < m)
    BY <1>2 DEF OpToRel
  <1> QED BY <1>3

LEMMA GreatestNatural ==
    ASSUME NEW T \in SUBSET Nat, T # {}, NEW n \in Nat, \A k \in T : k <= n
    PROVE  \E m \in T : \A k \in T : k <= m
  <1> DEFINE gaps == {n - k : k \in T}
  <1>1. \A k \in T : n - k \in Nat
    OBVIOUS
  <1>2. gaps \in SUBSET Nat /\ gaps # {}
    BY <1>1
  <1>3. PICK g \in gaps : \A h \in gaps : g <= h
    <2> HIDE DEF gaps
    <2> QED BY <1>2, LeastNatural
  <1>4. PICK m \in T : g = n - m
    BY <1>3
  <1>5. \A k \in T : n - m <= n - k
    BY <1>3, <1>4
  <1> QED BY <1>4, <1>5

LEMMA MaxOfBounded ==
    ASSUME NEW T \in SUBSET Nat, T # {}, NEW n \in Nat, \A k \in T : k <= n
    PROVE  Max(T) \in T /\ \A k \in T : k <= Max(T)
  BY GreatestNatural DEF Max

-----------------------------------------------------------------------------
(* Sums of the weights w of the members of finite sets.                      *)

LEMMA LeastSet ==
    ASSUME NEW S, IsFiniteSet(S), NEW Bad \in SUBSET (SUBSET S), Bad # {}
    PROVE  \E s \in Bad : \A t \in SUBSET s : t # s => t \notin Bad
  <1> DEFINE sizes == {Cardinality(s) : s \in Bad}
  <1>1. \A s \in SUBSET S : IsFiniteSet(s) /\ Cardinality(s) \in Nat
    BY FS_Subset, FS_CardinalityType
  <1>2. sizes \in SUBSET Nat /\ sizes # {}
    BY <1>1
  <1>3. PICK m \in sizes : \A k \in sizes : m <= k
    <2> HIDE DEF sizes
    <2> QED BY <1>2, LeastNatural
  <1>4. PICK s \in Bad : m = Cardinality(s)
    BY <1>3
  <1>5. ASSUME NEW t \in SUBSET s, t # s, t \in Bad
        PROVE  FALSE
    <2>1. IsFiniteSet(s) /\ Cardinality(s) \in Nat /\ Cardinality(t) \in Nat
      BY <1>1, <1>4, <1>5
    <2>2. Cardinality(t) <= Cardinality(s) /\ Cardinality(t) # Cardinality(s)
      BY <1>5, <2>1, FS_Subset
    <2>3. Cardinality(s) <= Cardinality(t)
      BY <1>3, <1>4, <1>5
    <2> QED BY <2>1, <2>2, <2>3
  <1> QED BY <1>4, <1>5

(* The member of a set that is added next. *)
Picked(s) == CHOOSE x \in s : TRUE

(* g adds up every subset of S. *)
Adds(g, w, S) ==
    g = [s \in SUBSET S |-> IF s = {} THEN 0 ELSE w[Picked(s)] + g[s \ {Picked(s)}]]

LEMMA AddsStep ==
    ASSUME NEW g, NEW w, NEW S, Adds(g, w, S), NEW s \in SUBSET S
    PROVE  /\ s = {} => g[s] = 0
           /\ s # {} => /\ Picked(s) \in s
                        /\ g[s] = w[Picked(s)] + g[s \ {Picked(s)}]
  <1>1. g[s] = IF s = {} THEN 0 ELSE w[Picked(s)] + g[s \ {Picked(s)}]
    BY DEF Adds
  <1>2. s # {} => Picked(s) \in s
    BY DEF Picked
  <1> QED BY <1>1, <1>2

LEMMA AddsNaturals ==
    ASSUME NEW g, NEW w, NEW S, IsFiniteSet(S), \A x \in S : w[x] \in Nat, Adds(g, w, S)
    PROVE  \A s \in SUBSET S : g[s] \in Nat
  <1> DEFINE Bad == {s \in SUBSET S : g[s] \notin Nat}
  <1>1. SUFFICES ASSUME Bad # {} PROVE FALSE
    OBVIOUS
  <1>2. PICK s \in Bad : \A t \in SUBSET s : t # s => t \notin Bad
    <2>1. Bad \in SUBSET (SUBSET S)
      OBVIOUS
    <2> HIDE DEF Bad
    <2> QED BY <1>1, <2>1, LeastSet
  <1>0. s \in SUBSET S /\ g[s] \notin Nat
    BY <1>2
  <1>3. s # {} /\ Picked(s) \in s /\ g[s] = w[Picked(s)] + g[s \ {Picked(s)}]
    <2> HIDE DEF Bad
    <2>1. s = {} => g[s] = 0
      BY <1>0, AddsStep
    <2>2. s # {}
      BY <1>0, <2>1
    <2> QED BY <1>0, <2>2, AddsStep
  <1>4. PICK x \in s : g[s] = w[x] + g[s \ {x}]
    BY <1>3
  <1>5. g[s \ {x}] \in Nat
    BY <1>2, <1>4
  <1>6. w[x] \in Nat
    BY <1>2, <1>4
  <1> QED BY <1>2, <1>4, <1>5, <1>6

LEMMA AddsAgree ==
    ASSUME NEW g, NEW h, NEW w, NEW S, NEW T, Adds(g, w, S), Adds(h, w, T),
           NEW s \in SUBSET (S \cap T), IsFiniteSet(s)
    PROVE  g[s] = h[s]
  <1> DEFINE Bad == {t \in SUBSET s : g[t] # h[t]}
  <1>1. SUFFICES ASSUME Bad # {} PROVE FALSE
    OBVIOUS
  <1>2. PICK t \in Bad : \A u \in SUBSET t : u # t => u \notin Bad
    <2>1. Bad \in SUBSET (SUBSET s)
      OBVIOUS
    <2> HIDE DEF Bad
    <2> QED BY <1>1, <2>1, LeastSet
  <1>3. t \in SUBSET S /\ t \in SUBSET T /\ t \in SUBSET s
    BY <1>2
  <1>4. t # {}
    BY <1>2, <1>3, AddsStep
  <1>5. /\ Picked(t) \in t
        /\ g[t] = w[Picked(t)] + g[t \ {Picked(t)}]
        /\ h[t] = w[Picked(t)] + h[t \ {Picked(t)}]
    BY <1>3, <1>4, AddsStep
  <1>6. g[t \ {Picked(t)}] = h[t \ {Picked(t)}]
    BY <1>2, <1>3, <1>5
  <1> QED BY <1>2, <1>5, <1>6

LEMMA AddsExists ==
    ASSUME NEW w, NEW S, IsFiniteSet(S)
    PROVE  \E g : Adds(g, w, S)
  <1> DEFINE Bad == {s \in SUBSET S : ~ \E g : Adds(g, w, s)}
  <1>1. SUFFICES ASSUME Bad # {} PROVE FALSE
    OBVIOUS
  <1>2. PICK s \in Bad : \A t \in SUBSET s : t # s => t \notin Bad
    <2>1. Bad \in SUBSET (SUBSET S)
      OBVIOUS
    <2> HIDE DEF Bad
    <2> QED BY <1>1, <2>1, LeastSet
  <1>3. \A t \in SUBSET s : t # s => \E g : Adds(g, w, t)
    BY <1>2
  <1>4. \A t \in SUBSET s : IsFiniteSet(t)
    BY <1>2, FS_Subset
  <1> DEFINE sum == [t \in SUBSET s |-> (CHOOSE g : Adds(g, w, t))[t]]
             all == [t \in SUBSET s |-> IF t = {} THEN 0 ELSE w[Picked(t)] + sum[t \ {Picked(t)}]]
  <1>5. ASSUME NEW t \in SUBSET s, t # s
        PROVE  sum[t] = all[t]
    <2> DEFINE g == CHOOSE g : Adds(g, w, t)
    <2>1. Adds(g, w, t)
      BY <1>3, <1>5
    <2>2. sum[t] = g[t]
      OBVIOUS
    <2>3. CASE t = {}
      <3> HIDE DEF g
      <3>1. g[t] = 0
        BY <2>1, <2>3, AddsStep
      <3> QED BY <2>2, <2>3, <3>1
    <2>4. CASE t # {}
      <3> DEFINE x == Picked(t)
                 h == CHOOSE h : Adds(h, w, t \ {x})
      <3>1. x \in t /\ g[t] = w[x] + g[t \ {x}]
        <4> HIDE DEF g
        <4> QED BY <2>1, <2>4, AddsStep
      <3>2. t \ {x} \in SUBSET s /\ t \ {x} # s
        BY <1>5, <3>1
      <3>3. Adds(h, w, t \ {x})
        BY <1>3, <3>2
      <3>4. g[t \ {x}] = h[t \ {x}]
        <4>1. IsFiniteSet(t \ {x})
          BY <1>4, <3>2
        <4> HIDE DEF g, h, x
        <4> QED BY <2>1, <3>3, <4>1, AddsAgree
      <3>5. sum[t \ {x}] = h[t \ {x}]
        BY <3>2
      <3>6. all[t] = w[x] + sum[t \ {x}]
        <4> HIDE DEF sum
        <4> QED BY <2>4
      <3> HIDE DEF g, h, x, sum, all
      <3> QED BY <2>2, <3>1, <3>4, <3>5, <3>6
    <2> QED BY <2>3, <2>4
  <1>6. Adds(all, w, s)
    <2>1. ASSUME NEW t \in SUBSET s, t # {}
          PROVE  sum[t \ {Picked(t)}] = all[t \ {Picked(t)}]
      <3>1. Picked(t) \in t
        BY <2>1 DEF Picked
      <3>2. t \ {Picked(t)} \in SUBSET s /\ t \ {Picked(t)} # s
        BY <3>1
      <3> HIDE DEF sum, all
      <3> QED BY <1>5, <3>2
    <2>2. all = [t \in SUBSET s |-> IF t = {} THEN 0 ELSE w[Picked(t)] + all[t \ {Picked(t)}]]
      <3>1. all = [t \in SUBSET s |-> IF t = {} THEN 0 ELSE w[Picked(t)] + sum[t \ {Picked(t)}]]
        OBVIOUS
      <3> HIDE DEF sum, all
      <3> QED BY <2>1, <3>1
    <2> HIDE DEF all
    <2> QED BY <2>2 DEF Adds
  <1> HIDE DEF all
  <1> QED BY <1>2, <1>6

(* Whichever member is taken out, the rest adds up to what is left. *)
LEMMA AddsAny ==
    ASSUME NEW g, NEW w, NEW S, IsFiniteSet(S), \A x \in S : w[x] \in Nat, Adds(g, w, S)
    PROVE  \A s \in SUBSET S : \A x \in s : g[s] = w[x] + g[s \ {x}]
  <1> DEFINE Bad == {s \in SUBSET S : \E x \in s : g[s] # w[x] + g[s \ {x}]}
  <1>1. SUFFICES ASSUME Bad # {} PROVE FALSE
    OBVIOUS
  <1>2. PICK s \in Bad : \A t \in SUBSET s : t # s => t \notin Bad
    <2>1. Bad \in SUBSET (SUBSET S)
      OBVIOUS
    <2> HIDE DEF Bad
    <2> QED BY <1>1, <2>1, LeastSet
  <1>3. PICK x \in s : g[s] # w[x] + g[s \ {x}]
    BY <1>2
  <1>0. s \in SUBSET S
    BY <1>2
  <1>4. PICK y \in s : g[s] = w[y] + g[s \ {y}]
    <2>1. Picked(s) \in s /\ g[s] = w[Picked(s)] + g[s \ {Picked(s)}]
      <3> HIDE DEF Bad
      <3> QED BY <1>0, <1>3, AddsStep
    <2> QED BY <2>1
  <1>5. x # y
    BY <1>3, <1>4
  <1>6. g[s \ {y}] = w[x] + g[(s \ {y}) \ {x}]
    BY <1>2, <1>4, <1>5
  <1>7. g[s \ {x}] = w[y] + g[(s \ {x}) \ {y}]
    BY <1>2, <1>3, <1>5
  <1>8. (s \ {y}) \ {x} = (s \ {x}) \ {y}
    OBVIOUS
  <1>9. w[x] \in Nat /\ w[y] \in Nat /\ g[(s \ {x}) \ {y}] \in Nat
    BY <1>2, AddsNaturals
  <1> DEFINE rest == g[(s \ {x}) \ {y}]
  <1>10. g[s] = w[y] + (w[x] + rest) /\ g[s \ {x}] = w[y] + rest
    BY <1>4, <1>6, <1>7, <1>8
  <1> HIDE DEF Bad, rest
  <1>11. w[y] + (w[x] + rest) = w[x] + (w[y] + rest)
    BY <1>9 DEF rest
  <1> QED BY <1>3, <1>10, <1>11

LEMMA AddsMonotone ==
    ASSUME NEW g, NEW w, NEW S, IsFiniteSet(S), \A x \in S : w[x] \in Nat, Adds(g, w, S),
           NEW s \in SUBSET S, NEW t \in SUBSET s
    PROVE  g[t] <= g[s]
  <1> DEFINE Bad == {u \in SUBSET s : t \subseteq u /\ ~(g[t] <= g[u])}
  <1>1. SUFFICES ASSUME Bad # {} PROVE FALSE
    BY DEF Bad
  <1>2. PICK u \in Bad : \A v \in SUBSET u : v # u => v \notin Bad
    <2>1. Bad \in SUBSET (SUBSET S)
      OBVIOUS
    <2> HIDE DEF Bad
    <2> QED BY <1>1, <2>1, LeastSet
  <1>3. \A v \in SUBSET S : g[v] \in Nat
    BY AddsNaturals
  <1>4. u # t
    BY <1>2, <1>3
  <1>5. PICK x \in u : x \notin t
    BY <1>2, <1>4
  <1>6. g[u] = w[x] + g[u \ {x}]
    <2>1. u \in SUBSET S
      BY <1>2
    <2> QED BY <1>5, <2>1, AddsAny
  <1>7. g[t] <= g[u \ {x}]
    BY <1>2, <1>5
  <1>8. w[x] \in Nat /\ g[u] \in Nat /\ g[u \ {x}] \in Nat /\ g[t] \in Nat
    BY <1>2, <1>3, <1>5
  <1> QED BY <1>2, <1>6, <1>7, <1>8
=============================================================================
