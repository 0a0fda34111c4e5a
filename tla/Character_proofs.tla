-------------------------- MODULE Character_proofs --------------------------
(***************************************************************************)
(* Theorems about Character.tla, for every set of items, slots and skills, *)
(* every catalog of items and caps, and any number of events: the copies   *)
(* of a character are characters, nothing a client may ask for and no      *)
(* fight takes them apart, a restart loses nothing, the windows of the     *)
(* client show what the zone has, and trade and dressing neither lose      *)
(* goods nor make anybody richer.                                          *)
(*                                                                         *)
(* Two operators of the model are recursive functions, the while loop of   *)
(* levelling and the sum of the bonuses of what is worn.  What they give   *)
(* for every argument is proved by looking at a least counterexample: the  *)
(* order of the natural numbers is well-founded.                           *)
(***************************************************************************)
EXTENDS Character, TLAPS, FiniteSetTheorems, WellFoundedInduction

(***************************************************************************)
(* Numbers.                                                                *)
(***************************************************************************)
Less == {pair \in Nat \X Nat : pair[1] < pair[2]}

\* A set of natural numbers that is not empty has a least member.
LEMMA LeastNatural ==
    ASSUME NEW T \in SUBSET Nat, T # {}
    PROVE  \E n \in T : \A m \in T : n <= m
<1>1. IsWellFoundedOn(Less, Nat)
  BY NatLessThanWellFounded DEF OpToRel, Less
<1>2. PICK n \in T : \A m \in T : ~ (<<m, n>> \in Less)
  BY <1>1, WFMin, Zenon
<1>3. \A m \in T : ~ (m < n)
  BY <1>2 DEF Less
<1> QED
  BY <1>3

\* Induction over the natural numbers for a set of them, since an operator cannot be
\* a parameter of a theorem here.
LEMMA AllNaturals ==
    ASSUME NEW T \in SUBSET Nat, 0 \in T, \A n \in T : n + 1 \in T
    PROVE  T = Nat
<1> DEFINE Rest == Nat \ T
<1> SUFFICES ASSUME Rest # {} PROVE FALSE
  OBVIOUS
<1>1. PICK n \in Rest : \A m \in Rest : n <= m
  BY LeastNatural
<1>2. n # 0 /\ n - 1 \in Nat /\ n - 1 \notin Rest
  BY <1>1
<1> QED
  BY <1>1, <1>2

\* The smaller and the larger of two numbers (std::min, std::max).
LEMMA MinOfTwo ==
    ASSUME NEW a \in Int, NEW b \in Int
    PROVE  Min({a, b}) = IF a <= b THEN a ELSE b
BY DEF Min

LEMMA MinOfNaturals ==
    ASSUME NEW a \in Nat, NEW b \in Nat
    PROVE  Min({a, b}) \in Nat /\ Min({a, b}) <= a /\ Min({a, b}) <= b
BY MinOfTwo

LEMMA MaxOfTwo ==
    ASSUME NEW a \in Int, NEW b \in Int
    PROVE  Max({a, b}) = IF a >= b THEN a ELSE b
BY DEF Max

\* What is left after a division by a width is less than the width.
LEMMA Remainder ==
    ASSUME NEW a \in Int, NEW w \in Nat \ {0}
    PROVE  a % w \in 0 .. w - 1
OBVIOUS

\* A product of natural numbers is one.
LEMMA Product ==
    ASSUME NEW a \in Nat, NEW b \in Nat
    PROVE  a * b \in Nat
OBVIOUS
-----------------------------------------------------------------------------
(***************************************************************************)
(* The sum of the bonuses of what is worn (MapThenSumSet).                 *)
(***************************************************************************)
Chosen(s) == CHOOSE x \in s : TRUE

SumsUp(g, v, S) ==
    g = [s \in SUBSET S |-> IF s = {} THEN 0 ELSE v[Chosen(s)] + g[s \ {Chosen(s)}]]

\* There is such a function: it is built up from the smallest sets.
LEMMA SumExists ==
    ASSUME NEW S, IsFiniteSet(S), NEW v \in [S -> Nat]
    PROVE  \E g : SumsUp(g, v, S)
<1> DEFINE Small(n) == {s \in SUBSET S : Cardinality(s) <= n}
           Good(n) == \E g \in [Small(n) -> Nat] :
              g = [s \in Small(n) |-> IF s = {} THEN 0
                      ELSE v[Chosen(s)] + g[s \ {Chosen(s)}]]
<1>f. \A s \in SUBSET S : IsFiniteSet(s) /\ Cardinality(s) \in Nat
  BY FS_Subset, FS_CardinalityType
<1>c. \A s \in SUBSET S : s # {} => Chosen(s) \in s
  BY DEF Chosen
<1>m. \A n \in Nat : \A s \in Small(n + 1) : s # {} => s \ {Chosen(s)} \in Small(n)
  <2> SUFFICES ASSUME NEW n \in Nat, NEW s \in Small(n + 1), s # {}
               PROVE  s \ {Chosen(s)} \in Small(n)
    OBVIOUS
  <2>1. Cardinality(s \ {Chosen(s)}) = Cardinality(s) - 1
    BY <1>f, <1>c, FS_RemoveElement
  <2> QED
    BY <2>1, <1>f
<1>z. Good(0)
  <2>1. Small(0) = {{}}
    BY <1>f, FS_EmptySet
  <2>2. [s \in Small(0) |-> 0] = [s \in Small(0) |-> IF s = {} THEN 0
                      ELSE v[Chosen(s)] + [t \in Small(0) |-> 0][s \ {Chosen(s)}]]
    BY <2>1
  <2> QED
    BY <2>2
<1>s. \A n \in Nat : Good(n) => Good(n + 1)
  <2> SUFFICES ASSUME NEW n \in Nat, Good(n) PROVE Good(n + 1)
    OBVIOUS
  <2>1. PICK g \in [Small(n) -> Nat] :
              g = [s \in Small(n) |-> IF s = {} THEN 0
                      ELSE v[Chosen(s)] + g[s \ {Chosen(s)}]]
    OBVIOUS
  <2> DEFINE h == [s \in Small(n + 1) |-> IF s = {} THEN 0
                      ELSE v[Chosen(s)] + g[s \ {Chosen(s)}]]
  <2>2. \A s \in Small(n) : s \in Small(n + 1) /\ h[s] = g[s]
    <3>1. \A s \in Small(n) : s \in Small(n + 1)
      BY <1>f
    <3>2. \A s \in Small(n) : g[s] = IF s = {} THEN 0 ELSE v[Chosen(s)] + g[s \ {Chosen(s)}]
      BY <2>1, Zenon
    <3> HIDE DEF Small
    <3> QED
      BY <3>1, <3>2
  <2>3. \A s \in Small(n + 1) : h[s] = IF s = {} THEN 0
                      ELSE v[Chosen(s)] + h[s \ {Chosen(s)}]
    BY <2>2, <1>m
  <2>4. h \in [Small(n + 1) -> Nat]
    BY <1>m, <1>c
  <2>5. h = [s \in Small(n + 1) |-> IF s = {} THEN 0
                      ELSE v[Chosen(s)] + h[s \ {Chosen(s)}]]
    BY <2>3, Zenon
  <2> HIDE DEF h
  <2> QED
    BY <2>4, <2>5
<1>a. \A n \in Nat : Good(n)
  <2> DEFINE T == {n \in Nat : Good(n)}
  <2> HIDE DEF Good
  <2>1. 0 \in T /\ \A n \in T : n + 1 \in T
    BY <1>z, <1>s
  <2>2. T \in SUBSET Nat
    OBVIOUS
  <2> HIDE DEF T
  <2>3. T = Nat
    BY <2>1, <2>2, AllNaturals
  <2> QED
    BY <2>3 DEF T
<1>n. Small(Cardinality(S)) = SUBSET S
  BY <1>f, FS_Subset
<1>g. Good(Cardinality(S))
  <2> HIDE DEF Good
  <2> QED
    BY <1>a, <1>f
<1> HIDE DEF Small
<1> QED
  BY <1>g, <1>n DEF SumsUp

\* And it only has natural numbers for values.
LEMMA SumIsNat ==
    ASSUME NEW S, IsFiniteSet(S), NEW v \in [S -> Nat], NEW g, SumsUp(g, v, S)
    PROVE  g[S] \in Nat
<1>1. \A s \in SUBSET S : g[s] = IF s = {} THEN 0 ELSE v[Chosen(s)] + g[s \ {Chosen(s)}]
  BY Zenon DEF SumsUp
<1>f. \A s \in SUBSET S : IsFiniteSet(s) /\ Cardinality(s) \in Nat
  BY FS_Subset, FS_CardinalityType
<1> DEFINE Wrong == {s \in SUBSET S : g[s] \notin Nat}
           T == {Cardinality(s) : s \in Wrong}
<1> SUFFICES ASSUME Wrong # {} PROVE FALSE
  OBVIOUS
<1>2. T \in SUBSET Nat /\ T # {}
  <2>1. \A s \in Wrong : Cardinality(s) \in Nat
    BY <1>f
  <2>2. PICK s : s \in Wrong
    OBVIOUS
  <2> HIDE DEF Wrong
  <2>3. T \in SUBSET Nat
    BY <2>1
  <2>4. Cardinality(s) \in T
    BY <2>2
  <2> QED
    BY <2>3, <2>4
<1>3. PICK n \in T : \A m \in T : n <= m
  <2> HIDE DEF T
  <2> QED
    BY <1>2, LeastNatural
<1>4. PICK s \in Wrong : n = Cardinality(s)
  BY <1>3
<1>5. s # {}
  <2>1. g[{}] = 0
    BY <1>1
  <2> QED
    BY <2>1, <1>4
<1>6. Chosen(s) \in s
  BY <1>5 DEF Chosen
<1>7. Cardinality(s \ {Chosen(s)}) = n - 1 /\ s \ {Chosen(s)} \in SUBSET S
  BY <1>6, <1>4, <1>f, FS_RemoveElement
<1>8. g[s \ {Chosen(s)}] \notin Nat
  <2>1. v[Chosen(s)] \in Nat
    BY <1>6, <1>4
  <2>2. g[s] = v[Chosen(s)] + g[s \ {Chosen(s)}] /\ g[s] \notin Nat
    BY <1>1, <1>4, <1>5
  <2> QED
    BY <2>1, <2>2
<1>9. n - 1 \in T
  BY <1>7, <1>8, Zenon
<1> HIDE DEF T
<1> QED
  BY <1>2, <1>3, <1>9

\* The hit points and the mana that worn items give.
HpBonus(S) == MapThenSumSet(LAMBDA i : Catalog[i].hp, S)

ManaBonus(S) == MapThenSumSet(LAMBDA i : Catalog[i].mana, S)

LEMMA HpSum ==
    ASSUME NEW S \in SUBSET Items
    PROVE  HpBonus(S) \in Nat
<1> DEFINE v == [i \in S |-> Catalog[i].hp]
<1>1. v \in [S -> Nat] /\ IsFiniteSet(S)
  BY CatalogAssumption, FS_Subset
<1>2. PICK g : SumsUp(g, v, S)
  <2> HIDE DEF v
  <2> QED
    BY <1>1, SumExists
<1>0. \A s \in SUBSET S : s # {} => Catalog[CHOOSE x \in s : TRUE].hp = v[Chosen(s)]
  BY DEF Chosen
<1>3. g = [s \in SUBSET S |-> IF s = {} THEN 0
                      ELSE Catalog[CHOOSE x \in s : TRUE].hp + g[s \ {CHOOSE x \in s : TRUE}]]
  BY <1>0, <1>2 DEF SumsUp, Chosen
<1> DEFINE F == CHOOSE f : f = [s \in SUBSET S |-> IF s = {} THEN 0
                      ELSE Catalog[CHOOSE x \in s : TRUE].hp + f[s \ {CHOOSE x \in s : TRUE}]]
<1>4. HpBonus(S) = F[S]
  BY DEF HpBonus, MapThenSumSet, MapThenFoldSet
<1>5. F = [s \in SUBSET S |-> IF s = {} THEN 0
                      ELSE Catalog[CHOOSE x \in s : TRUE].hp + F[s \ {CHOOSE x \in s : TRUE}]]
  BY <1>3, Zenon
<1> HIDE DEF F
<1>6. SumsUp(F, v, S)
  BY <1>0, <1>5 DEF SumsUp, Chosen
<1>7. F[S] \in Nat
  <2> HIDE DEF v
  <2> QED
    BY <1>1, <1>6, SumIsNat
<1> QED
  BY <1>7, <1>4

LEMMA ManaSum ==
    ASSUME NEW S \in SUBSET Items
    PROVE  ManaBonus(S) \in Nat
<1> DEFINE v == [i \in S |-> Catalog[i].mana]
<1>1. v \in [S -> Nat] /\ IsFiniteSet(S)
  BY CatalogAssumption, FS_Subset
<1>2. PICK g : SumsUp(g, v, S)
  <2> HIDE DEF v
  <2> QED
    BY <1>1, SumExists
<1>0. \A s \in SUBSET S : s # {} => Catalog[CHOOSE x \in s : TRUE].mana = v[Chosen(s)]
  BY DEF Chosen
<1>3. g = [s \in SUBSET S |-> IF s = {} THEN 0
                      ELSE Catalog[CHOOSE x \in s : TRUE].mana + g[s \ {CHOOSE x \in s : TRUE}]]
  BY <1>0, <1>2 DEF SumsUp, Chosen
<1> DEFINE F == CHOOSE f : f = [s \in SUBSET S |-> IF s = {} THEN 0
                      ELSE Catalog[CHOOSE x \in s : TRUE].mana + f[s \ {CHOOSE x \in s : TRUE}]]
<1>4. ManaBonus(S) = F[S]
  BY DEF ManaBonus, MapThenSumSet, MapThenFoldSet
<1>5. F = [s \in SUBSET S |-> IF s = {} THEN 0
                      ELSE Catalog[CHOOSE x \in s : TRUE].mana + F[s \ {CHOOSE x \in s : TRUE}]]
  BY <1>3, Zenon
<1> HIDE DEF F
<1>6. SumsUp(F, v, S)
  BY <1>0, <1>5 DEF SumsUp, Chosen
<1>7. F[S] \in Nat
  <2> HIDE DEF v
  <2> QED
    BY <1>1, <1>6, SumIsNat
<1> QED
  BY <1>7, <1>4
-----------------------------------------------------------------------------
(***************************************************************************)
(* The loop of levelling (Climb): as long as what is left pays for the     *)
(* next level.                                                             *)
(***************************************************************************)
Reached(f, cost, top, p) ==
    IF p[1] < top /\ p[2] >= cost[p[1] + 1] THEN f[<<p[1] + 1, p[2] - cost[p[1] + 1]>>]
    ELSE [level |-> p[1], xp |-> p[2]]

Pays(f, cost, top, xp) ==
    f = [p \in (0 .. top) \X (0 .. xp) |-> Reached(f, cost, top, p)]

\* There is such a function: it is built from the top level down.
LEMMA ClimbExists ==
    ASSUME NEW top \in Nat, NEW xp \in Nat, NEW cost \in [1 .. top -> Nat]
    PROVE  \E f : Pays(f, cost, top, xp)
<1> DEFINE P(n) == (top - n .. top) \X (0 .. xp)
           Good(n) == \E g : g = [p \in P(n) |-> Reached(g, cost, top, p)]
           T == {n \in Nat : n <= top => Good(n)}
<1>1. Good(0)
  <2> DEFINE g == [p \in P(0) |-> [level |-> p[1], xp |-> p[2]]]
  <2>1. \A p \in P(0) : ~ (p[1] < top)
    OBVIOUS
  <2>2. g = [p \in P(0) |-> Reached(g, cost, top, p)]
    BY <2>1 DEF Reached
  <2> QED
    BY <2>2
<1>2. ASSUME NEW n \in Nat, n + 1 <= top, Good(n)
      PROVE  Good(n + 1)
  <2>1. PICK g : g = [p \in P(n) |-> Reached(g, cost, top, p)]
    BY <1>2
  <2> DEFINE h == [p \in P(n + 1) |-> Reached(g, cost, top, p)]
  <2>2. \A p \in P(n) : p \in P(n + 1)
    BY <1>2
  <2>3. \A p \in P(n) : h[p] = g[p]
    <3> HIDE DEF P
    <3> QED
      BY <2>1, <2>2, Zenon
  <2>4. \A p \in P(n + 1) : Reached(g, cost, top, p) = Reached(h, cost, top, p)
    <3> SUFFICES ASSUME NEW p \in P(n + 1), p[1] < top, p[2] >= cost[p[1] + 1]
                 PROVE  g[<<p[1] + 1, p[2] - cost[p[1] + 1]>>] = h[<<p[1] + 1, p[2] - cost[p[1] + 1]>>]
      BY DEF Reached
    <3>1. p[1] + 1 \in top - n .. top /\ p[1] + 1 \in 1 .. top
      BY <1>2
    <3>2. cost[p[1] + 1] \in Nat /\ p[2] - cost[p[1] + 1] \in 0 .. xp
      BY <3>1
    <3>3. <<p[1] + 1, p[2] - cost[p[1] + 1]>> \in P(n)
      BY <3>1, <3>2
    <3> HIDE DEF h, P
    <3> QED
      BY <3>3, <2>3
  <2>5. h = [p \in P(n + 1) |-> Reached(h, cost, top, p)]
    <3> HIDE DEF P, Reached
    <3> QED
      BY <2>4
  <2> QED
    BY <2>5
<1>3. T = Nat
  <2> HIDE DEF Good
  <2>1. 0 \in T
    BY <1>1
  <2>2. \A n \in T : n + 1 \in T
    BY <1>2
  <2>3. T \in SUBSET Nat
    OBVIOUS
  <2> HIDE DEF T
  <2> QED
    BY <2>1, <2>2, <2>3, AllNaturals
<1>4. Good(top)
  <2> HIDE DEF Good
  <2> QED
    BY <1>3
<1>5. PICK g : g = [p \in P(top) |-> Reached(g, cost, top, p)]
  BY <1>4
<1>6. P(top) = (0 .. top) \X (0 .. xp)
  OBVIOUS
<1> QED
  BY <1>5, <1>6 DEF Pays

\* The loop ends between the level it starts from and the top, with no more
\* experience than there was.
LEMMA ClimbType ==
    ASSUME NEW top \in Nat, NEW xp \in Nat, NEW cost \in [1 .. top -> Nat], NEW f,
           Pays(f, cost, top, xp)
    PROVE  \A l \in 0 .. top, x \in 0 .. xp : f[<<l, x>>] \in [level : l .. top, xp : 0 .. xp]
<1>0. \A l \in 0 .. top, x \in 0 .. xp :
          f[<<l, x>>] = IF l < top /\ x >= cost[l + 1] THEN f[<<l + 1, x - cost[l + 1]>>]
                        ELSE [level |-> l, xp |-> x]
  <2>1. \A p \in (0 .. top) \X (0 .. xp) : f[p] = Reached(f, cost, top, p)
    BY Zenon DEF Pays
  <2> QED
    BY <2>1 DEF Reached
<1> DEFINE Fits(l, x) == f[<<l, x>>] \in [level : l .. top, xp : 0 .. xp]
           T == {n \in Nat : \A l \in 0 .. top, x \in 0 .. xp : top - n <= l => Fits(l, x)}
<1>1. 0 \in T
  <2> SUFFICES ASSUME NEW l \in 0 .. top, NEW x \in 0 .. xp, top - 0 <= l
               PROVE  Fits(l, x)
    OBVIOUS
  <2>0. ~ (l < top)
    OBVIOUS
  <2>1. f[<<l, x>>] = [level |-> l, xp |-> x]
    BY <1>0, <2>0
  <2> HIDE DEF T
  <2> QED
    BY <2>1
<1>2. ASSUME NEW n \in T PROVE n + 1 \in T
  <2> SUFFICES ASSUME NEW l \in 0 .. top, NEW x \in 0 .. xp, top - (n + 1) <= l
               PROVE  Fits(l, x)
    OBVIOUS
  <2>1. CASE l < top /\ x >= cost[l + 1]
    <3>1. l + 1 \in 0 .. top /\ x - cost[l + 1] \in 0 .. xp /\ top - n <= l + 1
      BY <2>1
    <3>2. Fits(l + 1, x - cost[l + 1])
      <4> HIDE DEF Fits
      <4> QED
        BY <3>1
    <3>3. f[<<l, x>>] = f[<<l + 1, x - cost[l + 1]>>]
      BY <1>0, <2>1
    <3> QED
      BY <3>2, <3>3
  <2>2. CASE ~ (l < top /\ x >= cost[l + 1])
    <3>1. f[<<l, x>>] = [level |-> l, xp |-> x]
      BY <1>0, <2>2
    <3> QED
      BY <3>1
  <2> QED
    BY <2>1, <2>2
<1>3. T = Nat
  <2>1. T \in SUBSET Nat
    OBVIOUS
  <2> HIDE DEF T
  <2> QED
    BY <1>1, <1>2, <2>1, AllNaturals
<1>4. top \in T
  BY <1>3
<1> HIDE DEF Fits
<1>5. \A l \in 0 .. top, x \in 0 .. xp : top - top <= l => Fits(l, x)
  BY <1>4
<1>6. \A l \in 0 .. top : top - top <= l
  OBVIOUS
<1>7. \A l \in 0 .. top, x \in 0 .. xp : Fits(l, x)
  BY <1>5, <1>6
<1> QED
  BY <1>7 DEF Fits

\* The loop of levelling, for the experience that a character needs.
LEMMA ClimbCharacter ==
    ASSUME NEW l \in 0 .. MaxLevel, NEW x \in Nat
    PROVE  Climb(ExperienceRequired, l, MaxLevel, x) \in [level : l .. MaxLevel, xp : Nat]
<1> DEFINE cost == [n \in 1 .. MaxLevel |-> ExperienceRequired(n)]
<1>0. MaxLevel \in Nat
  BY DEF MaxLevel
<1>1. cost \in [1 .. MaxLevel -> Nat]
  BY <1>0 DEF ExperienceRequired
<1>2. PICK g : Pays(g, cost, MaxLevel, x)
  <2> HIDE DEF cost
  <2> QED
    BY <1>0, <1>1, ClimbExists
<1> DEFINE R(f) == [p \in (0 .. MaxLevel) \X (0 .. x) |->
                      IF p[1] < MaxLevel /\ p[2] >= ExperienceRequired(p[1] + 1)
                      THEN f[<<p[1] + 1, p[2] - ExperienceRequired(p[1] + 1)>>]
                      ELSE [level |-> p[1], xp |-> p[2]]]
           F == CHOOSE f : f = R(f)
<1>a. \A n \in 0 .. MaxLevel : n < MaxLevel => cost[n + 1] = ExperienceRequired(n + 1)
  BY <1>0
<1>3. \A f : Pays(f, cost, MaxLevel, x) <=> f = R(f)
  <2> HIDE DEF cost
  <2> QED
    BY <1>a, <1>0 DEF Pays, Reached
<1>4. F = R(F)
  <2> HIDE DEF R
  <2> QED
    BY <1>2, <1>3
<1>5. Climb(ExperienceRequired, l, MaxLevel, x) = F[<<l, x>>]
  BY DEF Climb
<1> HIDE DEF F, R, cost
<1>6. Pays(F, cost, MaxLevel, x)
  BY <1>3, <1>4
<1>7. F[<<l, x>>] \in [level : l .. MaxLevel, xp : 0 .. x]
  <2>1. \A k \in 0 .. MaxLevel, y \in 0 .. x : F[<<k, y>>] \in [level : k .. MaxLevel, xp : 0 .. x]
    BY <1>0, <1>1, <1>6, ClimbType
  <2>2. x \in 0 .. x
    OBVIOUS
  <2> QED
    BY <2>1, <2>2
<1> QED
  BY <1>5, <1>7
\* The loop of levelling, for the experience that a skill needs.
LEMMA ClimbSkill ==
    ASSUME NEW cap \in Nat, NEW l \in 0 .. cap, NEW x \in Nat
    PROVE  Climb(LAMBDA n : SkillExperienceToLevelUp(n - 1), l, cap, x) \in [level : l .. cap, xp : Nat]
<1> DEFINE cost == [n \in 1 .. cap |-> SkillExperienceToLevelUp(n - 1)]
<1>1. cost \in [1 .. cap -> Nat]
  BY DEF SkillExperienceToLevelUp
<1>2. PICK g : Pays(g, cost, cap, x)
  <2> HIDE DEF cost
  <2> QED
    BY <1>1, ClimbExists
<1> DEFINE R(f) == [p \in (0 .. cap) \X (0 .. x) |->
                      IF p[1] < cap /\ p[2] >= SkillExperienceToLevelUp((p[1] + 1) - 1)
                      THEN f[<<p[1] + 1, p[2] - SkillExperienceToLevelUp((p[1] + 1) - 1)>>]
                      ELSE [level |-> p[1], xp |-> p[2]]]
           F == CHOOSE f : f = R(f)
<1>a. \A n \in 0 .. cap : n < cap => cost[n + 1] = SkillExperienceToLevelUp((n + 1) - 1)
  OBVIOUS
<1>3. \A f : Pays(f, cost, cap, x) <=> f = R(f)
  <2> HIDE DEF cost
  <2> QED
    BY <1>a DEF Pays, Reached
<1>4. F = R(F)
  <2> HIDE DEF R
  <2> QED
    BY <1>2, <1>3
<1>5. Climb(LAMBDA n : SkillExperienceToLevelUp(n - 1), l, cap, x) = F[<<l, x>>]
  BY DEF Climb
<1> HIDE DEF F, R, cost
<1>6. Pays(F, cost, cap, x)
  BY <1>3, <1>4
<1>7. F[<<l, x>>] \in [level : l .. cap, xp : 0 .. x]
  <2>1. \A k \in 0 .. cap, y \in 0 .. x : F[<<k, y>>] \in [level : k .. cap, xp : 0 .. x]
    BY <1>1, <1>6, ClimbType
  <2>2. x \in 0 .. x
    OBVIOUS
  <2> QED
    BY <2>1, <2>2
<1> QED
  BY <1>5, <1>7
-----------------------------------------------------------------------------
(***************************************************************************)
(* Character states.  What is worn in a slot is made for the slot; and in  *)
(* a sound state hit points and mana do not exceed their maxima.           *)
(***************************************************************************)
WornRight(c) == \A s \in Slots : c.equipment[s] # Nothing => Catalog[c.equipment[s]].slot = s

Whole == {c \in CharacterState : WornRight(c)}

Sound == {c \in Whole : c.hp <= c.maxHp /\ c.mana <= c.maxMana}

\* The same as far as an inventory snapshot tells, and as a skills snapshot does.
SameBag(c, d) == d.gold = c.gold /\ d.inventory = c.inventory /\ d.equipment = c.equipment

SameLore(c, d) ==
    d.class = c.class /\ d.level = c.level /\ d.xp = c.xp /\ d.skills = c.skills

\* A whole state is what TypeOK calls a character state.
LEMMA WholeIsCharacterState ==
    ASSUME NEW c \in Whole
    PROVE  IsCharacterState(c)
<1>1. c \in CharacterState /\ WornRight(c)
  BY DEF Whole
<1>2. c.skills \in UNION {[known -> Progress] : known \in SUBSET Skills}
  BY <1>1 DEF CharacterState
<1>3. DOMAIN c.skills \subseteq Skills /\ \A s \in DOMAIN c.skills : c.skills[s] \in Progress
  BY <1>2
<1> QED
  BY <1>1, <1>3 DEF CharacterState, WornRight, IsCharacterState

LEMMA SkillOrDefaultType ==
    ASSUME NEW c \in Whole, NEW s
    PROVE  SkillOrDefault(c, s) \in Progress /\ SkillLevel(c, s) \in Nat
<1>1. c.skills \in UNION {[known -> Progress] : known \in SUBSET Skills}
  BY DEF Whole, CharacterState
<1>2. SkillOrDefault(c, s) \in Progress
  <2>1. PICK known \in SUBSET Skills : c.skills \in [known -> Progress]
    BY <1>1
  <2>2. [level |-> 1, xp |-> 0] \in Progress
    BY DEF Progress
  <2>3. s \in known => c.skills[s] \in Progress
    BY <2>1
  <2> QED
    BY <2>1, <2>2, <2>3 DEF SkillOrDefault
<1> QED
  BY <1>2 DEF SkillLevel, Progress

\* Nothing but a skill that is below its cap gets any better.
Taught(c, d) ==
    \A s \in Skills : \/ SkillLevel(d, s) <= SkillLevel(c, s)
                      \/ SkillLevel(d, s) <= Caps[RowClass][s].max

\* Who has the same skills was taught nothing.
LEMMA NothingTaught ==
    ASSUME NEW c \in Whole, NEW d, d.skills = c.skills
    PROVE  Taught(c, d)
<1>1. ASSUME NEW s \in Skills PROVE SkillLevel(d, s) = SkillLevel(c, s)
  BY DEF SkillLevel, SkillOrDefault
<1>2. ASSUME NEW s \in Skills PROVE SkillLevel(c, s) <= SkillLevel(c, s)
  BY SkillOrDefaultType
<1> QED
  BY <1>1, <1>2 DEF Taught

\* What is taught later is taught.
LEMMA TaughtTwice ==
    ASSUME NEW c \in Whole, NEW d \in Whole, NEW e \in Whole, Taught(c, d), Taught(d, e)
    PROVE  Taught(c, e)
<1>1. ASSUME NEW s \in Skills
      PROVE  \/ SkillLevel(e, s) <= SkillLevel(c, s)
             \/ SkillLevel(e, s) <= Caps[RowClass][s].max
  <2>1. PICK l \in Nat, m \in Nat, n \in Nat :
            l = SkillLevel(c, s) /\ m = SkillLevel(d, s) /\ n = SkillLevel(e, s)
    BY SkillOrDefaultType
  <2>2. PICK cap \in Nat : cap = Caps[RowClass][s].max
    <3>2. Caps[RowClass] \in [Skills -> [unlock : Nat, perLevel : Nat, max : Nat]]
      BY RulesAssumption
    <3>3. Caps[RowClass][s].max \in Nat
      BY <3>2
    <3> QED
      BY <3>3
  <2>3. (m <= l \/ m <= cap) /\ (n <= m \/ n <= cap)
    BY <2>1, <2>2 DEF Taught
  <2> QED
    BY <2>1, <2>2, <2>3
<1> QED
  BY <1>1 DEF Taught

\* Putting items into the inventory (addItem): nothing else changes.
LEMMA AddItemSound ==
    ASSUME NEW c \in Whole, NEW i \in Items, NEW q \in Nat
    PROVE  /\ AddItem(c, i, q) \in Whole
           /\ c \in Sound => AddItem(c, i, q) \in Sound
           /\ AddItem(c, i, q).gold = c.gold
           /\ AddItem(c, i, q).skills = c.skills
           /\ SameLore(c, AddItem(c, i, q))
<1> DEFINE a == AddItem(c, i, q)
<1>1. c \in CharacterState /\ WornRight(c)
  BY DEF Whole
<1>2. c.inventory \in [Items -> 0 .. QuantityWidth - 1] /\ QuantityWidth \in Nat \ {0}
  BY <1>1, WidthsAssumption DEF CharacterState
<1>3. c.inventory[i] + q \in Int
  BY <1>2
<1>4. (c.inventory[i] + q) % QuantityWidth \in 0 .. QuantityWidth - 1
  BY <1>2, <1>3, Remainder
<1>5. [c.inventory EXCEPT ![i] = (@ + q) % QuantityWidth] \in [Items -> 0 .. QuantityWidth - 1]
  BY <1>2, <1>4
<1>6. a = [c EXCEPT !.inventory = [c.inventory EXCEPT ![i] = (@ + q) % QuantityWidth]]
  BY DEF AddItem
<1>7. a \in CharacterState /\ a.equipment = c.equipment /\ a.hp = c.hp /\ a.maxHp = c.maxHp
      /\ a.mana = c.mana /\ a.maxMana = c.maxMana /\ a.level = c.level /\ a.gold = c.gold
      /\ a.skills = c.skills /\ a.class = c.class /\ a.xp = c.xp
  BY <1>1, <1>5, <1>6 DEF CharacterState
<1> HIDE DEF a
<1> QED
  BY <1>1, <1>7 DEF Whole, Sound, WornRight, SameLore, a

\* Taking items out of it (removeItem), as many as there are.
LEMMA RemoveItemSound ==
    ASSUME NEW c \in Whole, NEW i \in Items, NEW q \in Nat, c.inventory[i] >= q
    PROVE  /\ RemoveItem(c, i, q) \in Whole
           /\ c \in Sound => RemoveItem(c, i, q) \in Sound
           /\ RemoveItem(c, i, q).equipment = c.equipment
           /\ RemoveItem(c, i, q).gold = c.gold
           /\ RemoveItem(c, i, q).skills = c.skills
           /\ SameLore(c, RemoveItem(c, i, q))
<1> DEFINE a == RemoveItem(c, i, q)
<1>1. c \in CharacterState /\ WornRight(c)
  BY DEF Whole
<1>2. c.inventory \in [Items -> 0 .. QuantityWidth - 1] /\ QuantityWidth \in Nat \ {0}
  BY <1>1, WidthsAssumption DEF CharacterState
<1>5. [c.inventory EXCEPT ![i] = @ - q] \in [Items -> 0 .. QuantityWidth - 1]
  BY <1>2
<1>6. a = [c EXCEPT !.inventory = [c.inventory EXCEPT ![i] = @ - q]]
  BY DEF RemoveItem
<1>7. a \in CharacterState /\ a.equipment = c.equipment /\ a.hp = c.hp /\ a.maxHp = c.maxHp
      /\ a.mana = c.mana /\ a.maxMana = c.maxMana /\ a.gold = c.gold /\ a.level = c.level
      /\ a.skills = c.skills /\ a.class = c.class /\ a.xp = c.xp
  BY <1>1, <1>5, <1>6 DEF CharacterState
<1> HIDE DEF a
<1> QED
  BY <1>1, <1>7 DEF Whole, Sound, WornRight, SameLore, a

\* Another amount of gold.
LEMMA GoldSound ==
    ASSUME NEW c \in Sound, NEW g \in 0 .. GoldWidth - 1
    PROVE  [c EXCEPT !.gold = g] \in Sound /\ SameLore(c, [c EXCEPT !.gold = g])
<1> DEFINE a == [c EXCEPT !.gold = g]
<1>1. c \in CharacterState /\ WornRight(c) /\ c.hp <= c.maxHp /\ c.mana <= c.maxMana
  BY DEF Sound, Whole
<1>2. a \in CharacterState /\ a.equipment = c.equipment /\ a.hp = c.hp /\ a.maxHp = c.maxHp
      /\ a.mana = c.mana /\ a.maxMana = c.maxMana /\ SameLore(c, a)
  BY <1>1 DEF SameLore, CharacterState
<1> HIDE DEF a
<1> QED
  BY <1>1, <1>2 DEF Whole, Sound, WornRight, a

\* Other skills.
LEMMA SkillsSound ==
    ASSUME NEW c \in Sound,
           NEW skills \in UNION {[known -> Progress] : known \in SUBSET Skills}
    PROVE  [c EXCEPT !.skills = skills] \in Sound /\ SameBag(c, [c EXCEPT !.skills = skills])
<1> DEFINE a == [c EXCEPT !.skills = skills]
<1>1. c \in CharacterState /\ WornRight(c) /\ c.hp <= c.maxHp /\ c.mana <= c.maxMana
  BY DEF Sound, Whole
<1>2. a \in CharacterState /\ a.equipment = c.equipment /\ a.hp = c.hp /\ a.maxHp = c.maxHp
      /\ a.mana = c.mana /\ a.maxMana = c.maxMana /\ SameBag(c, a)
  BY <1>1 DEF SameBag, CharacterState
<1> HIDE DEF a
<1> QED
  BY <1>1, <1>2 DEF Whole, Sound, WornRight, a

\* One skill set.
LEMMA WithSkillSound ==
    ASSUME NEW c \in Sound, NEW s \in Skills, NEW progress \in Progress
    PROVE  /\ WithSkill(c, s, progress) \in Sound
           /\ SameBag(c, WithSkill(c, s, progress))
           /\ progress.level <= Caps[RowClass][s].max \/ progress.level <= SkillLevel(c, s)
              => Taught(c, WithSkill(c, s, progress))
<1> DEFINE skills == [t \in DOMAIN c.skills \cup {s} |-> IF t = s THEN progress ELSE c.skills[t]]
<1>1. c.skills \in UNION {[known -> Progress] : known \in SUBSET Skills}
  BY DEF Sound, Whole, CharacterState
<1>2. PICK known \in SUBSET Skills : c.skills \in [known -> Progress]
  BY <1>1
<1>3. skills \in [known \cup {s} -> Progress] /\ known \cup {s} \in SUBSET Skills
  BY <1>2
<1>4. skills \in UNION {[k -> Progress] : k \in SUBSET Skills}
  <2> HIDE DEF skills
  <2> QED
    BY <1>3
<1>5. WithSkill(c, s, progress) = [c EXCEPT !.skills = skills]
  BY DEF WithSkill
<1>6. ASSUME NEW t \in Skills
      PROVE  SkillLevel(WithSkill(c, s, progress), t)
             = IF t = s THEN progress.level ELSE SkillLevel(c, t)
  <2>1. WithSkill(c, s, progress).skills = skills
    BY <1>5 DEF Sound, Whole, CharacterState
  <2> QED
    BY <2>1 DEF SkillLevel, SkillOrDefault
<1>7. ASSUME NEW t \in Skills PROVE SkillLevel(c, t) <= SkillLevel(c, t)
  BY SkillOrDefaultType DEF Sound
<1>8. progress.level <= Caps[RowClass][s].max \/ progress.level <= SkillLevel(c, s)
      => Taught(c, WithSkill(c, s, progress))
  BY <1>6, <1>7 DEF Taught
<1> HIDE DEF skills
<1> QED
  BY <1>4, <1>5, <1>8, SkillsSound

\* Other hit points and mana, within maxima that may be other ones, too.
LEMMA VitalsSound ==
    ASSUME NEW c \in Whole, NEW hp \in Nat, NEW maxHp \in Nat, NEW mana \in Nat,
           NEW maxMana \in Nat, hp <= maxHp, mana <= maxMana
    PROVE  LET a == [c EXCEPT !.hp = hp, !.maxHp = maxHp, !.mana = mana, !.maxMana = maxMana]
           IN  a \in Sound /\ SameBag(c, a) /\ SameLore(c, a)
<1> DEFINE a == [c EXCEPT !.hp = hp, !.maxHp = maxHp, !.mana = mana, !.maxMana = maxMana]
<1>1. c \in CharacterState /\ WornRight(c)
  BY DEF Whole
<1>2. a \in CharacterState /\ a.equipment = c.equipment /\ a.hp = hp /\ a.maxHp = maxHp
      /\ a.mana = mana /\ a.maxMana = maxMana /\ SameBag(c, a) /\ SameLore(c, a)
  BY <1>1 DEF CharacterState, SameBag, SameLore
<1> HIDE DEF a
<1> QED
  BY <1>1, <1>2 DEF Whole, Sound, WornRight, a

-----------------------------------------------------------------------------
(***************************************************************************)
(* Derived stats (recomputeDerivedStats).                                  *)
(***************************************************************************)
Worn(c) == {c.equipment[s] : s \in Slots} \ {Nothing}

Arms(c) == {i \in Worn(c) : Catalog[i].slot = "weapon" /\ Catalog[i].weaponSkill # Nothing}

MaxHpOf(c) == BaseHp(c.level) + HpBonus(Worn(c))

MaxManaOf(c) == BaseMana(c.class, c.level) + ManaBonus(Worn(c))

WeaponSkillOf(c) ==
    IF Arms(c) = {} THEN c.weaponSkill ELSE Catalog[CHOOSE i \in Arms(c) : TRUE].weaponSkill

\* The same in these words.
LEMMA RecomputeIs ==
    ASSUME NEW c
    PROVE  Recompute(c) =
               [c EXCEPT !.maxHp = MaxHpOf(c), !.maxMana = MaxManaOf(c),
                         !.hp = Min({c.hp, MaxHpOf(c)}), !.mana = Min({c.mana, MaxManaOf(c)}),
                         !.weaponSkill = WeaponSkillOf(c)]
BY DEF Recompute, MaxHpOf, MaxManaOf, WeaponSkillOf, Arms, Worn, HpBonus,
       ManaBonus

\* What is worn, and what it gives.
LEMMA WornType ==
    ASSUME NEW c \in CharacterState
    PROVE  /\ Worn(c) \in SUBSET Items
           /\ MaxHpOf(c) \in Nat
           /\ MaxManaOf(c) \in Nat
           /\ WeaponSkillOf(c) \in Skills
<1>1. c.equipment \in [Slots -> Items \cup {Nothing}] /\ c.level \in 1 .. MaxLevel
      /\ c.weaponSkill \in Skills
  BY DEF CharacterState
<1>2. Worn(c) \in SUBSET Items
  BY <1>1 DEF Worn
<1>3. c.level \in Nat
  BY <1>1 DEF MaxLevel
<1>4. MaxHpOf(c) \in Nat
  BY <1>2, <1>3, HpSum DEF MaxHpOf, BaseHp
<1>5. MaxManaOf(c) \in Nat
  BY <1>2, <1>3, ManaSum DEF MaxManaOf, BaseMana
<1>6. WeaponSkillOf(c) \in Skills
  <2>1. CASE Arms(c) = {}
    BY <2>1, <1>1 DEF WeaponSkillOf
  <2>2. CASE Arms(c) # {}
    <3>1. (CHOOSE i \in Arms(c) : TRUE) \in Arms(c)
      BY <2>2
    <3>2. PICK i \in Arms(c) : i = CHOOSE j \in Arms(c) : TRUE
      BY <3>1
    <3>3. Catalog[i].weaponSkill \in Skills
      BY <1>2, CatalogAssumption DEF Arms
    <3> QED
      BY <2>2, <3>2, <3>3 DEF WeaponSkillOf
  <2> QED
    BY <2>1, <2>2
<1> QED
  BY <1>2, <1>4, <1>5, <1>6

\* Whatever the state was, it is sound afterwards, and computing it again changes nothing.
LEMMA RecomputeSound ==
    ASSUME NEW c \in Whole
    PROVE  /\ Recompute(c) \in Sound
           /\ Recompute(Recompute(c)) = Recompute(c)
           /\ Recompute(c).skills = c.skills
           /\ SameLore(c, Recompute(c))
<1> DEFINE r == Recompute(c)
<1>1. c \in CharacterState /\ WornRight(c)
  BY DEF Whole
<1>2. MaxHpOf(c) \in Nat /\ MaxManaOf(c) \in Nat /\ WeaponSkillOf(c) \in Skills
  BY <1>1, WornType
<1>3. c.hp \in Nat /\ c.mana \in Nat
  BY <1>1 DEF CharacterState
<1>4. r = [c EXCEPT !.maxHp = MaxHpOf(c), !.maxMana = MaxManaOf(c),
                    !.hp = Min({c.hp, MaxHpOf(c)}), !.mana = Min({c.mana, MaxManaOf(c)}),
                    !.weaponSkill = WeaponSkillOf(c)]
  BY RecomputeIs
<1>5. /\ Min({c.hp, MaxHpOf(c)}) \in Nat /\ Min({c.hp, MaxHpOf(c)}) <= MaxHpOf(c)
      /\ Min({c.mana, MaxManaOf(c)}) \in Nat /\ Min({c.mana, MaxManaOf(c)}) <= MaxManaOf(c)
  BY <1>2, <1>3, MinOfTwo
<1> HIDE DEF r
<1>6. /\ r \in CharacterState
      /\ r.equipment = c.equipment /\ r.class = c.class /\ r.level = c.level
      /\ r.maxHp = MaxHpOf(c) /\ r.maxMana = MaxManaOf(c)
      /\ r.hp = Min({c.hp, MaxHpOf(c)}) /\ r.mana = Min({c.mana, MaxManaOf(c)})
      /\ r.weaponSkill = WeaponSkillOf(c)
  BY <1>1, <1>2, <1>4, <1>5 DEF CharacterState
<1>7. r \in Sound
  BY <1>1, <1>5, <1>6 DEF Sound, Whole, WornRight
<1>8. Worn(r) = Worn(c) /\ Arms(r) = Arms(c)
  BY <1>6 DEF Worn, Arms
<1>9. MaxHpOf(r) = MaxHpOf(c) /\ MaxManaOf(r) = MaxManaOf(c)
  BY <1>6, <1>8 DEF MaxHpOf, MaxManaOf
<1>10. WeaponSkillOf(r) = r.weaponSkill
  BY <1>6, <1>8 DEF WeaponSkillOf
<1>11. Min({r.hp, MaxHpOf(r)}) = r.hp /\ Min({r.mana, MaxManaOf(r)}) = r.mana
  <2>1. r.hp \in Nat /\ r.mana \in Nat /\ r.hp <= MaxHpOf(c) /\ r.mana <= MaxManaOf(c)
    BY <1>5, <1>6
  <2> QED
    BY <2>1, <1>2, <1>9, MinOfTwo
<1>12. Recompute(r) = [r EXCEPT !.maxHp = r.maxHp, !.maxMana = r.maxMana, !.hp = r.hp,
                                !.mana = r.mana, !.weaponSkill = r.weaponSkill]
  BY RecomputeIs, <1>6, <1>9, <1>10, <1>11
<1>13. Recompute(r) = r
  BY <1>6, <1>12 DEF CharacterState
<1>14. r.skills = c.skills /\ SameLore(c, r)
  BY <1>1, <1>4 DEF CharacterState, SameLore
<1> QED
  BY <1>7, <1>13, <1>14 DEF r
-----------------------------------------------------------------------------
(***************************************************************************)
(* state_json (toJson, fromJson).                                          *)
(***************************************************************************)
Listed(f, D) == {<<s, f[s]>> : s \in D}

\* What is found under a key is what was listed.
LEMMA UnderKey ==
    ASSUME NEW D, NEW f, NEW k, NEW absent
    PROVE  Under(Listed(f, D), k, absent) = IF k \in D THEN f[k] ELSE absent
<1> DEFINE list == Listed(f, D)
<1>1. \A e \in list : e[1] \in D /\ e[2] = f[e[1]]
  BY DEF Listed
<1>2. CASE k \in D
  <2>1. <<k, f[k]>> \in list /\ <<k, f[k]>>[1] = k
    BY <1>2 DEF Listed
  <2> DEFINE e == CHOOSE e \in list : e[1] = k
  <2>2. e \in list /\ e[1] = k
    <3> HIDE DEF list
    <3> QED
      BY <2>1
  <2>3. e[2] = f[k]
    <3> HIDE DEF e, list
    <3> QED
      BY <1>1, <2>2
  <2>4. \E d \in list : d[1] = k
    <3> HIDE DEF list
    <3> QED
      BY <2>1
  <2>5. Under(list, k, absent) = e[2]
    <3> HIDE DEF list
    <3> QED
      BY <2>4 DEF Under
  <2> HIDE DEF e
  <2> QED
    BY <2>3, <2>5, <1>2
<1>3. CASE k \notin D
  <2>1. ~ \E d \in list : d[1] = k
    <3> HIDE DEF list
    <3> QED
      BY <1>1, <1>3
  <2>2. Under(list, k, absent) = absent
    <3> HIDE DEF list
    <3> QED
      BY <2>1 DEF Under
  <2> HIDE DEF list
  <2> QED
    BY <2>2, <1>3 DEF list
<1> QED
  BY <1>2, <1>3

\* A state that has been written is not taken for one that never was.
LEMMA WrittenIsNotEmpty ==
    ASSUME NEW c \in Whole
    PROVE  ToJson(c) # Empty
<1>1. c \in CharacterState /\ c.equipment \in [Slots -> Items \cup {Nothing}]
      /\ c.inventory \in [Items -> 0 .. QuantityWidth - 1]
  BY DEF Whole, CharacterState
<1>2. {<<s, c.skills[s]>> : s \in DOMAIN c.skills} \in SUBSET (Skills \X Progress)
  <2>1. c.skills \in UNION {[known -> Progress] : known \in SUBSET Skills}
    BY <1>1 DEF CharacterState
  <2>2. PICK known \in SUBSET Skills : c.skills \in [known -> Progress]
    BY <2>1
  <2> QED
    BY <2>2
<1>3. {<<i, c.inventory[i]>> : i \in {j \in Items : c.inventory[j] > 0}} \in SUBSET (Items \X Nat)
  <2>1. \A i \in Items : c.inventory[i] \in Nat
    BY <1>1, WidthsAssumption
  <2> QED
    BY <2>1
<1>4. {<<s, c.equipment[s]>> : s \in {t \in Slots : c.equipment[t] # Nothing}}
          \in SUBSET (Slots \X Items)
  BY <1>1
<1>5. <<c.hp, c.maxHp, c.mana, c.maxMana>> \in Nat \X Nat \X Nat \X Nat
  BY <1>1 DEF CharacterState
<1>6. c.gold \in Nat
  BY <1>1, WidthsAssumption DEF CharacterState
<1>7. ToJson(c) \in Json
  BY <1>1, <1>2, <1>3, <1>4, <1>5, <1>6 DEF ToJson, Json, CharacterState
<1> QED
  BY <1>7, AbsenceAssumption

\* What is read is what was written, to the last field.
LEMMA ReadIsWritten ==
    ASSUME NEW c \in Whole
    PROVE  FromJson(ToJson(c)) = c
<1> DEFINE j == ToJson(c)
           r == [class |-> j.class, level |-> j.level, xp |-> j.experience,
                 hp |-> j.vitals[1], maxHp |-> j.vitals[2],
                 mana |-> j.vitals[3], maxMana |-> j.vitals[4], gold |-> j.gold,
                 weaponSkill |-> j.equippedWeaponSkill,
                 skills |-> [s \in {e[1] : e \in j.skills} |-> Under(j.skills, s, Nothing)],
                 inventory |-> [i \in Items |-> Under(j.inventory, i, 0)],
                 equipment |-> [s \in Slots |-> Under(j.equipment, s, Nothing)]]
<1>1. c \in CharacterState /\ c.equipment \in [Slots -> Items \cup {Nothing}]
      /\ c.inventory \in [Items -> 0 .. QuantityWidth - 1]
  BY DEF Whole, CharacterState
<1>2. FromJson(j) = r
  BY WrittenIsNotEmpty DEF FromJson
<1>3. [s \in {e[1] : e \in j.skills} |-> Under(j.skills, s, Nothing)] = c.skills
  <2>1. c.skills \in UNION {[known -> Progress] : known \in SUBSET Skills}
    BY <1>1 DEF CharacterState
  <2>2. PICK known \in SUBSET Skills : c.skills \in [known -> Progress]
    BY <2>1
  <2>3. j.skills = Listed(c.skills, DOMAIN c.skills)
    BY DEF ToJson, Listed
  <2> HIDE DEF j
  <2>4. {e[1] : e \in j.skills} = DOMAIN c.skills
    <3>1. \A e \in j.skills : e[1] \in DOMAIN c.skills
      BY <2>3 DEF Listed
    <3>2. ASSUME NEW s \in DOMAIN c.skills
          PROVE  \E e \in j.skills : e[1] = s
      <4>1. <<s, c.skills[s]>> \in j.skills /\ <<s, c.skills[s]>>[1] = s
        BY <2>3 DEF Listed
      <4> QED
        BY <4>1
    <3> QED
      BY <3>1, <3>2
  <2>5. \A s \in DOMAIN c.skills : Under(j.skills, s, Nothing) = c.skills[s]
    BY <2>3, UnderKey
  <2> QED
    BY <2>2, <2>4, <2>5
<1>4. [i \in Items |-> Under(j.inventory, i, 0)] = c.inventory
  <2> DEFINE D == {i \in Items : c.inventory[i] > 0}
  <2>1. j.inventory = Listed(c.inventory, D)
    BY DEF ToJson, Listed
  <2> HIDE DEF j, D
  <2>2. \A i \in Items : Under(j.inventory, i, 0) = IF i \in D THEN c.inventory[i] ELSE 0
    BY <2>1, UnderKey
  <2>3. \A i \in Items : i \notin D => c.inventory[i] = 0
    BY <1>1, WidthsAssumption DEF D
  <2> QED
    BY <1>1, <2>2, <2>3
<1>5. [s \in Slots |-> Under(j.equipment, s, Nothing)] = c.equipment
  <2> DEFINE D == {s \in Slots : c.equipment[s] # Nothing}
  <2>1. j.equipment = Listed(c.equipment, D)
    BY DEF ToJson, Listed
  <2> HIDE DEF j, D
  <2>2. \A s \in Slots : Under(j.equipment, s, Nothing) = IF s \in D THEN c.equipment[s] ELSE Nothing
    BY <2>1, UnderKey
  <2>3. \A s \in Slots : s \notin D => c.equipment[s] = Nothing
    BY DEF D
  <2> QED
    BY <1>1, <2>2, <2>3
<1>6. /\ j.class = c.class /\ j.level = c.level /\ j.experience = c.xp /\ j.gold = c.gold
      /\ j.vitals = <<c.hp, c.maxHp, c.mana, c.maxMana>>
      /\ j.equippedWeaponSkill = c.weaponSkill
  BY DEF ToJson
<1> HIDE DEF j
<1>7. r = [class |-> c.class, level |-> c.level, xp |-> c.xp, hp |-> c.hp, maxHp |-> c.maxHp,
           mana |-> c.mana, maxMana |-> c.maxMana, gold |-> c.gold,
           weaponSkill |-> c.weaponSkill, skills |-> c.skills, inventory |-> c.inventory,
           equipment |-> c.equipment]
  BY <1>3, <1>4, <1>5, <1>6
<1> HIDE DEF r
<1>8. r = c
  BY <1>1, <1>7 DEF CharacterState
<1> QED
  BY <1>2, <1>8 DEF j

\* A character that was never played is one of level 1.
LEMMA DefaultIsWhole ==
    FromJson(Empty) \in Whole
<1> DEFINE d == CreateDefault("warrior", 1)
           sk == [s \in Trained("warrior") \cup {"offense", "defense", "merchant"} |->
                    [level |-> FirstLevel("warrior", s, 5 + 1), xp |-> 0]]
<1>1. FromJson(Empty) = d
  BY DEF FromJson
<1>2. \A s : FirstLevel("warrior", s, 5 + 1) \in Nat
  BY MaxOfTwo DEF FirstLevel
<1>3. sk \in UNION {[known -> Progress] : known \in SUBSET Skills}
  <2>1. Trained("warrior") \cup {"offense", "defense", "merchant"} \in SUBSET Skills
    BY RulesAssumption DEF Trained
  <2>2. \A s : [level |-> FirstLevel("warrior", s, 5 + 1), xp |-> 0] \in Progress
    BY <1>2 DEF Progress
  <2>3. sk \in [Trained("warrior") \cup {"offense", "defense", "merchant"} -> Progress]
    BY <2>2
  <2> HIDE DEF sk
  <2> QED
    BY <2>1, <2>3
<1>4. [i \in Items |-> 0] \in [Items -> 0 .. QuantityWidth - 1]
  BY WidthsAssumption
<1>5. BaseHp(1) = 90 /\ BaseMana("warrior", 1) = 0 /\ FirstWeapon("warrior") = "1h_slash"
  BY DEF BaseHp, BaseMana, FirstWeapon, Casters
<1>6. d = [class |-> "warrior", level |-> 1, xp |-> 0, hp |-> 90, maxHp |-> 90,
           mana |-> 0, maxMana |-> 0, gold |-> 200, weaponSkill |-> "1h_slash",
           skills |-> sk, inventory |-> [i \in Items |-> 0],
           equipment |-> [s \in Slots |-> Nothing]]
  BY <1>5 DEF CreateDefault
<1> HIDE DEF d, sk
<1>7. 200 \in 0 .. GoldWidth - 1 /\ 1 \in 1 .. MaxLevel
  BY WidthsAssumption DEF MaxLevel
<1>8. d \in CharacterState
  BY <1>3, <1>4, <1>6, <1>7, RulesAssumption DEF CharacterState
<1>9. WornRight(d)
  BY <1>6 DEF WornRight
<1> QED
  BY <1>1, <1>8, <1>9 DEF Whole

-----------------------------------------------------------------------------
(***************************************************************************)
(* Experience, skills and prices.                                          *)
(***************************************************************************)
\* Experience for a character (applyCharacterLevelUp): with a level come new maxima.
LEMMA GrantExperienceSound ==
    ASSUME NEW c \in Sound, NEW amount \in Nat
    PROVE  /\ GrantExperience(c, amount) \in Sound
           /\ GrantExperience(c, amount).skills = c.skills
           /\ SameBag(c, GrantExperience(c, amount))
<1> DEFINE reached == IF c.level < MaxLevel
                      THEN Climb(ExperienceRequired, c.level, MaxLevel, c.xp + amount)
                      ELSE [level |-> c.level, xp |-> c.xp + amount]
           grown == [c EXCEPT !.level = reached.level, !.xp = reached.xp]
<1>1. c \in CharacterState /\ WornRight(c) /\ c.hp <= c.maxHp /\ c.mana <= c.maxMana
  BY DEF Sound, Whole
<1>2. c.level \in 1 .. MaxLevel /\ c.level \in 0 .. MaxLevel /\ c.xp + amount \in Nat
  BY <1>1 DEF CharacterState, MaxLevel
<1>3. reached.level \in 1 .. MaxLevel /\ reached.xp \in Nat
  <2>1. CASE c.level < MaxLevel
    <3>1. Climb(ExperienceRequired, c.level, MaxLevel, c.xp + amount)
              \in [level : c.level .. MaxLevel, xp : Nat]
      BY <1>2, ClimbCharacter
    <3>2. reached = Climb(ExperienceRequired, c.level, MaxLevel, c.xp + amount)
      BY <2>1
    <3>3. reached \in [level : c.level .. MaxLevel, xp : Nat]
      BY <3>1, <3>2
    <3> HIDE DEF reached
    <3> QED
      BY <3>3, <1>2 DEF MaxLevel
  <2>2. CASE ~ (c.level < MaxLevel)
    BY <2>2, <1>2
  <2> QED
    BY <2>1, <2>2
<1>4. GrantExperience(c, amount) = IF reached.level > c.level THEN LevelUp(grown) ELSE grown
  BY DEF GrantExperience
<1> HIDE DEF reached
<1>5. /\ grown \in CharacterState /\ grown.equipment = c.equipment
      /\ grown.hp = c.hp /\ grown.maxHp = c.maxHp
      /\ grown.mana = c.mana /\ grown.maxMana = c.maxMana
      /\ grown.skills = c.skills /\ SameBag(c, grown)
  BY <1>1, <1>3 DEF CharacterState, SameBag
<1> HIDE DEF grown
<1>6. grown \in Sound
  BY <1>1, <1>5 DEF Sound, Whole, WornRight
<1>7. LevelUp(grown) \in Sound
  <2> DEFINE maxMana == IF grown.maxMana > 0 \/ grown.class \in Casters
                        THEN 40 + 8 * grown.level ELSE grown.maxMana
             mana == IF maxMana > 0 THEN maxMana ELSE grown.mana
  <2>1. grown.level \in Nat /\ grown.maxMana \in Nat /\ grown.mana \in Nat
        /\ grown.mana <= grown.maxMana
    BY <1>1, <1>5 DEF CharacterState, MaxLevel
  <2>2. BaseHp(grown.level) \in Nat /\ maxMana \in Nat
    BY <2>1 DEF BaseHp
  <2>3. mana \in Nat /\ mana <= maxMana
    BY <2>1, <2>2
  <2>4. LevelUp(grown) = [grown EXCEPT !.hp = BaseHp(grown.level), !.maxHp = BaseHp(grown.level),
                                       !.mana = mana, !.maxMana = maxMana]
    BY <1>5 DEF LevelUp, CharacterState
  <2>5. grown \in Whole
    BY <1>6 DEF Sound
  <2> HIDE DEF mana, maxMana
  <2>6. BaseHp(grown.level) <= BaseHp(grown.level)
    BY <2>2
  <2>7. [grown EXCEPT !.hp = BaseHp(grown.level), !.maxHp = BaseHp(grown.level),
                      !.mana = mana, !.maxMana = maxMana] \in Sound
    BY <2>2, <2>3, <2>5, <2>6, VitalsSound
  <2> QED
    BY <2>4, <2>7
<1>8. LevelUp(grown).skills = c.skills /\ SameBag(c, LevelUp(grown))
  BY <1>5 DEF LevelUp, CharacterState, SameBag
<1> QED
  BY <1>4, <1>5, <1>6, <1>7, <1>8

\* The cap of a skill (getCap) is a natural number.
LEMMA CapType ==
    ASSUME NEW class \in Classes, NEW s \in Skills, NEW level \in Nat
    PROVE  GetCap(class, s, level) \in Nat /\ GetCap(class, s, level) <= Caps[class][s].max
<1> DEFINE rule == Caps[class][s]
<1>1. rule.unlock \in Nat /\ rule.perLevel \in Nat /\ rule.max \in Nat
  BY RulesAssumption
<1>2. rule.perLevel * level \in Nat
  BY <1>1, Product
<1>3. Min({rule.max, rule.perLevel * level}) \in Nat
      /\ Min({rule.max, rule.perLevel * level}) <= rule.max
  <2> HIDE DEF rule
  <2>1. rule.max \in Int /\ rule.perLevel * level \in Int
    BY <1>1, <1>2
  <2> QED
    BY <1>1, <1>2, <2>1, MinOfTwo
<1> QED
  BY <1>1, <1>3 DEF GetCap

\* No cap is 1, the level of a skill not learned before.
LEMMA NoCapIsOne ==
    ASSUME NEW class \in Classes, NEW s \in Skills, NEW level \in Nat
    PROVE  GetCap(class, s, level) # 1
<1>1. PICK per \in Nat, max \in Nat :
          per = Caps[class][s].perLevel /\ max = Caps[class][s].max /\ per # 1 /\ max # 1
  <2>1. Caps[class][s].perLevel \in Nat /\ Caps[class][s].max \in Nat
    BY RulesAssumption
  <2>2. Caps[class][s].perLevel # 1 /\ Caps[class][s].max # 1
    BY RulesAssumption
  <2> QED
    BY <2>1, <2>2
<1>2. per * level \in Nat /\ per * level # 1
  <2>1. CASE level = 0 \/ per = 0
    BY <2>1
  <2>2. CASE level >= 1 /\ per >= 2
    <3>1. PICK n \in Nat : level = n + 1
      BY <2>2
    <3>2. per * level = per * n + per /\ per * n \in Nat
      BY <3>1
    <3> QED
      BY <2>2, <3>2
  <2> QED
    BY <1>1, <2>1, <2>2
<1>3. Min({max, per * level}) # 1
  BY <1>1, <1>2, MinOfTwo
<1> QED
  BY <1>1, <1>3 DEF GetCap

\* Experience for a skill (applyGain).
LEMMA GainType ==
    ASSUME NEW progress \in Progress, NEW amount \in Nat, NEW cap \in Nat
    PROVE  /\ ApplyGain(progress, amount, cap) \in Progress
           /\ \/ ApplyGain(progress, amount, cap).level <= progress.level
              \/ ApplyGain(progress, amount, cap).level <= cap
<1>1. progress.level \in Nat /\ progress.xp + amount \in Nat
  BY DEF Progress
<1>2. CASE cap = 0 \/ progress.level >= cap
  BY <1>1, <1>2 DEF ApplyGain
<1>3. CASE ~ (cap = 0 \/ progress.level >= cap)
  <2> DEFINE reached == Climb(LAMBDA n : SkillExperienceToLevelUp(n - 1), progress.level, cap,
                              progress.xp + amount)
  <2>1. progress.level \in 0 .. cap
    BY <1>1, <1>3
  <2>2. reached \in [level : progress.level .. cap, xp : Nat]
    BY <1>1, <2>1, ClimbSkill
  <2>3. ApplyGain(progress, amount, cap) = reached
    BY <1>3 DEF ApplyGain
  <2> HIDE DEF reached
  <2>4. reached \in Progress /\ reached.level <= cap
    BY <2>2, <1>1 DEF Progress
  <2> QED
    BY <2>3, <2>4
<1> QED
  BY <1>2, <1>3

LEMMA ApplySkillXpSound ==
    ASSUME NEW c \in Sound, NEW level \in Nat, NEW s \in Skills, NEW amount \in Nat
    PROVE  /\ ApplySkillXp(c, level, s, amount) \in Sound
           /\ SameBag(c, ApplySkillXp(c, level, s, amount))
           /\ Taught(c, ApplySkillXp(c, level, s, amount))
<1>1. c \in Whole /\ RowClass \in Classes
  BY RulesAssumption DEF Sound
<1> DEFINE cap == GetCap(RowClass, s, level)
           gained == ApplyGain(SkillOrDefault(c, s), amount, cap)
<1>2. cap \in Nat /\ cap <= Caps[RowClass][s].max
  BY <1>1, CapType
<1>3. gained \in Progress /\ (gained.level <= SkillLevel(c, s) \/ gained.level <= cap)
  <2> HIDE DEF cap
  <2> QED
    BY <1>1, <1>2, SkillOrDefaultType, GainType DEF SkillLevel
<1>4. ApplySkillXp(c, level, s, amount) = IF cap = 0 THEN c ELSE WithSkill(c, s, gained)
  BY DEF ApplySkillXp
<1> HIDE DEF cap, gained
<1>5. /\ WithSkill(c, s, gained) \in Sound /\ Taught(c, WithSkill(c, s, gained))
      /\ SameBag(c, WithSkill(c, s, gained))
  <2>1. Caps[RowClass][s].max \in Nat /\ gained.level \in Nat
    BY <1>1, <1>3, RulesAssumption DEF Progress
  <2>2. gained.level <= Caps[RowClass][s].max \/ gained.level <= SkillLevel(c, s)
    BY <1>2, <1>3, <2>1
  <2> QED
    BY <1>3, <2>2, WithSkillSound
<1> QED
  BY <1>1, <1>4, <1>5, NothingTaught DEF SameBag

\* Where applyGain finds nothing to do, nothing changes: a skill at its cap is one that was
\* learned before.
LEMMA NothingGained ==
    ASSUME NEW c \in Sound, NEW level \in Nat, NEW s \in Skills, NEW amount \in Nat,
           ~ Gains(c, level, s)
    PROVE  ApplySkillXp(c, level, s, amount) = c
<1>1. c \in Whole /\ RowClass \in Classes
  BY RulesAssumption DEF Sound
<1>2. PICK cap \in Nat : cap = GetCap(RowClass, s, level) /\ cap # 1
  BY <1>1, CapType, NoCapIsOne
<1>3. PICK progress \in Progress : progress = SkillOrDefault(c, s)
  BY <1>1, SkillOrDefaultType
<1>4. progress.level \in Nat /\ progress.level >= cap
  BY <1>2, <1>3 DEF Gains, SkillLevel, Progress
<1>5. CASE cap = 0
  BY <1>2, <1>5 DEF ApplySkillXp
<1>6. CASE cap # 0
  <2>1. s \in DOMAIN c.skills /\ progress = c.skills[s]
    <3>1. CASE s \in DOMAIN c.skills
      BY <1>3, <3>1 DEF SkillOrDefault
    <3>2. CASE s \notin DOMAIN c.skills
      <4>1. progress.level = 1
        BY <1>3, <3>2 DEF SkillOrDefault
      <4> QED
        BY <1>2, <1>4, <1>6, <4>1
    <3> QED
      BY <3>1, <3>2
  <2>2. ApplySkillXp(c, level, s, amount) = WithSkill(c, s, progress)
    BY <1>2, <1>3, <1>4, <1>6 DEF ApplySkillXp, ApplyGain
  <2> DEFINE skills == [t \in DOMAIN c.skills \cup {s} |-> IF t = s THEN progress ELSE c.skills[t]]
  <2>3. WithSkill(c, s, progress) = [c EXCEPT !.skills = skills]
    BY DEF WithSkill
  <2>4. skills = c.skills
    <3>1. c.skills \in UNION {[known -> Progress] : known \in SUBSET Skills}
      BY <1>1 DEF Whole, CharacterState
    <3>2. PICK known \in SUBSET Skills : c.skills \in [known -> Progress]
      BY <3>1
    <3> QED
      BY <2>1, <3>2
  <2> HIDE DEF skills
  <2>5. [c EXCEPT !.skills = skills] = c
    BY <1>1, <2>4 DEF Whole, CharacterState
  <2> QED
    BY <2>2, <2>3, <2>5
<1> QED
  BY <1>5, <1>6

\* What an event of a fight teaches: without a gain, nothing.
LEMMA LearnSound ==
    ASSUME NEW c \in Sound, NEW level \in Nat, NEW event \in CombatEvents
    PROVE  /\ Learn(c, level, event) \in Sound
           /\ Taught(c, Learn(c, level, event))
           /\ SameBag(c, Learn(c, level, event))
           /\ (\A s \in PractisedBy(c, event) : ~ Gains(c, level, s))
              => Learn(c, level, event) = c
<1>1. c.weaponSkill \in Skills /\ "offense" \in Skills /\ "defense" \in Skills
  BY RulesAssumption DEF Sound, Whole, CharacterState
<1> DEFINE Weapon(xp) == ApplySkillXp(ApplySkillXp(c, level, "offense", xp), level,
                                      c.weaponSkill, xp)
           Idle == ~ Gains(c, level, "offense") /\ ~ Gains(c, level, c.weaponSkill)
<1>2. ASSUME NEW xp \in Nat
      PROVE  /\ Weapon(xp) \in Sound /\ Taught(c, Weapon(xp)) /\ SameBag(c, Weapon(xp))
             /\ Idle => Weapon(xp) = c
  <2>1. PICK d : d = ApplySkillXp(c, level, "offense", xp)
    OBVIOUS
  <2>2. d \in Sound /\ Taught(c, d) /\ SameBag(c, d)
    BY <1>1, <2>1, ApplySkillXpSound
  <2>3. Weapon(xp) \in Sound /\ Taught(d, Weapon(xp)) /\ SameBag(d, Weapon(xp))
    BY <1>1, <2>1, <2>2, ApplySkillXpSound
  <2>4. Idle => Weapon(xp) = c
    BY <1>1, NothingGained
  <2> HIDE DEF Weapon
  <2>5. Taught(c, Weapon(xp))
    BY <2>2, <2>3, TaughtTwice DEF Sound
  <2> QED
    BY <2>2, <2>3, <2>4, <2>5 DEF SameBag
<1>3. /\ Weapon(8) \in Sound /\ Taught(c, Weapon(8)) /\ SameBag(c, Weapon(8))
      /\ Weapon(4) \in Sound /\ Taught(c, Weapon(4)) /\ SameBag(c, Weapon(4))
      /\ Idle => Weapon(8) = c /\ Weapon(4) = c
  <2> HIDE DEF Weapon, Idle
  <2> QED
    BY <1>2
<1>4. /\ ApplySkillXp(c, level, "defense", 6) \in Sound
      /\ Taught(c, ApplySkillXp(c, level, "defense", 6))
      /\ SameBag(c, ApplySkillXp(c, level, "defense", 6))
      /\ ~ Gains(c, level, "defense") => ApplySkillXp(c, level, "defense", 6) = c
  BY <1>1, ApplySkillXpSound, NothingGained
<1>5. event \in {"hit", "miss", "defend", "none"}
  BY RequestsAssumption
<1>6. CASE event \in {"hit", "miss"}
  <2>1. Learn(c, level, event) \in {Weapon(8), Weapon(4)}
    BY <1>6 DEF Learn
  <2>2. (\A s \in PractisedBy(c, event) : ~ Gains(c, level, s)) => Idle
    BY <1>6 DEF PractisedBy
  <2> HIDE DEF Weapon, Idle
  <2> QED
    BY <1>3, <2>1, <2>2
<1>7. CASE event = "defend"
  <2>1. Learn(c, level, event) = ApplySkillXp(c, level, "defense", 6)
        /\ "defense" \in PractisedBy(c, event)
    BY <1>7 DEF Learn, PractisedBy
  <2> QED
    BY <1>4, <2>1
<1>8. CASE event = "none"
  BY <1>8, NothingTaught DEF Learn, Sound, SameBag
<1> QED
  BY <1>5, <1>6, <1>7, <1>8

\* Prices are natural numbers, and a merchant never pays nothing (merchantBuyPrice,
\* merchantSellPrice).
LEMMA PriceType ==
    ASSUME NEW c \in Whole, NEW i \in Items
    PROVE  /\ SellPrice(c, i) \in Nat /\ SellPrice(c, i) >= 1
           /\ i \in DOMAIN Stock => BuyPrice(c, i) \in Nat
<1>1. SkillLevel(c, "merchant") \in Nat
  BY SkillOrDefaultType
<1>2. 25500 - 17 * SkillLevel(c, "merchant") - 10 * Charisma \in Int
  BY <1>1, WidthsAssumption
<1>3. Modifier(c) \in Nat /\ Modifier(c) <= 25500
  <2> DEFINE m == 25500 - 17 * SkillLevel(c, "merchant") - 10 * Charisma
  <2>1. Min({25500, m}) \in Int /\ Min({25500, m}) <= 25500
    <3> HIDE DEF m
    <3> QED
      BY <1>2, MinOfTwo DEF m
  <2> DEFINE n == Min({25500, m})
  <2>2. Modifier(c) = Max({12750, n})
    BY DEF Modifier
  <2>4. n \in Int /\ n <= 25500
    BY <2>1
  <2> HIDE DEF n
  <2>3. Max({12750, n}) \in Nat /\ Max({12750, n}) <= 25500
    BY <2>4, MaxOfTwo
  <2> QED
    BY <2>2, <2>3
<1>4. ASSUME NEW n \in Int PROVE Max({1, n}) \in Nat /\ Max({1, n}) >= 1
  BY MaxOfTwo
<1>5. ASSUME NEW b \in Nat, NEW m \in Nat PROVE (b * m) \div 25500 \in Int
  BY Product
<1>6. SellPrice(c, i) \in Nat /\ SellPrice(c, i) >= 1
  <2> DEFINE b == Max({1, Catalog[i].value \div 2})
             m == 51000 - Modifier(c)
  <2>1. Catalog[i].value \in Nat
    BY CatalogAssumption
  <2>2. Catalog[i].value \div 2 \in Int
    BY <2>1
  <2>3. b \in Nat
    BY <2>2, <1>4
  <2>4. m \in Nat
    BY <1>3
  <2>5. SellPrice(c, i) = Max({1, (b * m) \div 25500})
    BY DEF SellPrice
  <2> HIDE DEF b, m
  <2> QED
    BY <2>3, <2>4, <2>5, <1>4, <1>5
<1>7. ASSUME i \in DOMAIN Stock PROVE BuyPrice(c, i) \in Nat
  <2> DEFINE b == IF Stock[i].price > 0 THEN Stock[i].price ELSE Catalog[i].value
  <2>1. b \in Nat
    BY <1>7, CatalogAssumption
  <2>2. Modifier(c) \in Nat
    BY <1>3
  <2>3. BuyPrice(c, i) = Max({1, (b * Modifier(c)) \div 25500})
    BY DEF BuyPrice
  <2> HIDE DEF b
  <2> QED
    BY <2>1, <2>2, <2>3, <1>4, <1>5
<1> QED
  BY <1>6, <1>7

-----------------------------------------------------------------------------
(***************************************************************************)
(* The invariant.  What TypeOK says does not follow step by step: that the *)
(* hit points of a player stay below their maximum depends on the copy in  *)
(* the fight, which is written back, and on what was read from the row of  *)
(* the database; and the row is written from the character or is the one   *)
(* it was made of.                                                         *)
(***************************************************************************)
Playing == [level : 1 .. MaxLevel, inCombat : BOOLEAN, state : Sound]

Fighters == {p \in CombatParticipant : p.hp <= p.maxHp /\ p.mana <= p.maxMana}

Rows == {Empty} \cup {ToJson(c) : c \in Whole}

TypeInv ==
    /\ entity \in {Gone} \cup Playing
    /\ fights \in [Combats -> {Gone} \cup Fighters]
    /\ near \in BOOLEAN
    /\ stock \in [DOMAIN Stock -> 0 .. QuantityWidth - 1]
    /\ saved \in Rows
    /\ events \in 0 .. MaxEvents

\* The windows show the character that is there, and nothing when there is none.
Windows == shown = IF Here THEN Snapshot(entity.state) ELSE Gone

\* The row is what the character was written as last, or what it was made of.
Copies == Here => \/ saved = ToJson(entity.state)
                  \/ entity.state = Recompute(FromJson(saved))

Inv == TypeInv /\ Windows /\ Copies

\* A player is not the absence of one, nor is a fighter, nor what the windows show.
LEMMA Somebody ==
    /\ Gone \notin Playing
    /\ Gone \notin Fighters
    /\ \A c \in Whole : Snapshot(c) # Gone
<1>1. Playing \subseteq PlayerEntity
  BY DEF Playing, PlayerEntity, Sound, Whole
<1>2. Fighters \subseteq CombatParticipant
  BY DEF Fighters
<1>3. ASSUME NEW c \in Whole PROVE Snapshot(c) \in Snapshots
  <2>1. c \in CharacterState
    BY DEF Whole
  <2>2. c.inventory \in [Items -> Nat] /\ c.gold \in Nat /\ c.level \in Nat
    BY <2>1, WidthsAssumption DEF CharacterState, MaxLevel
  <2>3. SkillsSnapshot(c).skills \in UNION {[known -> Progress] : known \in SUBSET Skills}
    <3>1. c.skills \in UNION {[known -> Progress] : known \in SUBSET Skills}
      BY <2>1 DEF CharacterState
    <3>2. PICK known \in SUBSET Skills : c.skills \in [known -> Progress]
      BY <3>1
    <3> DEFINE told == {t \in DOMAIN c.skills : GetCap(c.class, t, c.level) > 0}
               skills == [s \in told |-> c.skills[s]]
    <3>3. told \in SUBSET known
      BY <3>2
    <3> HIDE DEF told
    <3>4. skills \in [told -> Progress] /\ told \in SUBSET Skills
      BY <3>2, <3>3
    <3>5. SkillsSnapshot(c).skills = skills
      BY DEF SkillsSnapshot, told
    <3> HIDE DEF skills
    <3> QED
      BY <3>4, <3>5
  <2>4. SkillsSnapshot(c) = [level |-> c.level, xp |-> c.xp, skills |-> SkillsSnapshot(c).skills]
    BY DEF SkillsSnapshot
  <2>5. c.xp \in Nat /\ c.equipment \in [Slots -> Items \cup {Nothing}]
    BY <2>1 DEF CharacterState
  <2> QED
    BY <2>2, <2>3, <2>4, <2>5 DEF Snapshot, Snapshots, InventorySnapshot
<1> QED
  BY <1>1, <1>2, <1>3, AbsenceAssumption

\* A row of the database gives a character.
LEMMA RowsAreRead ==
    ASSUME NEW r \in Rows
    PROVE  FromJson(r) \in Whole
BY ReadIsWritten, DefaultIsWhole DEF Rows

\* A step that gives the player another state, writes it to the database and shows it.
Written(c, level, inCombat) ==
    /\ entity' = [level |-> level, inCombat |-> inCombat, state |-> c]
    /\ saved' = ToJson(c)
    /\ shown' = Snapshot(c)

Others ==
    /\ fights' \in [Combats -> {Gone} \cup Fighters]
    /\ near' \in BOOLEAN
    /\ stock' \in [DOMAIN Stock -> 0 .. QuantityWidth - 1]
    /\ events' \in 0 .. MaxEvents

LEMMA WrittenKeeps ==
    ASSUME NEW c \in Sound, NEW level \in 1 .. MaxLevel, NEW inCombat \in BOOLEAN,
           Written(c, level, inCombat), Others
    PROVE  Inv'
<1>1. entity' \in Playing /\ entity'.state = c
  BY DEF Written, Playing
<1>2. Here'
  BY <1>1, Somebody DEF Here
<1>3. c \in Whole
  BY DEF Sound
<1>4. saved' \in Rows
  BY <1>3 DEF Written, Rows
<1>5. TypeInv'
  BY <1>1, <1>4 DEF TypeInv, Others
<1>6. Windows'
  BY <1>1, <1>2 DEF Windows, Written
<1>7. Copies'
  BY <1>1 DEF Copies, Written
<1> QED
  BY <1>5, <1>6, <1>7 DEF Inv

\* What the handler that turns one state into another sends: a snapshot of what changed.
Told(c, d) ==
    \/ SendInventory(d) /\ SameLore(c, d)
    \/ SendSkills(d) /\ SameBag(c, d)
    \/ UNCHANGED shown /\ SameBag(c, d) /\ SameLore(c, d)

LEMMA ToldIsShown ==
    ASSUME Inv, Here, NEW d, Told(entity.state, d)
    PROVE  shown' = Snapshot(d)
<1>1. PICK c : c = entity.state
  OBVIOUS
<1>2. shown = [bag |-> InventorySnapshot(c), lore |-> SkillsSnapshot(c)]
  BY <1>1 DEF Inv, Windows, Snapshot
<1>3. SameLore(c, d) => SkillsSnapshot(d) = SkillsSnapshot(c)
  BY DEF SameLore, SkillsSnapshot
<1>4. SameBag(c, d) => InventorySnapshot(d) = InventorySnapshot(c)
  BY DEF SameBag, InventorySnapshot
<1>5. CASE SendInventory(d) /\ SameLore(c, d)
  BY <1>2, <1>3, <1>5 DEF SendInventory, Snapshot
<1>6. CASE SendSkills(d) /\ SameBag(c, d)
  BY <1>2, <1>4, <1>6 DEF SendSkills, Snapshot
<1>7. CASE UNCHANGED shown /\ SameBag(c, d) /\ SameLore(c, d)
  BY <1>2, <1>3, <1>4, <1>7 DEF Snapshot
<1> QED
  BY <1>1, <1>5, <1>6, <1>7 DEF Told

\* The same for persistPlayerState and a snapshot.
LEMMA KeepKeeps ==
    ASSUME Inv, Here, NEW c \in Sound, Keep(c), Told(entity.state, c), Others
    PROVE  Inv'
<1>1. entity \in Playing
  BY DEF Inv, TypeInv, Here
<1>2. Written(c, entity.level, entity.inCombat)
  BY <1>1, ToldIsShown DEF Keep, Written, Playing
<1>3. entity.level \in 1 .. MaxLevel /\ entity.inCombat \in BOOLEAN
  BY <1>1 DEF Playing
<1> QED
  BY <1>2, <1>3, WrittenKeeps

\* The row is written, with no more than a lesson added to what the player had learned.
Lesson == Here /\ \E d \in Sound : saved' = ToJson(d) /\ Taught(entity.state, d)

\* A player who is there, and what is known of it.
LEMMA Player ==
    ASSUME Inv, Here
    PROVE  /\ entity \in Playing
           /\ entity.state \in Sound
           /\ entity.state \in Whole
           /\ entity.level \in Nat
           /\ entity.state.class \in Classes
           /\ entity.state.inventory \in [Items -> 0 .. QuantityWidth - 1]
           /\ entity.state.equipment \in [Slots -> Items \cup {Nothing}]
<1>1. entity \in Playing
  BY DEF Inv, TypeInv, Here
<1>2. entity.state \in Sound /\ entity.level \in 1 .. MaxLevel
  BY <1>1 DEF Playing
<1>3. entity.state \in Whole /\ entity.state \in CharacterState
  BY <1>2 DEF Sound, Whole
<1> QED
  BY <1>1, <1>2, <1>3 DEF CharacterState, MaxLevel
-----------------------------------------------------------------------------
(***************************************************************************)
(* Every step keeps the invariant.                                         *)
(***************************************************************************)
LEMMA TryEquipItemKeeps ==
    ASSUME Inv, NEW i \in Items, TryEquipItem(i)
    PROVE  Inv' /\ Lesson
<1> USE DEF TryEquipItem
<1>1. Here /\ Others
  BY DEF Inv, TypeInv, Others
<1>2. PICK c : c = entity.state
  OBVIOUS
<1>3. /\ c \in Whole /\ c.inventory \in [Items -> 0 .. QuantityWidth - 1]
      /\ c.equipment \in [Slots -> Items \cup {Nothing}]
  BY <1>1, <1>2, Player
<1>4. c.inventory[i] >= 1 /\ Catalog[i].slot \in Slots
  BY <1>2, <1>3, CatalogAssumption, WidthsAssumption DEF CanEquip
<1> DEFINE slot == Catalog[i].slot
           previous == c.equipment[slot]
           taken == RemoveItem(c, i, 1)
           swapped == IF previous = Nothing THEN taken ELSE AddItem(taken, previous, 1)
           worn == [swapped EXCEPT !.equipment[slot] = i]
<1>5. taken \in Whole /\ taken.equipment = c.equipment /\ SameLore(c, taken)
  BY <1>3, <1>4, RemoveItemSound
<1>6. previous # Nothing => previous \in Items
  BY <1>3, <1>4
<1> HIDE DEF taken
<1>7. swapped \in Whole /\ SameLore(c, swapped)
  <2> HIDE DEF previous
  <2>1. CASE previous = Nothing
    BY <2>1, <1>5
  <2>2. CASE previous # Nothing
    BY <2>2, <1>5, <1>6, AddItemSound DEF SameLore
  <2> QED
    BY <2>1, <2>2
<1> HIDE DEF swapped
<1>8. worn \in Whole /\ SameLore(c, worn)
  <2>1. swapped \in CharacterState /\ WornRight(swapped)
    BY <1>7 DEF Whole
  <2>2. swapped.equipment \in [Slots -> Items \cup {Nothing}]
    BY <2>1 DEF CharacterState
  <2> DEFINE eq == [swapped.equipment EXCEPT ![slot] = i]
  <2>3. eq \in [Slots -> Items \cup {Nothing}] /\ worn = [swapped EXCEPT !.equipment = eq]
    BY <2>2
  <2>4. \A s \in Slots : eq[s] = IF s = slot THEN i ELSE swapped.equipment[s]
    BY <2>2
  <2> HIDE DEF eq, worn
  <2>5. worn \in CharacterState /\ worn.equipment = eq /\ SameLore(swapped, worn)
    BY <2>1, <2>3 DEF CharacterState, SameLore
  <2>6. WornRight(worn)
    BY <2>1, <2>4, <2>5 DEF WornRight
  <2> QED
    BY <1>7, <2>5, <2>6 DEF Whole, SameLore
<1>9. Keep(Recompute(worn)) /\ SendInventory(Recompute(worn))
  BY <1>2 DEF Equip, worn, swapped, taken
<1> HIDE DEF worn
<1>10. Recompute(worn) \in Sound /\ SameLore(c, Recompute(worn))
  BY <1>8, RecomputeSound DEF SameLore
<1>11. Taught(c, Recompute(worn))
  BY <1>3, <1>10, NothingTaught DEF SameLore
<1>12. PICK d \in Sound : Keep(d) /\ Taught(c, d) /\ Told(c, d)
  BY <1>9, <1>10, <1>11 DEF Told
<1>13. Lesson
  BY <1>1, <1>2, <1>12 DEF Keep, Lesson
<1> QED
  BY <1>13, <1>1, <1>2, <1>12, KeepKeeps

LEMMA TryUnequipItemKeeps ==
    ASSUME Inv, NEW slot \in Slots, TryUnequipItem(slot)
    PROVE  Inv' /\ Lesson
<1> USE DEF TryUnequipItem
<1>1. Here /\ Others
  BY DEF Inv, TypeInv, Others
<1>2. PICK c : c = entity.state
  OBVIOUS
<1>3. c \in Whole /\ c.equipment \in [Slots -> Items \cup {Nothing}]
  BY <1>1, <1>2, Player
<1>4. c.equipment[slot] \in Items
  BY <1>2, <1>3
<1> DEFINE put == AddItem(c, c.equipment[slot], 1)
           bare == [put EXCEPT !.equipment[slot] = Nothing]
<1>5. put \in Whole /\ SameLore(c, put)
  BY <1>3, <1>4, AddItemSound
<1> HIDE DEF put
<1>6. bare \in Whole /\ SameLore(c, bare)
  <2>1. put \in CharacterState /\ WornRight(put)
    BY <1>5 DEF Whole
  <2>2. put.equipment \in [Slots -> Items \cup {Nothing}]
    BY <2>1 DEF CharacterState
  <2> DEFINE eq == [put.equipment EXCEPT ![slot] = Nothing]
  <2>3. eq \in [Slots -> Items \cup {Nothing}] /\ bare = [put EXCEPT !.equipment = eq]
    BY <2>2
  <2>4. \A s \in Slots : eq[s] = IF s = slot THEN Nothing ELSE put.equipment[s]
    BY <2>2
  <2> HIDE DEF eq, bare
  <2>5. bare \in CharacterState /\ bare.equipment = eq /\ SameLore(put, bare)
    BY <2>1, <2>3 DEF CharacterState, SameLore
  <2>6. WornRight(bare)
    BY <2>1, <2>4, <2>5 DEF WornRight
  <2> QED
    BY <1>5, <2>5, <2>6 DEF Whole, SameLore
<1>7. Keep(Recompute(bare)) /\ SendInventory(Recompute(bare))
  BY <1>2 DEF bare, put
<1> HIDE DEF bare
<1>8. Recompute(bare) \in Sound /\ SameLore(c, Recompute(bare))
  BY <1>6, RecomputeSound DEF SameLore
<1>9. Taught(c, Recompute(bare))
  BY <1>3, <1>8, NothingTaught DEF SameLore
<1>10. PICK d \in Sound : Keep(d) /\ Taught(c, d) /\ Told(c, d)
  BY <1>7, <1>8, <1>9 DEF Told
<1>11. Lesson
  BY <1>1, <1>2, <1>10 DEF Keep, Lesson
<1> QED
  BY <1>11, <1>1, <1>2, <1>10, KeepKeeps

LEMMA BuyKeeps ==
    ASSUME Inv, NEW i \in Items, NEW q \in Quantities, HandleMerchantBuy(i, q)
    PROVE  Inv' /\ Lesson
<1> USE DEF HandleMerchantBuy
<1>1. Here /\ i \in DOMAIN Stock
  OBVIOUS
<1>2. PICK c : c = entity.state
  OBVIOUS
<1>3. c \in Sound /\ c \in Whole
  BY <1>1, <1>2, Player
<1>4. PICK total : total = (BuyPrice(c, i) * q) % GoldWidth
  OBVIOUS
<1>5. total \in 0 .. GoldWidth - 1
  <2>1. BuyPrice(c, i) \in Nat /\ q \in Nat /\ GoldWidth \in Nat \ {0}
    BY <1>1, <1>3, PriceType, RequestsAssumption, WidthsAssumption
  <2>2. BuyPrice(c, i) * q \in Int
    BY <2>1, Product
  <2> QED
    BY <1>4, <2>1, <2>2, Remainder
<1>6. /\ c.gold >= total /\ Keep(AddItem([c EXCEPT !.gold = c.gold - total], i, q))
      /\ SendInventory(AddItem([c EXCEPT !.gold = c.gold - total], i, q))
  BY <1>2, <1>4
<1>7. c.gold \in 0 .. GoldWidth - 1
  BY <1>3 DEF Whole, CharacterState
<1>8. c.gold - total \in 0 .. GoldWidth - 1
  BY <1>5, <1>6, <1>7, WidthsAssumption
<1>9. PICK paid : paid = [c EXCEPT !.gold = c.gold - total]
  OBVIOUS
<1>10. paid \in Sound /\ paid \in Whole /\ SameLore(c, paid)
  <2>1. paid \in Sound /\ paid \in Whole
    BY <1>3, <1>8, <1>9, GoldSound DEF Sound
  <2>2. SameLore(c, paid)
    BY <1>3, <1>8, <1>9, GoldSound
  <2> QED
    BY <2>1, <2>2
<1>11. PICK laden \in Sound : laden = AddItem(paid, i, q) /\ SameLore(c, laden)
  BY <1>10, RequestsAssumption, AddItemSound DEF SameLore
<1>12. PICK d \in Sound : Keep(d) /\ Taught(c, d) /\ Told(c, d)
  <2>1. Taught(c, laden)
    BY <1>3, <1>11, NothingTaught DEF SameLore
  <2> QED
    BY <1>6, <1>9, <1>11, <2>1 DEF Told
<1>13. Others
  <2>1. stock \in [DOMAIN Stock -> 0 .. QuantityWidth - 1] /\ stock[i] >= q
    BY DEF Inv, TypeInv
  <2>2. stock' \in [DOMAIN Stock -> 0 .. QuantityWidth - 1]
    BY <2>1, <1>1, RequestsAssumption, WidthsAssumption
  <2> QED
    BY <2>2 DEF Inv, TypeInv, Others
<1>14. Lesson
  BY <1>1, <1>2, <1>12 DEF Keep, Lesson
<1> QED
  BY <1>14, <1>1, <1>2, <1>12, <1>13, KeepKeeps

LEMMA SellKeeps ==
    ASSUME Inv, NEW i \in Items, NEW q \in Quantities, HandleMerchantSell(i, q)
    PROVE  Inv' /\ Lesson
<1> USE DEF HandleMerchantSell
<1>1. Here /\ Others
  BY DEF Inv, TypeInv, Others
<1>2. PICK c : c = entity.state
  OBVIOUS
<1>3. c \in Sound /\ c \in Whole
  BY <1>1, <1>2, Player
<1>4. PICK total : total = (SellPrice(c, i) * q) % GoldWidth
  OBVIOUS
<1>5. q \in Nat /\ GoldWidth \in Nat \ {0} /\ c.inventory[i] >= q
  BY <1>2, RequestsAssumption, WidthsAssumption
<1>6. total \in 0 .. GoldWidth - 1
  <2>1. SellPrice(c, i) \in Nat
    BY <1>3, PriceType
  <2>2. SellPrice(c, i) * q \in Int
    BY <2>1, <1>5, Product
  <2> QED
    BY <1>4, <1>5, <2>2, Remainder
<1>7. PICK sold : sold = RemoveItem(c, i, q)
  OBVIOUS
<1>8. sold \in Sound /\ sold.gold = c.gold /\ SameLore(c, sold)
  BY <1>3, <1>5, <1>7, RemoveItemSound
<1>9. (sold.gold + total) % GoldWidth \in 0 .. GoldWidth - 1
  <2>1. c.gold \in Int
    BY <1>3 DEF Whole, CharacterState
  <2>2. sold.gold + total \in Int
    BY <2>1, <1>6, <1>8
  <2> QED
    BY <2>2, <1>5, Remainder
<1>10. PICK rich : rich = [sold EXCEPT !.gold = (sold.gold + total) % GoldWidth]
  OBVIOUS
<1>11. rich \in Sound /\ Taught(c, rich) /\ SameLore(c, rich)
  <2>1. rich \in Sound
    BY <1>8, <1>9, <1>10, GoldSound
  <2>2. SameLore(c, rich)
    BY <1>8, <1>9, <1>10, GoldSound DEF SameLore
  <2> QED
    BY <1>3, <2>1, <2>2, NothingTaught DEF SameLore
<1>12. Keep(rich) /\ SendInventory(rich)
  BY <1>2, <1>4, <1>7, <1>10
<1>13. PICK d \in Sound : Keep(d) /\ Taught(c, d) /\ Told(c, d)
  BY <1>11, <1>12 DEF Told
<1>14. Lesson
  BY <1>1, <1>2, <1>13 DEF Keep, Lesson
<1> QED
  BY <1>14, <1>1, <1>2, <1>13, KeepKeeps

LEMMA WalkKeeps ==
    ASSUME Inv, Walk
    PROVE  Inv'
BY DEF Walk, Inv, TypeInv, Windows, Copies, Here

LEMMA MeditateKeeps ==
    ASSUME Inv, HandleMeditate
    PROVE  Inv' /\ Lesson
<1> USE DEF HandleMeditate
<1>1. Here /\ Others
  BY WidthsAssumption DEF Inv, TypeInv, Others, Count
<1>2. PICK c : c = entity.state
  OBVIOUS
<1>3. c \in Sound /\ c \in Whole /\ entity.level \in Nat
  BY <1>1, <1>2, Player
<1>4. PICK gain : gain = MeditateManaGain(SkillLevel(c, "meditate"), c.maxMana)
  OBVIOUS
<1>5. /\ c.hp \in Nat /\ c.maxHp \in Nat /\ c.mana \in Nat /\ c.maxMana \in Nat
      /\ c.hp <= c.maxHp
  BY <1>3 DEF Sound, Whole, CharacterState
<1>6. gain \in Nat
  <2>1. SkillLevel(c, "meditate") \in Nat
    BY <1>3, SkillOrDefaultType
  <2>2. 5 + SkillLevel(c, "meditate") \div 10 \in Nat
    BY <2>1
  <2>3. Min({c.maxMana, 5 + SkillLevel(c, "meditate") \div 10}) \in Nat
    BY <1>5, <2>2, MinOfNaturals
  <2> QED
    BY <1>4, <2>3 DEF MeditateManaGain
<1>7. PICK mana : mana = Min({c.maxMana, c.mana + gain})
  OBVIOUS
<1>8. mana \in Nat /\ mana <= c.maxMana
  <2>1. c.mana + gain \in Nat
    BY <1>5, <1>6
  <2> QED
    BY <1>5, <1>7, <2>1, MinOfNaturals
<1>9. PICK m : m = [c EXCEPT !.mana = mana]
  OBVIOUS
<1>10. m = [c EXCEPT !.hp = c.hp, !.maxHp = c.maxHp, !.mana = mana, !.maxMana = c.maxMana]
  <2>1. c \in CharacterState
    BY <1>3 DEF Whole
  <2> QED
    BY <2>1, <1>9 DEF CharacterState
<1>11. m \in Sound /\ m.skills = c.skills /\ SameBag(c, m)
  <2>1. c \in CharacterState
    BY <1>3 DEF Whole
  <2>2. m.skills = c.skills
    BY <2>1, <1>9 DEF CharacterState
  <2>3. m \in Sound /\ SameBag(c, m)
    BY <1>3, <1>5, <1>8, <1>10, VitalsSound
  <2> QED
    BY <2>2, <2>3
<1>12. PICK lv : lv = entity.level
  OBVIOUS
<1>13. ApplySkillXp(m, lv, "meditate", 5) \in Sound
       /\ Taught(m, ApplySkillXp(m, lv, "meditate", 5))
       /\ SameBag(m, ApplySkillXp(m, lv, "meditate", 5))
  BY <1>3, <1>11, <1>12, RulesAssumption, ApplySkillXpSound
<1>14. /\ Keep(ApplySkillXp(m, lv, "meditate", 5))
       /\ SendSkills(ApplySkillXp(m, lv, "meditate", 5))
  BY <1>2, <1>4, <1>7, <1>9, <1>12 DEF ActivityGain
<1>15. PICK d \in Sound : Keep(d) /\ Taught(m, d) /\ Told(c, d)
  <2>1. PICK d : d = ApplySkillXp(m, lv, "meditate", 5)
    OBVIOUS
  <2>2. SameBag(c, d)
    BY <1>11, <1>13, <2>1 DEF SameBag
  <2> QED
    BY <1>13, <1>14, <2>1, <2>2 DEF Told
<1>16. Taught(c, d)
  BY <1>3, <1>11, <1>15, NothingTaught, TaughtTwice DEF Sound
<1>17. Lesson
  BY <1>1, <1>2, <1>15, <1>16 DEF Keep, Lesson
<1> QED
  BY <1>17, <1>1, <1>2, <1>15, KeepKeeps

LEMMA GrantItemKeeps ==
    ASSUME Inv, NEW i \in Items, NEW q \in Nat, GrantItem(i, q)
    PROVE  Inv' /\ Lesson
<1> USE DEF GrantItem
<1>1. Here /\ Others
  BY WidthsAssumption DEF Inv, TypeInv, Others, Count
<1>2. PICK c : c = entity.state
  OBVIOUS
<1>3. c \in Sound /\ c \in Whole
  BY <1>1, <1>2, Player
<1>4. /\ AddItem(c, i, q) \in Sound /\ SameLore(c, AddItem(c, i, q))
      /\ Keep(AddItem(c, i, q)) /\ SendInventory(AddItem(c, i, q))
  BY <1>2, <1>3, AddItemSound
<1>5. PICK d \in Sound : Keep(d) /\ Taught(c, d) /\ Told(c, d)
  BY <1>3, <1>4, AddItemSound, NothingTaught DEF Told
<1>6. Lesson
  BY <1>1, <1>2, <1>5 DEF Keep, Lesson
<1> QED
  BY <1>6, <1>1, <1>2, <1>5, KeepKeeps

LEMMA PracticeKeeps ==
    ASSUME Inv, NEW a \in Activities, PracticeSkill(a)
    PROVE  Inv' /\ Lesson
<1> USE DEF PracticeSkill
<1>1. Here /\ Others
  BY WidthsAssumption DEF Inv, TypeInv, Others, Count
<1>2. PICK c, lv : c = entity.state /\ lv = entity.level
  OBVIOUS
<1>3. c \in Sound /\ lv \in Nat
  BY <1>1, <1>2, Player
<1>4. a \in Skills /\ a \in {"forage", "pick_lock", "meditate"}
  BY RequestsAssumption
<1>5. ActivityGain(a) \in Nat
  BY <1>4 DEF ActivityGain
<1>6. ApplySkillXp(c, lv, a, ActivityGain(a)) \in Sound
      /\ Taught(c, ApplySkillXp(c, lv, a, ActivityGain(a)))
      /\ SameBag(c, ApplySkillXp(c, lv, a, ActivityGain(a)))
  BY <1>3, <1>4, <1>5, ApplySkillXpSound
<1>7. PICK d \in Sound : Keep(d) /\ Taught(c, d) /\ Told(c, d)
  BY <1>2, <1>6 DEF Told
<1>8. Lesson
  BY <1>1, <1>2, <1>7 DEF Keep, Lesson
<1> QED
  BY <1>8, <1>1, <1>2, <1>7, KeepKeeps

LEMMA SetSkillKeeps ==
    ASSUME Inv, SetSkillLevel("merchant", 300)
    PROVE  Inv' /\ Lesson
<1> USE DEF SetSkillLevel
<1>1. Here /\ Others
  BY WidthsAssumption DEF Inv, TypeInv, Others, Count
<1>2. PICK c, lv : c = entity.state /\ lv = entity.level
  OBVIOUS
<1>3. c \in Sound /\ lv \in Nat /\ RowClass \in Classes
  BY <1>1, <1>2, RulesAssumption, Player
<1>4. "merchant" \in Skills
  BY RulesAssumption
<1>5. GetCap(RowClass, "merchant", lv) \in Nat
  BY <1>3, <1>4, CapType
<1>6. PICK level : level = Min({300, GetCap(RowClass, "merchant", lv)})
  OBVIOUS
<1>7. level \in Nat /\ level <= GetCap(RowClass, "merchant", lv)
  BY <1>5, <1>6, MinOfNaturals
<1>8. [level |-> level, xp |-> 0] \in Progress
  BY <1>7 DEF Progress
<1>9. level <= Caps[RowClass]["merchant"].max
  <2>1. /\ Caps[RowClass]["merchant"].max \in Nat
        /\ GetCap(RowClass, "merchant", lv) <= Caps[RowClass]["merchant"].max
    BY <1>3, <1>4, CapType, RulesAssumption
  <2> QED
    BY <1>5, <1>7, <2>1
<1>10. /\ WithSkill(c, "merchant", [level |-> level, xp |-> 0]) \in Sound
       /\ Taught(c, WithSkill(c, "merchant", [level |-> level, xp |-> 0]))
       /\ SameBag(c, WithSkill(c, "merchant", [level |-> level, xp |-> 0]))
  BY <1>3, <1>4, <1>8, <1>9, WithSkillSound
<1>11. PICK d \in Sound : Keep(d) /\ Taught(c, d) /\ Told(c, d)
  BY <1>2, <1>6, <1>10 DEF Told
<1>12. Lesson
  BY <1>1, <1>2, <1>11 DEF Keep, Lesson
<1> QED
  BY <1>12, <1>1, <1>2, <1>11, KeepKeeps

LEMMA MaxSkillsKeeps ==
    ASSUME Inv, MaxSkills
    PROVE  Inv' /\ Lesson
<1> USE DEF MaxSkills
<1>1. Here /\ Others
  BY WidthsAssumption DEF Inv, TypeInv, Others, Count
<1>2. PICK c, lv : c = entity.state /\ lv = entity.level
  OBVIOUS
<1>3. c \in Sound /\ c \in Whole /\ lv \in Nat /\ RowClass \in Classes
  BY <1>1, <1>2, RulesAssumption, Player
<1>4. c.skills \in UNION {[known -> Progress] : known \in SUBSET Skills}
  BY <1>3 DEF Whole, CharacterState
<1>5. PICK known \in SUBSET Skills : c.skills \in [known -> Progress]
  BY <1>4
<1>6. PICK skills : skills = [s \in DOMAIN c.skills |->
                IF GetCap(RowClass, s, lv) > 0 THEN [level |-> GetCap(RowClass, s, lv), xp |-> 0]
                ELSE c.skills[s]]
  OBVIOUS
<1>7. \A s \in known : GetCap(RowClass, s, lv) \in Nat
                     /\ GetCap(RowClass, s, lv) <= Caps[RowClass][s].max
  BY <1>3, CapType
<1>8. skills \in [known -> Progress]
  BY <1>5, <1>6, <1>7 DEF Progress
<1>9. [c EXCEPT !.skills = skills] \in Sound /\ SameBag(c, [c EXCEPT !.skills = skills])
  <2>1. skills \in UNION {[k -> Progress] : k \in SUBSET Skills}
    BY <1>8
  <2> QED
    BY <1>3, <2>1, SkillsSound
<1>10. Keep([c EXCEPT !.skills = skills]) /\ SendSkills([c EXCEPT !.skills = skills])
  BY <1>2, <1>6
<1>11. Taught(c, [c EXCEPT !.skills = skills])
  <2>1. [c EXCEPT !.skills = skills].skills = skills
    BY <1>3 DEF Whole, CharacterState
  <2>2. ASSUME NEW s \in Skills
        PROVE  \/ SkillLevel([c EXCEPT !.skills = skills], s) <= SkillLevel(c, s)
               \/ SkillLevel([c EXCEPT !.skills = skills], s) <= Caps[RowClass][s].max
    <3>1. SkillLevel(c, s) <= SkillLevel(c, s)
      BY <1>3, SkillOrDefaultType
    <3>2. CASE s \in known /\ GetCap(RowClass, s, lv) > 0
      <4>1. SkillLevel([c EXCEPT !.skills = skills], s) = GetCap(RowClass, s, lv)
        BY <1>5, <1>6, <2>1, <3>2 DEF SkillLevel, SkillOrDefault
      <4> QED
        BY <1>7, <3>2, <4>1
    <3>3. CASE ~ (s \in known /\ GetCap(RowClass, s, lv) > 0)
      <4>1. SkillLevel([c EXCEPT !.skills = skills], s) = SkillLevel(c, s)
        BY <1>5, <1>6, <2>1, <3>3 DEF SkillLevel, SkillOrDefault
      <4> QED
        BY <3>1, <4>1
    <3> QED
      BY <3>2, <3>3
  <2> QED
    BY <2>2 DEF Taught
<1>12. PICK d \in Sound : Keep(d) /\ Taught(c, d) /\ Told(c, d)
  BY <1>9, <1>10, <1>11 DEF Told
<1>13. Lesson
  BY <1>1, <1>2, <1>12 DEF Keep, Lesson
<1> QED
  BY <1>13, <1>1, <1>2, <1>12, KeepKeeps

LEMMA GrantDebugExperienceKeeps ==
    ASSUME Inv, NEW amount \in Nat, GrantDebugExperience(amount)
    PROVE  Inv' /\ Lesson
<1> USE DEF GrantDebugExperience
<1>1. Here /\ Others
  BY WidthsAssumption DEF Inv, TypeInv, Others, Count
<1>2. PICK c : c = GrantExperience(entity.state, amount)
  OBVIOUS
<1>3. entity \in Playing /\ c \in Sound /\ Taught(entity.state, c)
      /\ SameBag(entity.state, c)
  <2>1. PICK b \in Sound : b = entity.state
    BY <1>1, Player
  <2>2. c \in Sound /\ c.skills = b.skills /\ SameBag(b, c)
    BY <1>2, <2>1, GrantExperienceSound
  <2> QED
    BY <1>1, <2>1, <2>2, Player, NothingTaught DEF Sound
<1>4. c.level \in 1 .. MaxLevel /\ entity.inCombat \in BOOLEAN
  BY <1>3 DEF Sound, Whole, CharacterState, Playing
<1>5. entity' = [level |-> c.level, inCombat |-> entity.inCombat, state |-> c]
  BY <1>2, <1>3 DEF Playing
<1>6. Written(c, c.level, entity.inCombat)
  <2>1. Told(entity.state, c)
    BY <1>2, <1>3 DEF Told
  <2> QED
    BY <1>1, <1>2, <1>5, <2>1, ToldIsShown DEF Written
<1>7. Lesson
  BY <1>1, <1>2, <1>3 DEF Keep, Lesson
<1> QED
  BY <1>7, <1>1, <1>3, <1>4, <1>6, WrittenKeeps

LEMMA FillManaKeeps ==
    ASSUME Inv, FillMana
    PROVE  Inv' /\ Lesson
<1> USE DEF FillMana
<1>1. Here /\ Others
  BY WidthsAssumption DEF Inv, TypeInv, Others, Count
<1>2. PICK c : c = entity.state
  OBVIOUS
<1>3. c \in Sound /\ c \in Whole /\ c \in CharacterState
  BY <1>1, <1>2, Player DEF Whole
<1>4. /\ c.hp \in Nat /\ c.maxHp \in Nat /\ c.maxMana \in Nat /\ c.hp <= c.maxHp
      /\ c.maxMana <= c.maxMana
  BY <1>3 DEF Sound, CharacterState
<1>5. [c EXCEPT !.hp = c.hp, !.maxHp = c.maxHp, !.mana = c.maxMana, !.maxMana = c.maxMana] \in Sound
  BY <1>3, <1>4, VitalsSound
<1>6. [c EXCEPT !.hp = c.hp, !.maxHp = c.maxHp, !.mana = c.maxMana, !.maxMana = c.maxMana]
      = [c EXCEPT !.mana = c.maxMana]
  BY <1>3 DEF CharacterState
<1>7. PICK d \in Sound : Keep(d) /\ d.skills = c.skills /\ Told(c, d)
  <2>1. [c EXCEPT !.mana = c.maxMana].skills = c.skills
    BY <1>3 DEF CharacterState
  <2>2. PICK d : d = [c EXCEPT !.mana = c.maxMana]
    OBVIOUS
  <2>3. SameBag(c, d) /\ SameLore(c, d)
    BY <1>3, <2>2 DEF SameBag, SameLore, CharacterState
  <2> QED
    BY <1>2, <1>5, <1>6, <2>1, <2>2, <2>3 DEF Told
<1>8. Taught(c, d)
  BY <1>3, <1>7, NothingTaught
<1>9. Lesson
  BY <1>1, <1>2, <1>7, <1>8 DEF Keep, Lesson
<1> QED
  BY <1>9, <1>1, <1>2, <1>7, KeepKeeps

LEMMA StartFightKeeps ==
    ASSUME Inv, NEW f \in Combats, StartFight(f)
    PROVE  Inv'
<1> USE DEF StartFight
<1>1. Here
  OBVIOUS
<1>2. PICK c : c = entity.state
  OBVIOUS
<1>3. c \in Sound /\ entity \in Playing
  BY <1>1, <1>2, Player
<1>4. /\ c.hp \in Nat /\ c.maxHp \in Nat /\ c.mana \in Nat /\ c.maxMana \in Nat
      /\ c.hp <= c.maxHp /\ c.mana <= c.maxMana
  BY <1>3 DEF Sound, Whole, CharacterState
<1>5. fights' \in [Combats -> {Gone} \cup Fighters]
  <2>1. PICK p : p = [hp |-> c.hp, maxHp |-> c.maxHp, mana |-> c.mana, maxMana |-> c.maxMana]
    OBVIOUS
  <2>2. p \in Fighters
    BY <1>4, <2>1 DEF Fighters, CombatParticipant
  <2>3. fights \in [Combats -> {Gone} \cup Fighters] /\ fights' = [fights EXCEPT ![f] = p]
    BY <1>2, <2>1 DEF Inv, TypeInv
  <2> QED
    BY <2>2, <2>3
<1>6. entity' \in Playing /\ entity'.state = c
  BY <1>2, <1>3 DEF Playing
<1>7. Here'
  BY <1>6, Somebody DEF Here
<1>8. TypeInv'
  BY <1>5, <1>6 DEF Inv, TypeInv
<1>9. Windows' /\ Copies'
  BY <1>1, <1>2, <1>6, <1>7 DEF Inv, Windows, Copies
<1> QED
  BY <1>8, <1>9 DEF Inv
-----------------------------------------------------------------------------
\* What a call into the fight leaves of a fighter.
LEMMA OutcomesType ==
    ASSUME NEW p \in Fighters, NEW o \in Outcomes(p)
    PROVE  /\ o \in Fighters
           /\ o.hp \in Nat /\ o.maxHp \in Nat /\ o.mana \in Nat /\ o.maxMana \in Nat
           /\ o.hp <= o.maxHp /\ o.mana <= o.maxMana
<1>1. p.hp \in Nat /\ p.maxHp \in Nat /\ p.mana \in Nat /\ p.maxMana \in Nat
      /\ p.hp <= p.maxHp /\ p.mana <= p.maxMana /\ p \in CombatParticipant
  BY DEF Fighters, CombatParticipant
<1>2. PICK h \in {0, p.maxHp}, m \in {0, p.mana} : o = [p EXCEPT !.hp = h, !.mana = m]
  BY DEF Outcomes
<1>3. h \in Nat /\ m \in Nat /\ h <= p.maxHp /\ m <= p.maxMana
  BY <1>1
<1>4. o.hp = h /\ o.mana = m /\ o.maxHp = p.maxHp /\ o.maxMana = p.maxMana
      /\ o \in CombatParticipant
  BY <1>1, <1>2, <1>3 DEF CombatParticipant
<1> QED
  BY <1>1, <1>3, <1>4 DEF Fighters

\* What is taken back from the fight (syncPlayerFromParticipant), after the lesson.
LEMMA CallSound ==
    ASSUME Inv, Here, NEW p \in Fighters, NEW o \in Outcomes(p), NEW event \in CombatEvents
    PROVE  \E d \in Sound : /\ d = AfterTheCall(o, event)
                            /\ Taught(entity.state, d)
                            /\ SameBag(entity.state, d)
                            /\ (\A s \in PractisedBy(entity.state, event) :
                                     ~ Gains(entity.state, entity.level, s))
                                  => SameLore(entity.state, d)
<1>1. PICK c, level : c = entity.state /\ level = entity.level
  OBVIOUS
<1>2. c \in Sound /\ level \in Nat
  BY <1>1, Player
<1>3. PICK l : l = Learn(c, level, event)
  OBVIOUS
<1>4. /\ l \in Sound /\ l \in Whole /\ Taught(c, l) /\ SameBag(c, l)
      /\ (\A s \in PractisedBy(c, event) : ~ Gains(c, level, s)) => l = c
  BY <1>2, <1>3, LearnSound DEF Sound
<1>5. /\ o.hp \in Nat /\ o.maxHp \in Nat /\ o.mana \in Nat /\ o.maxMana \in Nat
      /\ o.hp <= o.maxHp /\ o.mana <= o.maxMana
  BY OutcomesType
<1>6. PICK d : d = [l EXCEPT !.hp = o.hp, !.maxHp = o.maxHp, !.mana = o.mana,
                             !.maxMana = o.maxMana]
  OBVIOUS
<1>7. d \in Sound /\ SameBag(l, d) /\ SameLore(l, d)
  BY <1>4, <1>5, <1>6, VitalsSound
<1>8. d = AfterTheCall(o, event)
  BY <1>1, <1>3, <1>6 DEF AfterTheCall, SyncFrom
<1>9. Taught(c, d)
  BY <1>4, <1>7 DEF Taught, SkillLevel, SkillOrDefault, SameLore
<1>10. SameBag(c, d)
  BY <1>4, <1>7 DEF SameBag
<1>11. (\A s \in PractisedBy(c, event) : ~ Gains(c, level, s)) => SameLore(c, d)
  BY <1>4, <1>7
<1> QED
  BY <1>1, <1>7, <1>8, <1>9, <1>10, <1>11

\* What becomes of a fight that nobody plays does not touch the character.
LEMMA WithoutThePlayer ==
    ASSUME Inv, ~ Here, Others, UNCHANGED <<entity, saved, shown>>
    PROVE  Inv' /\ saved' = saved
<1>1. TypeInv'
  BY DEF Inv, TypeInv, Others
<1>2. Windows' /\ Copies'
  BY DEF Inv, Windows, Copies, Here
<1> QED
  BY <1>1, <1>2 DEF Inv

LEMMA FightGoesOnKeeps ==
    ASSUME Inv, NEW f \in Combats, fights[f] # Gone, NEW o \in Outcomes(fights[f]),
           NEW event \in CombatEvents, FightGoesOn(f, o, event)
    PROVE  Inv' /\ (saved' = saved \/ Lesson)
<1>1. PICK p : p = fights[f]
  OBVIOUS
<1>2. p \in Fighters /\ o \in Outcomes(p)
  BY <1>1 DEF Inv, TypeInv
<1>3. Others
  BY <1>1, <1>2, OutcomesType, WidthsAssumption DEF FightGoesOn, Inv, TypeInv, Others, Count
<1>4. CASE Here
  <2>1. PICK d \in Sound : /\ d = AfterTheCall(o, event)
                           /\ Taught(entity.state, d)
                           /\ SameBag(entity.state, d)
                           /\ (\A s \in PractisedBy(entity.state, event) :
                                    ~ Gains(entity.state, entity.level, s))
                                 => SameLore(entity.state, d)
    BY <1>2, <1>4, CallSound
  <2>2. /\ Keep(d)
        /\ \/ SendSkills(d)
           \/ /\ UNCHANGED shown
              /\ \A s \in PractisedBy(entity.state, event) :
                     ~ Gains(entity.state, entity.level, s)
    BY <1>4, <2>1 DEF FightGoesOn, Keep, TellGains
  <2>3. SameBag(entity.state, d)
    BY <2>1
  <2>4. Told(entity.state, d)
    BY <2>1, <2>2, <2>3 DEF Told
  <2>5. Lesson
    BY <1>4, <2>1, <2>2 DEF Keep, Lesson
  <2> QED
    BY <1>3, <1>4, <2>2, <2>4, <2>5, KeepKeeps
<1>5. CASE ~ Here
  BY <1>3, <1>5, WithoutThePlayer DEF FightGoesOn
<1> QED
  BY <1>4, <1>5

\* A player out of the fight, written down and shown.
LEMMA OutOfTheFight ==
    ASSUME Inv, Here, Others, NEW c \in Sound, Taught(entity.state, c),
           entity' = [entity EXCEPT !.state = c, !.inCombat = FALSE],
           saved' = ToJson(c), shown' = Snapshot(c)
    PROVE  Inv' /\ Lesson
<1>1. entity \in Playing
  BY Player
<1>2. entity' = [level |-> entity.level, inCombat |-> FALSE, state |-> c]
      /\ entity.level \in 1 .. MaxLevel
  BY <1>1 DEF Playing
<1>3. Written(c, entity.level, FALSE)
  BY <1>2 DEF Written
<1> QED
  BY <1>2, <1>3, WrittenKeeps DEF Lesson

LEMMA WinKeeps ==
    ASSUME Inv, NEW f \in Combats, fights[f] # Gone, NEW o \in Outcomes(fights[f]),
           NEW event \in CombatEvents, NEW loot \in Loots, NEW reward \in Nat,
           Win(f, o, event, loot, reward)
    PROVE  Inv' /\ (saved' = saved \/ Lesson)
<1> USE DEF Win
<1>1. PICK p : p = fights[f]
  OBVIOUS
<1>2. p \in Fighters /\ o \in Outcomes(p)
  BY <1>1 DEF Inv, TypeInv
<1>3. Others
  BY WidthsAssumption DEF Inv, TypeInv, Others, Count
<1>4. CASE Here
  <2>1. PICK after \in Sound : after = AfterTheCall(o, event) /\ Taught(entity.state, after)
    BY <1>2, <1>4, CallSound
  <2>2. loot[1] \in Items /\ loot[2] \in Nat
    BY RequestsAssumption
  <2>3. PICK looted \in Sound : /\ looted = AddItem(after, loot[1], loot[2])
                                /\ looted.skills = after.skills
    BY <2>2, AddItemSound DEF Sound
  <2>4. PICK c \in Sound : c = GrantExperience(looted, reward) /\ c.skills = after.skills
    BY <2>3, GrantExperienceSound
  <2>5. Taught(entity.state, c)
    BY <2>1, <2>4 DEF Taught, SkillLevel, SkillOrDefault
  <2>6. /\ entity' = [entity EXCEPT !.state = c, !.inCombat = FALSE]
        /\ saved' = ToJson(c) /\ shown' = Snapshot(c)
    BY <1>4, <2>1, <2>3, <2>4
  <2> QED
    BY <1>3, <1>4, <2>5, <2>6, OutOfTheFight
<1>5. CASE ~ Here
  BY <1>3, <1>5, WithoutThePlayer
<1> QED
  BY <1>4, <1>5

LEMMA LoseKeeps ==
    ASSUME Inv, NEW f \in Combats, fights[f] # Gone, NEW o \in Outcomes(fights[f]),
           NEW event \in CombatEvents, Lose(f, o, event)
    PROVE  Inv' /\ (saved' = saved \/ Lesson)
<1>1. PICK p : p = fights[f]
  OBVIOUS
<1>2. p \in Fighters /\ o \in Outcomes(p)
  BY <1>1 DEF Inv, TypeInv
<1>3. Others
  BY WidthsAssumption DEF Lose, Inv, TypeInv, Others, Count
<1>4. CASE Here
  <2>1. PICK c \in Sound : /\ c = AfterTheCall(o, event)
                           /\ Taught(entity.state, c)
                           /\ SameBag(entity.state, c)
                           /\ (\A s \in PractisedBy(entity.state, event) :
                                    ~ Gains(entity.state, entity.level, s))
                                 => SameLore(entity.state, c)
    BY <1>2, <1>4, CallSound
  <2>2. /\ entity' = [entity EXCEPT !.state = c, !.inCombat = FALSE]
        /\ saved' = ToJson(c)
        /\ \/ SendSkills(c)
           \/ /\ UNCHANGED shown
              /\ \A s \in PractisedBy(entity.state, event) :
                     ~ Gains(entity.state, entity.level, s)
    BY <1>4, <2>1 DEF Lose, TellGains
  <2>3. SameBag(entity.state, c)
    BY <2>1
  <2>4. Told(entity.state, c)
    BY <2>1, <2>2, <2>3 DEF Told
  <2>5. shown' = Snapshot(c)
    BY <1>4, <2>4, ToldIsShown
  <2> QED
    BY <1>3, <1>4, <2>1, <2>2, <2>5, OutOfTheFight
<1>5. CASE ~ Here
  BY <1>3, <1>5, WithoutThePlayer DEF Lose
<1> QED
  BY <1>4, <1>5

LEMMA LeaveKeeps ==
    ASSUME Inv, Leave
    PROVE  Inv' /\ Lesson
<1> USE DEF Leave
<1>1. entity.state \in Whole
  BY Player
<1>2. TypeInv'
  BY <1>1 DEF Inv, TypeInv, Rows
<1>3. Windows' /\ Copies'
  BY DEF Windows, Copies, Here
<1>4. Lesson
  <2>1. PICK c \in Sound : c = entity.state
    BY Player
  <2> QED
    BY <2>1, NothingTaught DEF Sound, Lesson
<1> QED
  BY <1>2, <1>3, <1>4 DEF Inv

LEMMA EnterKeeps ==
    ASSUME Inv, Enter
    PROVE  Inv'
<1> USE DEF Enter
<1>1. PICK r : r = saved
  OBVIOUS
<1>2. r \in Rows /\ FromJson(r) \in Whole
  BY <1>1, RowsAreRead DEF Inv, TypeInv
<1>3. PICK c : c = Recompute(FromJson(r))
  OBVIOUS
<1>4. c \in Sound
  BY <1>2, <1>3, RecomputeSound
<1>5. /\ entity' = [level |-> c.level, inCombat |-> FALSE, state |-> c]
      /\ shown' = Snapshot(c)
  BY <1>1, <1>3
<1>6. c.level \in 1 .. MaxLevel
  BY <1>4 DEF Sound, Whole, CharacterState
<1>7. entity' \in Playing /\ entity'.state = c
  BY <1>4, <1>5, <1>6 DEF Playing
<1>8. Here'
  BY <1>7, Somebody DEF Here
<1>9. TypeInv'
  BY <1>7 DEF Inv, TypeInv
<1>10. Windows'
  BY <1>5, <1>7, <1>8 DEF Windows
<1>11. Copies'
  BY <1>1, <1>3, <1>7 DEF Copies
<1> QED
  BY <1>9, <1>10, <1>11 DEF Inv

LEMMA RestartKeeps ==
    ASSUME Inv, Restart
    PROVE  Inv'
<1> USE DEF Restart
<1>1. stock' \in [DOMAIN Stock -> 0 .. QuantityWidth - 1]
  BY CatalogAssumption
<1>2. events' \in 0 .. MaxEvents /\ saved' \in Rows
  BY WidthsAssumption DEF Inv, TypeInv, Count
<1>3. entity' = Gone /\ fights' = [f \in Combats |-> Gone] /\ near' = FALSE
  OBVIOUS
<1>4. TypeInv'
  BY <1>1, <1>2, <1>3, Zenon DEF TypeInv
<1>5. Windows' /\ Copies'
  BY DEF Windows, Copies, Here
<1> QED
  BY <1>4, <1>5 DEF Inv
-----------------------------------------------------------------------------
\* The row of a hero is that of a whole state: what a row does not list is not there.
LEMMA HeroIsRow ==
    ASSUME NEW h \in Heroes
    PROVE  \E c \in Whole : /\ ToJson(h) = ToJson(c)
                            /\ \A s \in Skills : SkillLevel(c, s) = SkillLevel(h, s)
<1>1. IsCharacterState(h)
  BY HeroesAssumption
<1> USE DEF IsCharacterState
<1> DEFINE eq == [s \in Slots |-> IF h.equipment[s] # Nothing THEN h.equipment[s] ELSE Nothing]
           sk == [s \in DOMAIN h.skills |-> h.skills[s]]
           c == [class |-> h.class, level |-> h.level, xp |-> h.xp, hp |-> h.hp,
                 maxHp |-> h.maxHp, mana |-> h.mana, maxMana |-> h.maxMana, gold |-> h.gold,
                 weaponSkill |-> h.weaponSkill, skills |-> sk,
                 inventory |-> h.inventory, equipment |-> eq]
<1>2. sk \in UNION {[known -> Progress] : known \in SUBSET Skills}
  <2>1. sk \in [DOMAIN h.skills -> Progress] /\ DOMAIN h.skills \in SUBSET Skills
    BY <1>1
  <2> HIDE DEF sk
  <2> QED
    BY <2>1
<1>3. eq \in [Slots -> Items \cup {Nothing}]
  BY <1>1
<1>4. h.xp \in Nat /\ h.hp \in Nat /\ h.maxHp \in Nat /\ h.mana \in Nat /\ h.maxMana \in Nat
  BY <1>1
<1>5. c \in CharacterState
  <2> HIDE DEF eq, sk
  <2> QED
    BY <1>1, <1>2, <1>3, <1>4 DEF CharacterState
<1>6. WornRight(c)
  BY <1>1 DEF WornRight
<1>7. ToJson(h) = ToJson(c)
  <2>1. DOMAIN sk = DOMAIN h.skills /\ \A s \in DOMAIN sk : sk[s] = h.skills[s]
    OBVIOUS
  <2>2. \A s \in Slots : eq[s] = h.equipment[s]
    OBVIOUS
  <2> HIDE DEF eq, sk
  <2>3. {<<s, c.skills[s]>> : s \in DOMAIN c.skills} = {<<s, h.skills[s]>> : s \in DOMAIN h.skills}
    BY <2>1
  <2>4. {t \in Slots : c.equipment[t] # Nothing} = {t \in Slots : h.equipment[t] # Nothing}
    BY <2>2
  <2>5. {<<s, c.equipment[s]>> : s \in {t \in Slots : c.equipment[t] # Nothing}}
        = {<<s, h.equipment[s]>> : s \in {t \in Slots : h.equipment[t] # Nothing}}
    BY <2>2, <2>4
  <2> QED
    BY <2>3, <2>5 DEF ToJson
<1>8. \A s \in Skills : SkillLevel(c, s) = SkillLevel(h, s)
  BY DEF SkillLevel, SkillOrDefault
<1> HIDE DEF c
<1>9. c \in Whole
  BY <1>5, <1>6 DEF Whole
<1> QED
  BY <1>7, <1>8, <1>9

LEMMA InitHolds ==
    ASSUME Init
    PROVE  Inv
<1> USE DEF Init
<1>1. stock \in [DOMAIN Stock -> 0 .. QuantityWidth - 1]
  BY CatalogAssumption
<1>2. saved \in Rows
  <2>1. ASSUME NEW h \in Heroes
        PROVE  ToJson(h) \in Rows
    BY HeroIsRow DEF Rows
  <2> QED
    BY <2>1 DEF Rows
<1>3. events \in 0 .. MaxEvents
  BY WidthsAssumption
<1>4. TypeInv
  BY <1>1, <1>2, <1>3, Zenon DEF TypeInv
<1> QED
  BY <1>4 DEF Inv, Windows, Copies, Here

LEMMA StepKeeps ==
    ASSUME Inv, [Next]_vars
    PROVE  Inv' /\ (saved' = saved \/ Lesson)
<1>1. CASE Trade
  BY <1>1, BuyKeeps, SellKeeps DEF Trade
<1>2. CASE Dress
  BY <1>2, TryEquipItemKeeps, TryUnequipItemKeeps DEF Dress
<1>3. CASE Walk
  BY <1>3, WalkKeeps DEF Walk
<1>4. CASE HandleMeditate
  BY <1>4, MeditateKeeps
<1>5. CASE HandleDebugCommand
  <2>1. ASSUME NEW loot \in Loots, GrantItem(loot[1], loot[2])
        PROVE  Inv' /\ Lesson
    <3>1. loot[1] \in Items /\ loot[2] \in Nat
      BY RequestsAssumption
    <3> QED
      BY <2>1, <3>1, GrantItemKeeps
  <2>2. ASSUME NEW x \in Rewards, GrantDebugExperience(x)
        PROVE  Inv' /\ Lesson
    BY <2>2, RequestsAssumption, GrantDebugExperienceKeeps
  <2> QED
    BY <1>5, <2>1, <2>2, PracticeKeeps, SetSkillKeeps, MaxSkillsKeeps, FillManaKeeps
       DEF HandleDebugCommand
<1>6. ASSUME NEW f \in Combats, StartFight(f)
      PROVE  Inv' /\ saved' = saved
  BY <1>6, StartFightKeeps DEF StartFight
<1>7. ASSUME NEW f \in Combats, fights[f] # Gone, Fighting(f)
      PROVE  Inv' /\ (saved' = saved \/ Lesson)
  <2>1. PICK o \in Outcomes(fights[f]), event \in CombatEvents :
          \/ FightGoesOn(f, o, event)
          \/ \E loot \in Loots, x \in Rewards : Win(f, o, event, loot, x)
          \/ Lose(f, o, event)
    BY <1>7 DEF Fighting
  <2>2. CASE FightGoesOn(f, o, event)
    BY <1>7, <2>2, FightGoesOnKeeps
  <2>3. CASE \E loot \in Loots, x \in Rewards : Win(f, o, event, loot, x)
    BY <1>7, <2>3, RequestsAssumption, WinKeeps
  <2>4. CASE Lose(f, o, event)
    BY <1>7, <2>4, LoseKeeps
  <2> QED
    BY <2>1, <2>2, <2>3, <2>4
<1>8. CASE Leave
  BY <1>8, LeaveKeeps
<1>9. CASE Enter
  BY <1>9, EnterKeeps DEF Enter
<1>10. CASE Restart
  BY <1>10, RestartKeeps DEF Restart
<1>11. CASE UNCHANGED vars
  BY <1>11 DEF vars, Inv, TypeInv, Windows, Copies, Here
<1> QED
  BY <1>1, <1>2, <1>3, <1>4, <1>5, <1>6, <1>7, <1>8, <1>9, <1>10, <1>11 DEF Next

\* The invariant that the theorems below rest on (CharacterState, persistPlayerState).
THEOREM CharacterInvariant == Spec => []Inv
<1>1. Init => Inv
  BY InitHolds
<1>2. Inv /\ [Next]_vars => Inv'
  BY StepKeeps
<1> QED
  BY <1>1, <1>2, PTL DEF Spec

\* Every copy of the character stays a character: worn items are in the slots they are
\* made for, and hit points and mana do not exceed their maxima, whatever is equipped,
\* bought, learned or brought back from a fight, and however the while loop of levelling
\* runs (recomputeDerivedStats, applyCharacterLevelUp, syncPlayerFromParticipant).
THEOREM CharactersStayWhole == Spec => []TypeOK
<1>1. ASSUME Inv PROVE TypeOK
  <2>1. Here => /\ entity.level \in 1 .. MaxLevel
                /\ entity.inCombat \in BOOLEAN
                /\ IsCharacterState(entity.state)
                /\ entity.state.hp <= entity.state.maxHp
                /\ entity.state.mana <= entity.state.maxMana
    BY <1>1, Player, WholeIsCharacterState DEF Playing, Sound
  <2>2. fights \in [Combats -> CombatParticipant \cup {Gone}]
    <3>1. fights \in [Combats -> {Gone} \cup Fighters] /\ Fighters \subseteq CombatParticipant
      BY <1>1 DEF Inv, TypeInv, Fighters
    <3> QED
      BY <3>1
  <2>3. IsCharacterState(FromJson(saved))
    BY <1>1, RowsAreRead, WholeIsCharacterState DEF Inv, TypeInv
  <2>4. shown # Gone <=> Here
    BY <1>1, Player, Somebody DEF Inv, Windows
  <2> QED
    BY <1>1, <2>1, <2>2, <2>3, <2>4 DEF Inv, TypeInv, TypeOK
<1> QED
  BY <1>1, CharacterInvariant, PTL

\* A zone process that ends at any moment, with any character in any fight, takes
\* nothing with it: what the next one reads from the database and computes again is
\* what was playing (persistPlayerState, toJson, fromJson, recomputeDerivedStats).
THEOREM NothingIsLost == Spec => []ARestartLosesNothing
<1>1. ASSUME Inv PROVE ARestartLosesNothing
  <2>1. SUFFICES ASSUME Here PROVE Recompute(FromJson(saved)) = Recompute(entity.state)
    BY DEF ARestartLosesNothing
  <2>2. PICK c, r : c = entity.state /\ r = saved
    OBVIOUS
  <2>3. c \in Whole /\ FromJson(r) \in Whole
    BY <1>1, <2>1, <2>2, Player, RowsAreRead DEF Inv, TypeInv
  <2>4. CASE r = ToJson(c)
    BY <2>2, <2>3, <2>4, ReadIsWritten
  <2>5. CASE c = Recompute(FromJson(r))
    BY <2>2, <2>3, <2>5, RecomputeSound
  <2> QED
    BY <1>1, <2>1, <2>2, <2>4, <2>5 DEF Inv, Copies
<1> QED
  BY <1>1, CharacterInvariant, PTL

\* No step leaves the inventory, equipment or skill window of the client behind what the
\* zone has (sendInventorySnapshot, sendSkillsSnapshot).
THEOREM WindowsAreRight == Spec => []WindowsShowTheCharacter
<1>1. ASSUME Inv PROVE WindowsShowTheCharacter
  BY <1>1 DEF Inv, Windows, WindowsShowTheCharacter
<1> QED
  BY <1>1, CharacterInvariant, PTL
-----------------------------------------------------------------------------
(***************************************************************************)
(* Goods.  An item is in the bag, in the one slot that it is made for, or  *)
(* on the merchant's shelf.                                                *)
(***************************************************************************)
\* Nothing is at the limit of its counter: one item more fits into a uint16_t, and what
\* the merchant would pay for all there is of an item into a uint32_t.
CountersHold ==
    \A i \in Items :
        /\ Held(Kept, i) + InStock(i) < QuantityWidth
        /\ Kept.gold + Held(Kept, i) * SellPrice(Kept, i) < GoldWidth

Wears(c, i) == Catalog[i].slot \in Slots /\ c.equipment[Catalog[i].slot] = i

\* Below the width a counter does not wrap.
LEMMA NoWrap ==
    ASSUME NEW w \in Nat \ {0}, NEW n \in Nat, n < w
    PROVE  n % w = n
OBVIOUS

\* Who wears an item wears it once.
LEMMA HeldIs ==
    ASSUME NEW c \in Whole, NEW i \in Items
    PROVE  /\ Held(c, i) = c.inventory[i] + (IF Wears(c, i) THEN 1 ELSE 0)
           /\ c.inventory[i] \in Nat
           /\ Held(c, i) \in Nat
<1>1. c \in CharacterState /\ WornRight(c)
  BY DEF Whole
<1>2. c.inventory[i] \in Nat
  BY <1>1, WidthsAssumption DEF CharacterState
<1> DEFINE here == {s \in Slots : c.equipment[s] = i}
<1>3. i # Nothing
  BY CatalogAssumption
<1>4. \A s \in here : s = Catalog[i].slot
  BY <1>1, <1>3 DEF WornRight
<1>5. CASE Wears(c, i)
  <2>1. here = {Catalog[i].slot}
    BY <1>4, <1>5 DEF Wears
  <2>2. Cardinality(here) = 1
    BY <2>1, FS_Singleton
  <2> QED
    BY <1>2, <1>5, <2>2 DEF Held
<1>6. CASE ~ Wears(c, i)
  <2>1. here = {}
    BY <1>4, <1>6 DEF Wears
  <2>2. Cardinality(here) = 0
    BY <2>1, FS_EmptySet
  <2> QED
    BY <1>2, <1>6, <2>2 DEF Held
<1> QED
  BY <1>5, <1>6

\* What is computed again is neither in the bag nor on the body, nor in the purse.
LEMMA RecomputeLeaves ==
    ASSUME NEW c \in Whole
    PROVE  /\ Recompute(c).inventory = c.inventory
           /\ Recompute(c).equipment = c.equipment
           /\ Recompute(c).gold = c.gold
           /\ Recompute(c).skills = c.skills
           /\ Recompute(c).class = c.class
           /\ \A i \in Items : Held(Recompute(c), i) = Held(c, i)
<1>1. c \in CharacterState
  BY DEF Whole
<1>2. /\ Recompute(c).inventory = c.inventory
      /\ Recompute(c).equipment = c.equipment
      /\ Recompute(c).gold = c.gold
      /\ Recompute(c).skills = c.skills
      /\ Recompute(c).class = c.class
  BY <1>1, RecomputeIs DEF CharacterState
<1> QED
  BY <1>2 DEF Held

\* The character in the zone has what the database says, and would be paid the same.
LEMMA AsKept ==
    ASSUME Inv, Here
    PROVE  /\ Kept \in Whole
           /\ Kept.inventory = entity.state.inventory
           /\ Kept.equipment = entity.state.equipment
           /\ Kept.gold = entity.state.gold
           /\ Kept.skills = entity.state.skills
           /\ Kept.class = entity.state.class
           /\ \A i \in Items : /\ Held(Kept, i) = Held(entity.state, i)
                               /\ SellPrice(Kept, i) = SellPrice(entity.state, i)
<1>1. Kept \in Whole
  BY RowsAreRead DEF Inv, TypeInv, Kept
<1>2. PICK c : c = entity.state
  OBVIOUS
<1>3. c \in Whole
  BY <1>2, Player
<1>4. Kept = c \/ c = Recompute(Kept)
  BY <1>2, <1>3, ReadIsWritten DEF Inv, Copies, Kept
<1>5. /\ Kept.inventory = c.inventory /\ Kept.equipment = c.equipment
      /\ Kept.gold = c.gold /\ Kept.skills = c.skills /\ Kept.class = c.class
  BY <1>1, <1>4, RecomputeLeaves
<1>6. \A i \in Items : Held(Kept, i) = Held(c, i)
  BY <1>5 DEF Held
<1>7. \A i \in Items : SellPrice(Kept, i) = SellPrice(c, i)
  BY <1>5 DEF SellPrice, Modifier, SkillLevel, SkillOrDefault
<1> QED
  BY <1>1, <1>2, <1>5, <1>6, <1>7

\* What a step does to the skills that are written down.
LEMMA StepTeaches ==
    ASSUME Inv, [Next]_vars
    PROVE  Taught(Kept, Kept')
<1>1. Kept \in Whole
  BY RowsAreRead DEF Inv, TypeInv, Kept
<1>2. CASE saved' = saved
  <2>1. Kept' = Kept
    BY <1>2 DEF Kept
  <2> QED
    BY <1>1, <2>1, NothingTaught
<1>3. CASE Lesson
  <2>1. PICK d \in Sound : saved' = ToJson(d) /\ Taught(entity.state, d)
    BY <1>3 DEF Lesson
  <2>2. Kept' = d
    BY <2>1, ReadIsWritten DEF Kept, Sound
  <2>3. Kept.skills = entity.state.skills /\ Kept.class = entity.state.class
    BY <1>3, AsKept DEF Lesson
  <2>4. Taught(Kept, d)
    BY <2>1, <2>3 DEF Taught, SkillLevel, SkillOrDefault
  <2> QED
    BY <2>2, <2>4
<1> QED
  BY <1>2, <1>3, StepKeeps

\* No event, command or fight brings a skill above the cap of the class of the row, whatever
\* the class of the state is: a skill that is written down is no better than it was, or
\* within that class's max (getCap, applySkillXp, applyGain, the debug commands).
SkillsStopAtTheirCaps == [][Taught(Kept, Kept')]_vars

THEOREM NoSkillPassesItsCap == Spec => SkillsStopAtTheirCaps
<1>1. Inv /\ [Next]_vars => [Taught(Kept, Kept')]_vars
  BY StepTeaches
<1> QED
  BY <1>1, CharacterInvariant, PTL DEF Spec, SkillsStopAtTheirCaps

\* There is a number in the purse of every row.
LEMMA RowsHaveGold ==
    ASSUME NEW r \in Rows
    PROVE  FromJson(r).gold \in Int
BY RowsAreRead DEF Whole, CharacterState

\* What was written is what is read.
LEMMA KeptNext ==
    ASSUME NEW c \in Whole, Keep(c)
    PROVE  Kept' = c
BY ReadIsWritten DEF Keep, Kept

\* The purse and what one has learned.
Purse(c) == <<c.gold, c.skills>>

\* Dressing takes an item from the bag and puts the one that was worn into it.
LEMMA EquipHeld ==
    ASSUME NEW c \in Whole, NEW i \in Items, Catalog[i].slot \in Slots, c.inventory[i] > 0,
           \A j \in Items : Held(c, j) < QuantityWidth
    PROVE  /\ Equip(c, i) \in Whole
           /\ \A j \in Items : Held(Equip(c, i), j) = Held(c, j)
           /\ Purse(Equip(c, i)) = Purse(c)
<1>1. c \in CharacterState /\ WornRight(c)
  BY DEF Whole
<1>2. /\ c.inventory \in [Items -> 0 .. QuantityWidth - 1]
      /\ c.equipment \in [Slots -> Items \cup {Nothing}]
      /\ QuantityWidth \in Nat \ {0}
  BY <1>1, WidthsAssumption DEF CharacterState
<1> DEFINE slot == Catalog[i].slot
           previous == c.equipment[slot]
           taken == RemoveItem(c, i, 1)
           swapped == IF previous = Nothing THEN taken ELSE AddItem(taken, previous, 1)
           worn == [swapped EXCEPT !.equipment[slot] = i]
           bag == [j \in Items |-> c.inventory[j] - (IF j = i THEN 1 ELSE 0)
                                                  + (IF j = previous THEN 1 ELSE 0)]
           body == [c.equipment EXCEPT ![slot] = i]
<1>3. /\ taken = [c EXCEPT !.inventory = [c.inventory EXCEPT ![i] = @ - 1]]
      /\ c.inventory[i] >= 1
  BY <1>2 DEF RemoveItem
<1>4. taken \in CharacterState /\ taken.equipment = c.equipment
      /\ taken.inventory = [c.inventory EXCEPT ![i] = @ - 1]
      /\ taken.gold = c.gold /\ taken.skills = c.skills
  BY <1>1, <1>2, <1>3 DEF CharacterState
<1>5. previous # Nothing => /\ previous \in Items
                            /\ Catalog[previous].slot = slot
                            /\ Held(c, previous) = c.inventory[previous] + 1
  BY <1>1, <1>2, HeldIs DEF WornRight, Wears
<1>6. /\ swapped \in CharacterState /\ swapped.equipment = c.equipment
      /\ swapped.inventory = bag /\ swapped.gold = c.gold /\ swapped.skills = c.skills
  <2> HIDE DEF taken, previous
  <2>1. CASE previous = Nothing
    <3>1. \A j \in Items : j # previous
      BY <2>1, CatalogAssumption
    <3>2. bag = [c.inventory EXCEPT ![i] = @ - 1]
      BY <3>1, <1>2
    <3> QED
      BY <2>1, <1>4, <3>2
  <2>2. CASE previous # Nothing
    <3> DEFINE b == [c.inventory EXCEPT ![i] = @ - 1]
    <3>1. b \in [Items -> 0 .. QuantityWidth - 1]
      BY <1>2, <1>3
    <3>2. b[previous] + 1 \in Nat /\ b[previous] + 1 < QuantityWidth
      BY <2>2, <1>2, <1>5, <3>1
    <3>3. (b[previous] + 1) % QuantityWidth = b[previous] + 1
      BY <1>2, <3>2, NoWrap
    <3>4. AddItem(taken, previous, 1) = [taken EXCEPT !.inventory = [b EXCEPT ![previous] = b[previous] + 1]]
      BY <1>4, <3>3 DEF AddItem
    <3>5. [b EXCEPT ![previous] = b[previous] + 1] = bag
      BY <1>2, <3>1
    <3> HIDE DEF b, bag
    <3>6. bag \in [Items -> 0 .. QuantityWidth - 1]
      <4>1. b[previous] + 1 \in 0 .. QuantityWidth - 1
        BY <1>2, <3>2
      <4> QED
        BY <2>2, <1>5, <3>1, <3>5, <4>1
    <3>7. AddItem(taken, previous, 1) = [taken EXCEPT !.inventory = bag]
      BY <3>4, <3>5
    <3> QED
      BY <2>2, <1>4, <3>6, <3>7 DEF CharacterState
  <2> QED
    BY <2>1, <2>2
<1>7. /\ worn \in Whole /\ worn.equipment = body /\ worn.inventory = bag
      /\ worn.gold = c.gold /\ worn.skills = c.skills
  <2>1. body \in [Slots -> Items \cup {Nothing}]
        /\ \A s \in Slots : body[s] = IF s = slot THEN i ELSE c.equipment[s]
    BY <1>2
  <2> HIDE DEF swapped, bag
  <2>2. worn = [swapped EXCEPT !.equipment = body]
    BY <1>6
  <2> HIDE DEF body, worn
  <2>3. /\ worn \in CharacterState /\ worn.equipment = body /\ worn.inventory = bag
        /\ worn.gold = c.gold /\ worn.skills = c.skills
    BY <1>6, <2>1, <2>2 DEF CharacterState
  <2>4. WornRight(worn)
    BY <1>1, <2>1, <2>3 DEF WornRight
  <2> QED
    BY <2>3, <2>4 DEF Whole
<1>8. Equip(c, i) = Recompute(worn)
  BY DEF Equip
<1>9. ASSUME NEW j \in Items PROVE Held(worn, j) = Held(c, j)
  <2>1. /\ Held(worn, j) = bag[j] + (IF Wears(worn, j) THEN 1 ELSE 0)
        /\ Held(c, j) = c.inventory[j] + (IF Wears(c, j) THEN 1 ELSE 0)
        /\ c.inventory[j] \in Nat
    <3> HIDE DEF worn, bag
    <3> QED
      BY <1>7, HeldIs
  <2>2. \A s \in Slots : body[s] = IF s = slot THEN i ELSE c.equipment[s]
    BY <1>2
  <2>3. Wears(worn, j) <=> j = i \/ (Wears(c, j) /\ Catalog[j].slot # slot)
    <3> HIDE DEF worn, body
    <3> QED
      BY <1>7, <2>2 DEF Wears
  <2>4. Wears(c, j) /\ Catalog[j].slot = slot <=> j = previous
    BY <1>5, CatalogAssumption DEF Wears
  <2>5. bag[j] = c.inventory[j] - (IF j = i THEN 1 ELSE 0) + (IF j = previous THEN 1 ELSE 0)
    OBVIOUS
  <2> HIDE DEF worn, bag, body, previous
  <2>6. CASE j = i
    BY <2>1, <2>3, <2>4, <2>5, <2>6
  <2>7. CASE j # i
    BY <2>1, <2>3, <2>4, <2>5, <2>7
  <2> QED
    BY <2>6, <2>7
<1> HIDE DEF worn
<1> QED
  BY <1>7, <1>8, <1>9, RecomputeLeaves, RecomputeSound DEF Sound, Purse

\* Undressing puts the item into the bag.
LEMMA UnequipHeld ==
    ASSUME NEW c \in Whole, NEW slot \in Slots, c.equipment[slot] # Nothing,
           \A j \in Items : Held(c, j) < QuantityWidth
    PROVE  LET bare == [AddItem(c, c.equipment[slot], 1) EXCEPT !.equipment[slot] = Nothing]
           IN  /\ Recompute(bare) \in Whole
               /\ \A j \in Items : Held(Recompute(bare), j) = Held(c, j)
               /\ Purse(Recompute(bare)) = Purse(c)
<1>1. c \in CharacterState /\ WornRight(c)
  BY DEF Whole
<1>2. /\ c.inventory \in [Items -> 0 .. QuantityWidth - 1]
      /\ c.equipment \in [Slots -> Items \cup {Nothing}]
      /\ QuantityWidth \in Nat \ {0}
  BY <1>1, WidthsAssumption DEF CharacterState
<1>3. PICK i \in Items : i = c.equipment[slot]
  BY <1>2
<1>4. Catalog[i].slot = slot /\ Wears(c, i) /\ i # Nothing
  BY <1>1, <1>3 DEF WornRight, Wears
<1>5. c.inventory[i] + 1 \in 0 .. QuantityWidth - 1 /\ c.inventory[i] + 1 \in Nat
  BY <1>2, <1>4, HeldIs
<1> DEFINE bag == [c.inventory EXCEPT ![i] = c.inventory[i] + 1]
           body == [c.equipment EXCEPT ![slot] = Nothing]
           bare == [AddItem(c, i, 1) EXCEPT !.equipment[slot] = Nothing]
<1>6. /\ bag \in [Items -> 0 .. QuantityWidth - 1]
      /\ \A j \in Items : bag[j] = IF j = i THEN c.inventory[i] + 1 ELSE c.inventory[j]
  BY <1>2, <1>5
<1>7. AddItem(c, i, 1) = [c EXCEPT !.inventory = bag]
  <2>1. c.inventory[i] + 1 < QuantityWidth
    BY <1>2, <1>5
  <2>2. (c.inventory[i] + 1) % QuantityWidth = c.inventory[i] + 1
    BY <1>2, <1>5, <2>1, NoWrap
  <2> QED
    BY <2>2 DEF AddItem
<1>8. /\ body \in [Slots -> Items \cup {Nothing}]
      /\ \A s \in Slots : body[s] = IF s = slot THEN Nothing ELSE c.equipment[s]
  BY <1>2
<1>9. /\ bare \in Whole /\ bare.inventory = bag /\ bare.equipment = body
      /\ bare.gold = c.gold /\ bare.skills = c.skills
  <2>1. bare = [c EXCEPT !.inventory = bag, !.equipment = body]
    BY <1>1, <1>7 DEF CharacterState
  <2> HIDE DEF bag, body, bare
  <2>2. /\ bare \in CharacterState /\ bare.inventory = bag /\ bare.equipment = body
        /\ bare.gold = c.gold /\ bare.skills = c.skills
    BY <1>1, <1>6, <1>8, <2>1 DEF CharacterState
  <2>3. WornRight(bare)
    BY <1>1, <1>8, <2>2 DEF WornRight
  <2> QED
    BY <2>2, <2>3 DEF Whole
<1>10. bare = [AddItem(c, c.equipment[slot], 1) EXCEPT !.equipment[slot] = Nothing]
  BY <1>3
<1> HIDE DEF bag, body, bare
<1>11. ASSUME NEW j \in Items PROVE Held(bare, j) = Held(c, j)
  <2>1. /\ Held(bare, j) = bag[j] + (IF Wears(bare, j) THEN 1 ELSE 0)
        /\ Held(c, j) = c.inventory[j] + (IF Wears(c, j) THEN 1 ELSE 0)
        /\ c.inventory[j] \in Nat
    BY <1>9, HeldIs
  <2>2. Wears(bare, j) <=> Wears(c, j) /\ j # i
    BY <1>3, <1>4, <1>8, <1>9, CatalogAssumption DEF Wears
  <2>3. CASE j = i
    BY <1>4, <1>6, <2>1, <2>2, <2>3
  <2>4. CASE j # i
    BY <1>6, <2>1, <2>2, <2>4
  <2> QED
    BY <2>3, <2>4
<1> QED
  BY <1>9, <1>10, <1>11, RecomputeLeaves, RecomputeSound DEF Sound, Purse

\* A purchase brings as many items as it takes from the shelf.
LEMMA BuyHeld ==
    ASSUME NEW c \in Whole, NEW i \in Items, NEW q \in Nat, NEW gold \in 0 .. GoldWidth - 1,
           Held(c, i) + q < QuantityWidth
    PROVE  LET bought == AddItem([c EXCEPT !.gold = gold], i, q)
           IN  /\ bought \in Whole
               /\ \A j \in Items : Held(bought, j) = Held(c, j) + (IF j = i THEN q ELSE 0)
               /\ bought.gold = gold /\ bought.skills = c.skills
<1>1. c \in CharacterState /\ WornRight(c)
  BY DEF Whole
<1>2. c.inventory \in [Items -> 0 .. QuantityWidth - 1] /\ QuantityWidth \in Nat \ {0}
  BY <1>1, WidthsAssumption DEF CharacterState
<1>3. c.inventory[i] + q \in 0 .. QuantityWidth - 1 /\ c.inventory[i] + q \in Nat
  BY <1>2, HeldIs
<1> DEFINE bag == [c.inventory EXCEPT ![i] = c.inventory[i] + q]
           bought == AddItem([c EXCEPT !.gold = gold], i, q)
<1>4. /\ bag \in [Items -> 0 .. QuantityWidth - 1]
      /\ \A j \in Items : bag[j] = IF j = i THEN c.inventory[i] + q ELSE c.inventory[j]
  BY <1>2, <1>3
<1>5. bought = [c EXCEPT !.gold = gold, !.inventory = bag]
  <2>1. c.inventory[i] + q < QuantityWidth
    BY <1>2, <1>3
  <2>2. (c.inventory[i] + q) % QuantityWidth = c.inventory[i] + q
    BY <1>2, <1>3, <2>1, NoWrap
  <2> QED
    BY <1>1, <2>2 DEF AddItem, CharacterState
<1> HIDE DEF bag, bought
<1>6. /\ bought \in CharacterState /\ bought.inventory = bag /\ bought.equipment = c.equipment
      /\ bought.gold = gold /\ bought.skills = c.skills
  BY <1>1, <1>4, <1>5 DEF CharacterState
<1>7. bought \in Whole
  BY <1>1, <1>6 DEF Whole, WornRight
<1>8. ASSUME NEW j \in Items PROVE Held(bought, j) = Held(c, j) + (IF j = i THEN q ELSE 0)
  <2>1. /\ Held(bought, j) = bag[j] + (IF Wears(bought, j) THEN 1 ELSE 0)
        /\ Held(c, j) = c.inventory[j] + (IF Wears(c, j) THEN 1 ELSE 0)
        /\ c.inventory[j] \in Nat
    BY <1>6, <1>7, HeldIs
  <2>2. Wears(bought, j) <=> Wears(c, j)
    BY <1>6 DEF Wears
  <2> DEFINE w == IF Wears(c, j) THEN 1 ELSE 0
  <2>3. w \in Nat /\ Held(bought, j) = bag[j] + w /\ Held(c, j) = c.inventory[j] + w
    BY <2>1, <2>2
  <2> HIDE DEF w
  <2>4. CASE j = i
    <3>1. bag[j] = c.inventory[j] + q
      BY <1>4, <2>4
    <3> QED
      BY <2>1, <2>3, <2>4, <3>1
  <2>5. CASE j # i
    BY <1>4, <2>1, <2>3, <2>5
  <2> QED
    BY <2>4, <2>5
<1> QED
  BY <1>6, <1>7, <1>8 DEF bought

\* A sale brings gold, if neither the price nor the purse wraps.
LEMMA SaleBringsGold ==
    ASSUME NEW c \in Whole, NEW i \in Items, NEW q \in Nat \ {0}, q <= c.inventory[i],
           c.gold + Held(c, i) * SellPrice(c, i) < GoldWidth,
           NEW total, total = (SellPrice(c, i) * q) % GoldWidth
    PROVE  /\ (c.gold + total) % GoldWidth > c.gold
           /\ (c.gold + total) % GoldWidth = c.gold + SellPrice(c, i) * q
<1>1. PICK p \in Nat : p = SellPrice(c, i) /\ p >= 1
  BY PriceType
<1>2. PICK h \in Nat : h = Held(c, i) /\ q <= h
  BY HeldIs
<1>3. c.gold \in Nat /\ GoldWidth \in Nat \ {0}
  BY WidthsAssumption DEF Whole, CharacterState
<1>4. p * q \in Nat /\ h * p \in Nat /\ p * q >= 1
  BY <1>1, <1>2
<1>5. p * q <= h * p
  BY <1>1, <1>2
<1>6. c.gold + p * q < GoldWidth /\ p * q < GoldWidth
  BY <1>1, <1>2, <1>3, <1>4, <1>5
<1>7. total = p * q
  BY <1>1, <1>3, <1>4, <1>6, NoWrap
<1>8. (c.gold + total) % GoldWidth = c.gold + total
  BY <1>3, <1>4, <1>6, <1>7, NoWrap
<1> QED
  BY <1>1, <1>3, <1>4, <1>7, <1>8

\* The same goods and money, worn in another way.
Redressed(c, d) ==
    /\ \A j \in Items : Held(d, j) = Held(c, j)
    /\ d.gold = c.gold
    /\ d.skills = c.skills

\* Dressing and undressing move goods between the bag and the body.
LEMMA DressMoves ==
    ASSUME Inv, CountersHold, Dress
    PROVE  /\ Here /\ stock' = stock
           /\ \E d \in Whole : Kept' = d /\ Redressed(entity.state, d)
<1>1. Here /\ stock' = stock
  BY DEF Dress, TryEquipItem, TryUnequipItem
<1>2. PICK c : c = entity.state
  OBVIOUS
<1>3. /\ c \in Whole
      /\ c.inventory \in [Items -> 0 .. QuantityWidth - 1]
      /\ c.equipment \in [Slots -> Items \cup {Nothing}]
  BY <1>1, <1>2, Player
<1>4. ASSUME NEW j \in Items
      PROVE  Held(Kept, j) = Held(c, j) /\ Held(c, j) < QuantityWidth
  <2>1. InStock(j) \in Nat
    BY WidthsAssumption DEF Inv, TypeInv, InStock
  <2>2. Held(Kept, j) = Held(c, j) /\ Held(c, j) \in Nat
    BY <1>1, <1>2, <1>3, AsKept, HeldIs
  <2> QED
    BY <2>1, <2>2, WidthsAssumption DEF CountersHold
<1>5. PICK d \in Whole : Keep(d) /\ (\A j \in Items : Held(d, j) = Held(c, j)) /\ Purse(d) = Purse(c)
  <2>1. CASE \E i \in Items : TryEquipItem(i)
    <3>1. PICK i \in Items : TryEquipItem(i)
      BY <2>1
    <3>2. Catalog[i].slot \in Slots /\ c.inventory[i] > 0 /\ Keep(Equip(c, i))
      BY <1>2, <3>1, CatalogAssumption DEF TryEquipItem, CanEquip
    <3> QED
      BY <1>3, <1>4, <3>2, EquipHeld
  <2>2. CASE \E s \in Slots : TryUnequipItem(s)
    <3>1. PICK s \in Slots : TryUnequipItem(s)
      BY <2>2
    <3>2. /\ c.equipment[s] # Nothing
          /\ Keep(Recompute([AddItem(c, c.equipment[s], 1) EXCEPT !.equipment[s] = Nothing]))
      BY <1>2, <3>1 DEF TryUnequipItem
    <3> QED
      BY <1>3, <1>4, <3>2, UnequipHeld
  <2> QED
    BY <2>1, <2>2 DEF Dress
<1>6. Kept' = d
  BY <1>5, KeptNext
<1>7. d.gold = c.gold /\ d.skills = c.skills
  BY <1>5 DEF Purse
<1>8. Redressed(c, d)
  BY <1>5, <1>7 DEF Redressed
<1> QED
  BY <1>1, <1>2, <1>5, <1>6, <1>8

\* So they neither lose nor make an item.
LEMMA DressKeepsGoods ==
    ASSUME Inv, CountersHold, Dress
    PROVE  \A j \in Items : Held(Kept', j) + InStock(j)' = Held(Kept, j) + InStock(j)
<1>0. PICK d \in Whole : Kept' = d /\ Redressed(entity.state, d)
  BY DressMoves
<1>1. \A j \in Items : Held(d, j) = Held(entity.state, j)
  BY <1>0 DEF Redressed
<1>2. \A j \in Items : Held(Kept, j) = Held(entity.state, j)
  BY DressMoves, AsKept
<1>3. \A j \in Items : InStock(j)' = InStock(j)
  BY DressMoves DEF InStock
<1> QED
  BY <1>0, <1>1, <1>2, <1>3

\* A purchase moves goods from the shelf to the bag.
LEMMA BuyKeepsGoods ==
    ASSUME Inv, CountersHold, NEW i \in Items, NEW q \in Quantities, HandleMerchantBuy(i, q)
    PROVE  /\ \A j \in Items : Held(Kept', j) + InStock(j)' = Held(Kept, j) + InStock(j)
           /\ \E d \in Whole :
                  /\ Kept' = d
                  /\ \A j \in Items : Held(d, j) = Held(entity.state, j) + (IF j = i THEN q ELSE 0)
                  /\ d.gold = entity.state.gold - ((BuyPrice(entity.state, i) * q) % GoldWidth)
                  /\ d.skills = entity.state.skills
<1> USE DEF HandleMerchantBuy
<1>1. Here /\ i \in DOMAIN Stock /\ stock[i] >= q /\ stock' = [stock EXCEPT ![i] = @ - q]
  OBVIOUS
<1>2. PICK c : c = entity.state
  OBVIOUS
<1>3. c \in Whole
  BY <1>1, <1>2, Player
<1>4. PICK total : total = (BuyPrice(c, i) * q) % GoldWidth
  OBVIOUS
<1>5. c.gold >= total /\ Keep(AddItem([c EXCEPT !.gold = c.gold - total], i, q))
  BY <1>2, <1>4
<1>6. c.gold - total \in 0 .. GoldWidth - 1 /\ q \in Nat
  <2>1. BuyPrice(c, i) \in Nat /\ q \in Nat /\ GoldWidth \in Nat \ {0}
    BY <1>1, <1>3, PriceType, RequestsAssumption, WidthsAssumption
  <2>2. BuyPrice(c, i) * q \in Int
    BY <2>1, Product
  <2>3. total \in 0 .. GoldWidth - 1
    BY <1>4, <2>1, <2>2, Remainder
  <2>4. c.gold \in 0 .. GoldWidth - 1
    BY <1>3 DEF Whole, CharacterState
  <2> QED
    BY <1>5, <2>1, <2>3, <2>4
<1>7. /\ stock \in [DOMAIN Stock -> 0 .. QuantityWidth - 1]
      /\ QuantityWidth \in Nat \ {0}
  BY WidthsAssumption DEF Inv, TypeInv
<1>8. ASSUME NEW j \in Items
      PROVE  /\ Held(Kept, j) = Held(c, j) /\ Held(c, j) \in Nat
             /\ InStock(j) \in Nat
             /\ InStock(j)' = InStock(j) - (IF j = i THEN q ELSE 0)
  <2>1. Held(Kept, j) = Held(c, j) /\ Held(c, j) \in Nat
    BY <1>1, <1>2, <1>3, AsKept, HeldIs
  <2>2. InStock(j) \in Nat
    BY <1>7 DEF InStock
  <2>3. InStock(j)' = InStock(j) - (IF j = i THEN q ELSE 0)
    BY <1>1, <1>6, <1>7, <2>2 DEF InStock
  <2> QED
    BY <2>1, <2>2, <2>3
<1>9. Held(c, i) + q < QuantityWidth
  <2>1. InStock(i) = stock[i]
    BY <1>1 DEF InStock
  <2> QED
    BY <1>1, <1>6, <1>7, <1>8, <2>1 DEF CountersHold
<1>10. PICK d \in Whole : /\ Keep(d)
                          /\ \A j \in Items : Held(d, j) = Held(c, j) + (IF j = i THEN q ELSE 0)
                          /\ d.gold = c.gold - total /\ d.skills = c.skills
  BY <1>3, <1>5, <1>6, <1>9, BuyHeld
<1>11. Kept' = d
  BY <1>10, KeptNext
<1>12. \A j \in Items : Held(Kept', j) + InStock(j)' = Held(Kept, j) + InStock(j)
  BY <1>6, <1>8, <1>10, <1>11
<1> QED
  BY <1>2, <1>4, <1>10, <1>11, <1>12

\* Who has less gold than before, or as much, has sold nothing.
LEMMA SellingBringsGold ==
    ASSUME Inv, CountersHold, NEW i \in Items, NEW q \in Quantities, HandleMerchantSell(i, q)
    PROVE  /\ Kept'.gold > Kept.gold
           /\ \E d \in Whole :
                  /\ Kept' = d
                  /\ \A j \in Items : Held(d, j) = Held(entity.state, j) + (IF j = i THEN 0 - q ELSE 0)
                  /\ d.gold = entity.state.gold + SellPrice(entity.state, i) * q
                  /\ d.skills = entity.state.skills
<1> USE DEF HandleMerchantSell
<1>1. Here /\ q > 0
  OBVIOUS
<1>2. PICK c : c = entity.state
  OBVIOUS
<1>3. c \in Whole /\ q \in Nat \ {0} /\ c.inventory[i] >= q
  BY <1>1, <1>2, Player, RequestsAssumption
<1>4. PICK total, gold : /\ total = (SellPrice(c, i) * q) % GoldWidth
                         /\ gold = (c.gold + total) % GoldWidth
  OBVIOUS
<1>5. Keep([RemoveItem(c, i, q) EXCEPT !.gold = gold])
  <2>1. PICK sold : sold = RemoveItem(c, i, q)
    OBVIOUS
  <2>2. sold.gold = c.gold
    BY <1>3, <2>1, RemoveItemSound
  <2>3. Keep([sold EXCEPT !.gold = (sold.gold + total) % GoldWidth])
    BY <1>2, <1>4, <2>1
  <2> QED
    BY <1>4, <2>1, <2>2, <2>3
<1>6. /\ Kept.gold = c.gold /\ Held(Kept, i) = Held(c, i)
      /\ SellPrice(Kept, i) = SellPrice(c, i)
  BY <1>1, <1>2, AsKept
<1>7. gold > c.gold /\ gold = c.gold + SellPrice(c, i) * q
  <2>1. c.gold + Held(c, i) * SellPrice(c, i) < GoldWidth
    BY <1>6 DEF CountersHold
  <2>2. c.inventory[i] \in Nat
    BY <1>3, HeldIs
  <2>3. q <= c.inventory[i]
    BY <1>3, <2>2
  <2>4. /\ (c.gold + total) % GoldWidth > c.gold
        /\ (c.gold + total) % GoldWidth = c.gold + SellPrice(c, i) * q
    BY <1>3, <1>4, <2>1, <2>3, SaleBringsGold, Zenon
  <2> QED
    BY <1>4, <2>4, Zenon
<1>8. gold \in 0 .. GoldWidth - 1
  <2>1. SellPrice(c, i) \in Nat /\ GoldWidth \in Nat \ {0} /\ c.gold \in Nat
    BY <1>3, PriceType, WidthsAssumption DEF Whole, CharacterState
  <2>2. SellPrice(c, i) * q \in Int
    BY <1>3, <2>1, Product
  <2>3. total \in 0 .. GoldWidth - 1
    BY <1>4, <2>1, <2>2, Remainder
  <2>4. c.gold + total \in Int
    BY <2>1, <2>3
  <2> QED
    BY <1>4, <2>1, <2>4, Remainder
<1> DEFINE sold == [RemoveItem(c, i, q) EXCEPT !.gold = gold]
<1>9. /\ sold \in Whole /\ sold.gold = gold
      /\ sold.skills = c.skills /\ sold.equipment = c.equipment
      /\ sold.inventory = [c.inventory EXCEPT ![i] = @ - q]
  <2>1. RemoveItem(c, i, q) \in Sound
    <3>1. c \in Sound
      BY <1>1, <1>2, Player
    <3> QED
      BY <1>3, <3>1, RemoveItemSound
  <2>2. sold \in Sound
    BY <1>8, <2>1, GoldSound
  <2>3. /\ RemoveItem(c, i, q) \in CharacterState
        /\ RemoveItem(c, i, q).skills = c.skills /\ RemoveItem(c, i, q).equipment = c.equipment
    BY <1>3, <2>1, RemoveItemSound DEF Sound, Whole
  <2>4. RemoveItem(c, i, q).inventory = [c.inventory EXCEPT ![i] = @ - q]
    BY <1>3 DEF RemoveItem, Whole, CharacterState
  <2> QED
    BY <2>2, <2>3, <2>4 DEF Sound, CharacterState
<1> HIDE DEF sold
<1>10. Kept' = sold
  BY <1>5, <1>9, KeptNext DEF sold
<1>11. ASSUME NEW j \in Items
       PROVE  Held(sold, j) = Held(c, j) + (IF j = i THEN 0 - q ELSE 0)
  <2>1. PICK w \in Nat : w = IF Wears(c, j) THEN 1 ELSE 0
    OBVIOUS
  <2>2. Held(sold, j) = sold.inventory[j] + w /\ Held(c, j) = c.inventory[j] + w
    <3>1. Wears(sold, j) <=> Wears(c, j)
      BY <1>9 DEF Wears
    <3> QED
      BY <1>3, <1>9, <2>1, <3>1, HeldIs
  <2>3. c.inventory[j] \in Int /\ c.inventory \in [Items -> 0 .. QuantityWidth - 1]
    BY <1>3, HeldIs DEF Whole, CharacterState
  <2>4. sold.inventory[j] = IF j = i THEN c.inventory[j] - q ELSE c.inventory[j]
    BY <1>9, <2>3
  <2> QED
    BY <1>3, <2>1, <2>2, <2>3, <2>4
<1> QED
  BY <1>2, <1>6, <1>7, <1>9, <1>10, <1>11

\* A player who leaves leaves everything in the database.
LEMMA LeaveKeepsGoods ==
    ASSUME Inv, Leave
    PROVE  \A j \in Items : Held(Kept', j) + InStock(j)' = Held(Kept, j) + InStock(j)
<1>1. Here /\ saved' = ToJson(entity.state) /\ stock' = stock
  BY DEF Leave
<1>2. Kept' = entity.state
  BY <1>1, Player, ReadIsWritten DEF Kept
<1>3. \A j \in Items : InStock(j)' = InStock(j)
  BY <1>1 DEF InStock
<1> QED
  BY <1>1, <1>2, <1>3, AsKept

\* What is saved and what is on the shelf changes in trade, in dressing and in leaving, if
\* no event is counted.
LEMMA OnlyTheseWrite ==
    ASSUME Inv, [Next]_vars, events' = events, saved' # saved \/ stock' # stock
    PROVE  Trade \/ Dress \/ Leave
<1>1. ~ Count
  BY DEF Inv, TypeInv, Count
<1>2. ~ (HandleMeditate \/ HandleDebugCommand \/ Restart \/ \E f \in Combats : Fighting(f))
  <2>1. ~ HandleMeditate /\ ~ Restart
    BY <1>1, Zenon DEF HandleMeditate, Restart
  <2>2. ~ HandleDebugCommand
    BY <1>1, Zenon DEF HandleDebugCommand, GrantItem, PracticeSkill, SetSkillLevel, MaxSkills,
                       GrantDebugExperience, FillMana
  <2>3. ASSUME NEW f, Fighting(f) PROVE FALSE
    <3>1. \A p, event : ~ FightGoesOn(f, p, event) /\ ~ Lose(f, p, event)
      BY <1>1 DEF FightGoesOn, Lose
    <3>2. \A p, event, loot, x : ~ Win(f, p, event, loot, x)
      BY <1>1 DEF Win
    <3> QED
      BY <2>3, <3>1, <3>2, Zenon DEF Fighting
  <2> QED
    BY <2>1, <2>2, <2>3
<1>3. ~ (Walk \/ Enter \/ UNCHANGED vars \/ \E f \in Combats : StartFight(f))
  BY DEF Walk, StartFight, Enter, vars
<1> QED
  BY <1>1, <1>2, <1>3 DEF Next

\* Whatever a merchant hands out reaches the character that pays for it, and dressing and
\* undressing neither lose nor make an item, for every catalogue, stock and price list, as
\* long as no counter is at its limit (addItem, removeItem, tryEquipItem, tryUnequipItem,
\* handleMerchantBuy, handleMerchantSell).
THEOREM GoodsStayAccountedFor == Spec /\ []CountersHold => GoodsAreAccountedFor
<1> DEFINE Accounted ==
        LET before == Kept
            after  == Kept'
        IN  (saved' # saved \/ stock' # stock) /\ events' = events /\ after.gold <= before.gold =>
                \A i \in Items : Held(after, i) + InStock(i)' = Held(before, i) + InStock(i)
<1>1. ASSUME Inv, CountersHold, [Next]_vars PROVE [Accounted]_vars
  <2> SUFFICES ASSUME saved' # saved \/ stock' # stock, events' = events, ~ (Kept'.gold > Kept.gold)
               PROVE  \A i \in Items : Held(Kept', i) + InStock(i)' = Held(Kept, i) + InStock(i)
    <3>1. saved \in Rows /\ saved' \in Rows
      BY <1>1, StepKeeps DEF Inv, TypeInv
    <3>2. Kept.gold \in Int /\ Kept'.gold \in Int
      BY <3>1, RowsHaveGold DEF Kept
    <3>3. Kept'.gold <= Kept.gold => ~ (Kept'.gold > Kept.gold)
      BY <3>2
    <3> QED
      BY <3>3
  <2>1. CASE Trade
    <3>1. \A i \in Items, q \in Quantities : ~ HandleMerchantSell(i, q)
      BY <1>1, SellingBringsGold
    <3> QED
      BY <1>1, <2>1, <3>1, BuyKeepsGoods DEF Trade
  <2>2. CASE Dress
    BY <1>1, <2>2, DressKeepsGoods
  <2>3. CASE Leave
    BY <1>1, <2>3, LeaveKeepsGoods
  <2> QED
    BY <1>1, <2>1, <2>2, <2>3, OnlyTheseWrite
<1> QED
  BY <1>1, CharacterInvariant, PTL DEF Spec, GoodsAreAccountedFor
-----------------------------------------------------------------------------
(***************************************************************************)
(* Money.  What a character is worth is a sum over all items.              *)
(***************************************************************************)
\* In a set of finite sets is one that is empty, or that is left with less.
LEMMA SmallestSet ==
    ASSUME NEW S, IsFiniteSet(S), NEW W \in SUBSET (SUBSET S), W # {}
    PROVE  \E s \in W : s # {} => Chosen(s) \in s /\ s \ {Chosen(s)} \in (SUBSET S) \ W
<1>1. \A s \in SUBSET S : IsFiniteSet(s) /\ Cardinality(s) \in Nat
  BY FS_Subset, FS_CardinalityType
<1> DEFINE T == {Cardinality(s) : s \in W}
<1>2. T \in SUBSET Nat /\ T # {}
  BY <1>1
<1>3. PICK n \in T : \A m \in T : n <= m
  <2> HIDE DEF T
  <2> QED
    BY <1>2, LeastNatural
<1>4. PICK s \in W : n = Cardinality(s)
  BY <1>3
<1>5. ASSUME s # {}
      PROVE  Chosen(s) \in s /\ s \ {Chosen(s)} \in (SUBSET S) \ W
  <2>1. Chosen(s) \in s
    BY <1>5 DEF Chosen
  <2>2. s \ {Chosen(s)} \in SUBSET S /\ s \in SUBSET S
    BY <1>4
  <2>3. Cardinality(s \ {Chosen(s)}) = n - 1 /\ n \in Nat
    BY <1>1, <1>4, <2>1, <2>2, FS_RemoveElement
  <2>4. s \ {Chosen(s)} \notin W
    <3> SUFFICES ASSUME s \ {Chosen(s)} \in W PROVE FALSE
      OBVIOUS
    <3>1. n - 1 \in T
      BY <2>3
    <3> HIDE DEF T
    <3> QED
      BY <1>3, <2>3, <3>1
  <2> QED
    BY <2>1, <2>2, <2>4
<1> QED
  BY <1>4, <1>5

\* Two functions differ by d at k, and nowhere else.
Differ(S, v, w, k, d) ==
    /\ IsFiniteSet(S)
    /\ v \in [S -> Nat]
    /\ w \in [S -> Nat]
    /\ d \in Int
    /\ k \in S => w[k] = v[k] + d
    /\ \A x \in S \ {k} : w[x] = v[x]

\* A sum moves with the one summand that does.
LEMMA SumMoves ==
    ASSUME NEW S, NEW v, NEW w, NEW k, NEW d, Differ(S, v, w, k, d),
           NEW g, SumsUp(g, v, S), NEW h, SumsUp(h, w, S)
    PROVE  /\ g[S] \in Int /\ h[S] \in Int
           /\ k \in S => h[S] = g[S] + d
           /\ k \notin S => h[S] = g[S]
<1> USE DEF Differ
<1>1. \A s \in SUBSET S : g[s] = IF s = {} THEN 0 ELSE v[Chosen(s)] + g[s \ {Chosen(s)}]
  BY Zenon DEF SumsUp
<1>2. \A s \in SUBSET S : h[s] = IF s = {} THEN 0 ELSE w[Chosen(s)] + h[s \ {Chosen(s)}]
  BY Zenon DEF SumsUp
<1> DEFINE Right(s) == /\ g[s] \in Int /\ h[s] \in Int
                       /\ h[s] = g[s] + (IF k \in s THEN d ELSE 0)
           Wrong == {s \in SUBSET S : ~ Right(s)}
<1>3. ASSUME Wrong # {} PROVE FALSE
  <2>1. PICK s \in Wrong : s # {} => Chosen(s) \in s /\ s \ {Chosen(s)} \in (SUBSET S) \ Wrong
    <3>1. Wrong \in SUBSET (SUBSET S)
      OBVIOUS
    <3> HIDE DEF Wrong
    <3> QED
      BY <1>3, <3>1, SmallestSet
  <2>2. s # {}
    <3> SUFFICES ASSUME s = {} PROVE FALSE
      OBVIOUS
    <3>1. g[{}] = 0 /\ h[{}] = 0
      BY <1>1, <1>2
    <3> QED
      BY <2>1, <3>1
  <2>3. PICK x, r : x = Chosen(s) /\ r = s \ {x}
    OBVIOUS
  <2>4. x \in s /\ x \in S /\ s \in SUBSET S
    BY <2>1, <2>2, <2>3
  <2>5. Right(r)
    BY <2>1, <2>2, <2>3
  <2>6. g[s] = v[x] + g[r] /\ h[s] = w[x] + h[r]
    BY <1>1, <1>2, <2>2, <2>3, <2>4
  <2>7. v[x] \in Int /\ w[x] \in Int /\ w[x] = v[x] + (IF x = k THEN d ELSE 0)
    BY <2>4
  <2>8. k \in s <=> k \in r \/ x = k
    BY <2>3, <2>4
  <2>9. k \in r => x # k
    BY <2>3
  <2>10. Right(s)
    <3>1. CASE x = k
      BY <2>5, <2>6, <2>7, <2>8, <2>9, <3>1
    <3>2. CASE x # k
      BY <2>5, <2>6, <2>7, <2>8, <3>2
    <3> QED
      BY <3>1, <3>2
  <2> QED
    BY <2>1, <2>10
<1>4. Right(S)
  BY <1>3
<1> QED
  BY <1>4

\* What an item is worth, all there is of it.
Value(c) == [i \in Items |-> Held(c, i) * SellPrice(c, i)]

\* What a character has of an item is worth a whole number of gold.
LEMMA ValueType ==
    ASSUME NEW c \in Whole
    PROVE  Value(c) \in [Items -> Nat]
<1>1. \A i \in Items : Held(c, i) \in Nat /\ SellPrice(c, i) \in Nat
  BY HeldIs, PriceType
<1> QED
  BY <1>1, Product DEF Value

\* The purse and the sum of the values.
LEMMA WorthIs ==
    ASSUME NEW c \in Whole
    PROVE  \E g : SumsUp(g, Value(c), Items) /\ Worth(c) = c.gold + g[Items]
<1>1. Value(c) \in [Items -> Nat] /\ IsFiniteSet(Items)
  BY ValueType, CatalogAssumption
<1>2. PICK g : SumsUp(g, Value(c), Items)
  BY <1>1, SumExists
<1>0. \A s \in SUBSET Items : s # {} =>
          Held(c, CHOOSE x \in s : TRUE) * SellPrice(c, CHOOSE x \in s : TRUE) = Value(c)[Chosen(s)]
  BY DEF Chosen, Value
<1> DEFINE F == CHOOSE f : f = [s \in SUBSET Items |-> IF s = {} THEN 0
                      ELSE Held(c, CHOOSE x \in s : TRUE) * SellPrice(c, CHOOSE x \in s : TRUE)
                           + f[s \ {CHOOSE x \in s : TRUE}]]
<1>3. g = [s \in SUBSET Items |-> IF s = {} THEN 0
                      ELSE Held(c, CHOOSE x \in s : TRUE) * SellPrice(c, CHOOSE x \in s : TRUE)
                           + g[s \ {CHOOSE x \in s : TRUE}]]
  BY <1>0, <1>2 DEF SumsUp, Chosen
<1>4. Worth(c) = c.gold + F[Items]
  BY DEF Worth, MapThenSumSet, MapThenFoldSet
<1>5. F = [s \in SUBSET Items |-> IF s = {} THEN 0
                      ELSE Held(c, CHOOSE x \in s : TRUE) * SellPrice(c, CHOOSE x \in s : TRUE)
                           + F[s \ {CHOOSE x \in s : TRUE}]]
  BY <1>3, Zenon
<1> HIDE DEF F
<1>6. SumsUp(F, Value(c), Items)
  BY <1>0, <1>5 DEF SumsUp, Chosen
<1> QED
  BY <1>4, <1>6

\* Who has n more of one item than before, at the same prices, is worth as much more.
LEMMA WorthMoves ==
    ASSUME NEW c \in Whole, NEW d \in Whole, NEW k, NEW n \in Int,
           \A i \in Items : /\ Held(d, i) = Held(c, i) + (IF i = k THEN n ELSE 0)
                            /\ SellPrice(d, i) = SellPrice(c, i)
    PROVE  /\ Worth(c) \in Int /\ Worth(d) \in Int
           /\ k \in Items => Worth(d) - d.gold = Worth(c) - c.gold + n * SellPrice(c, k)
           /\ k \notin Items => Worth(d) - d.gold = Worth(c) - c.gold
<1>1. PICK g : SumsUp(g, Value(c), Items) /\ Worth(c) = c.gold + g[Items]
  BY WorthIs
<1>2. PICK h : SumsUp(h, Value(d), Items) /\ Worth(d) = d.gold + h[Items]
  BY WorthIs
<1>3. /\ Value(c) \in [Items -> Nat] /\ Value(d) \in [Items -> Nat] /\ IsFiniteSet(Items)
      /\ c.gold \in Int /\ d.gold \in Int
  BY ValueType, CatalogAssumption, WidthsAssumption DEF Whole, CharacterState
<1>4. PICK p \in Int : k \in Items => p = n * SellPrice(c, k)
  <2>1. k \in Items => SellPrice(c, k) \in Int
    BY PriceType
  <2>2. k \in Items => n * SellPrice(c, k) \in Int
    BY <2>1
  <2> QED
    BY <2>2
<1>5. ASSUME NEW x \in Items
      PROVE  Value(d)[x] = Value(c)[x] + (IF x = k THEN p ELSE 0)
  <2>1. PICK a \in Int, b \in Int, e \in Int :
            a = Held(c, x) /\ b = SellPrice(c, x) /\ e = (IF x = k THEN n ELSE 0)
    BY HeldIs, PriceType
  <2>2. Value(d)[x] = (a + e) * b /\ Value(c)[x] = a * b
    BY <2>1 DEF Value
  <2>3. (a + e) * b = a * b + e * b
    OBVIOUS
  <2>4. e * b = IF x = k THEN p ELSE 0
    BY <1>4, <2>1
  <2> QED
    BY <2>2, <2>3, <2>4
<1>6. /\ g[Items] \in Int /\ h[Items] \in Int
      /\ k \in Items => h[Items] = g[Items] + p
      /\ k \notin Items => h[Items] = g[Items]
  <2>1. Differ(Items, Value(c), Value(d), k, p)
    BY <1>3, <1>5 DEF Differ
  <2> QED
    BY <1>1, <1>2, <2>1, SumMoves
<1> QED
  BY <1>1, <1>2, <1>3, <1>4, <1>6

\* The prices of the code: with a discount of a third at most, and a price list that asks for
\* what items are worth or more, the merchant never pays more for an item than it asks.
\* (npcs.json lists the vendorValue of items.json for all that is sold.)
PriceList == \A i \in DOMAIN Stock : Stock[i].price = 0 \/ Stock[i].price >= Catalog[i].value

Discount(c) == 17 * SkillLevel(c, "merchant") + 10 * Charisma

\* A smaller number has a smaller quotient.
LEMMA SmallerQuotient ==
    ASSUME NEW a \in Nat, NEW b \in Nat, a <= b
    PROVE  a \div 25500 \in Nat /\ b \div 25500 \in Nat /\ a \div 25500 <= b \div 25500
OBVIOUS

\* The modifier is no less than two thirds.
LEMMA ModifierIs ==
    ASSUME NEW c \in Whole, Discount(c) <= 8500
    PROVE  Modifier(c) \in Nat /\ Modifier(c) >= 17000 /\ Modifier(c) <= 25500
<1>1. PICK n \in Nat : n = Discount(c) /\ n <= 8500
  BY SkillOrDefaultType, WidthsAssumption DEF Discount
<1>2. PICK q \in Int : q = 25500 - n /\ q >= 17000 /\ q <= 25500
  BY <1>1
<1> DEFINE r == 25500 - 17 * SkillLevel(c, "merchant") - 10 * Charisma
           low == Min({25500, r})
           all == Max({12750, low})
<1>3. Modifier(c) = all
  BY DEF Modifier
<1>4. r = q
  BY <1>1, <1>2, SkillOrDefaultType, WidthsAssumption DEF Discount
<1> HIDE DEF r
<1>5. low = q
  BY <1>2, <1>4, MinOfTwo
<1> HIDE DEF low
<1>6. all = q
  BY <1>2, <1>5, MaxOfTwo
<1> HIDE DEF all
<1> QED
  BY <1>2, <1>3, <1>6

\* What one number has over another.
LEMMA Surplus ==
    ASSUME NEW p \in Nat, NEW m \in Nat, p <= m
    PROVE  \E f \in Nat : m = p + f
<1>1. m - p \in Nat /\ m = p + (m - p)
  OBVIOUS
<1> QED
  BY <1>1, Zenon

\* A half of what is asked for, at one and a third, is less than two thirds of it.
LEMMA TwoThirds ==
    ASSUME NEW half \in Nat, NEW base \in Nat, 2 * half <= base,
           NEW p \in Nat, NEW m \in Nat, p <= 2 * m
    PROVE  half * p <= base * m
<1>1. PICK e \in Nat, f \in Nat : base = 2 * half + e /\ 2 * m = p + f
  <2>1. 2 * half \in Nat /\ 2 * m \in Nat
    OBVIOUS
  <2>2. \E e \in Nat : base = 2 * half + e
    BY <2>1, Surplus
  <2>3. \E f \in Nat : 2 * m = p + f
    BY <2>1, Surplus
  <2> QED
    BY <2>2, <2>3
<1>2. base * m = half * (2 * m) + e * m
  BY <1>1
<1>3. half * (2 * m) = half * p + half * f
  BY <1>1
<1>4. PICK x \in Nat, y \in Nat, z \in Nat : x = half * p /\ y = half * f /\ z = e * m
  BY Product
<1> QED
  BY <1>2, <1>3, <1>4

\* Nothing is cheaper than what it can be sold for.
LEMMA NoBargain ==
    ASSUME NEW c \in Whole, NEW i \in DOMAIN Stock, PriceList, Discount(c) <= 8500
    PROVE  SellPrice(c, i) <= BuyPrice(c, i)
<1> DEFINE m == Modifier(c)
           v == Catalog[i].value
           base == IF Stock[i].price > 0 THEN Stock[i].price ELSE Catalog[i].value
           half == Max({1, v \div 2})
           p == 51000 - m
           x == half * p
           z == base * m
           paid == x \div 25500
           asked == z \div 25500
<1>1. m \in Nat /\ m >= 17000 /\ m <= 25500
  BY ModifierIs
<1>2. v \in Nat
  BY CatalogAssumption
<1>3. base \in Nat /\ base >= v
  BY <1>2, CatalogAssumption DEF PriceList
<1>4. half \in Nat /\ (half = 1 \/ 2 * half <= v)
  <2>1. v \div 2 \in Nat /\ 2 * (v \div 2) <= v
    BY <1>2
  <2>2. Max({1, v \div 2}) = IF 1 >= v \div 2 THEN 1 ELSE v \div 2
    BY <2>1, MaxOfTwo
  <2> QED
    BY <1>2, <2>1, <2>2
<1>8. SellPrice(c, i) = Max({1, paid}) /\ BuyPrice(c, i) = Max({1, asked})
  BY DEF SellPrice, BuyPrice
<1> HIDE DEF m, v, base, half
<1>5. p \in Nat /\ p <= 2 * m /\ p <= 34000
  BY <1>1
<1> HIDE DEF p
<1>6. x \in Nat /\ z \in Nat
  BY <1>1, <1>3, <1>4, <1>5, Product
<1>7. paid \in Nat /\ asked \in Nat
  <2> HIDE DEF x, z
  <2> QED
    BY <1>6, SmallerQuotient
<1>11. /\ SellPrice(c, i) = IF 1 >= paid THEN 1 ELSE paid
       /\ BuyPrice(c, i) = IF 1 >= asked THEN 1 ELSE asked
  <2> HIDE DEF paid, asked
  <2> QED
    BY <1>7, <1>8, MaxOfTwo
<1>9. CASE half = 1
  <2>1. x <= 34000
    BY <1>5, <1>9
  <2>2. paid <= 1
    <3> HIDE DEF x
    <3> QED
      BY <1>6, <2>1
  <2> HIDE DEF paid, asked
  <2> QED
    BY <1>7, <1>11, <2>2
<1>10. CASE 2 * half <= v
  <2>1. 2 * half <= base
    BY <1>2, <1>3, <1>4, <1>10
  <2>2. x <= z
    BY <1>1, <1>3, <1>4, <1>5, <2>1, TwoThirds
  <2>3. paid <= asked
    <3> HIDE DEF x, z
    <3> QED
      BY <1>6, <2>2, SmallerQuotient
  <2> HIDE DEF paid, asked
  <2> QED
    BY <1>7, <1>11, <2>3
<1> QED
  BY <1>4, <1>9, <1>10

\* What the zone's copy of a character is worth is what the row is worth.
LEMMA KeptWorth ==
    ASSUME Inv, Here
    PROVE  /\ entity.state \in Whole
           /\ Worth(Kept) = Worth(entity.state) /\ Worth(Kept) \in Int
<1>1. PICK c, r : c = entity.state /\ r = Kept
  OBVIOUS
<1>2. c \in Whole /\ r \in Whole
  BY <1>1, Player, AsKept
<1>3. r.gold = c.gold /\ \A i \in Items : Held(r, i) = Held(c, i) /\ SellPrice(r, i) = SellPrice(c, i)
  BY <1>1, AsKept
<1>4. c.gold \in Int
  BY <1>2, WidthsAssumption DEF Whole, CharacterState
<1>5. PICK k : k \notin Items
  BY CatalogAssumption
<1>6. \A i \in Items : Held(r, i) = Held(c, i) + (IF i = k THEN 0 ELSE 0)
  BY <1>2, <1>3, HeldIs
<1>7. Worth(c) \in Int /\ Worth(r) \in Int /\ Worth(r) - r.gold = Worth(c) - c.gold
  BY <1>2, <1>3, <1>5, <1>6, WorthMoves
<1> QED
  BY <1>1, <1>2, <1>3, <1>4, <1>7

\* Same skills, same prices.
LEMMA SamePrices ==
    ASSUME NEW c, NEW d, d.skills = c.skills
    PROVE  \A i \in Items : SellPrice(d, i) = SellPrice(c, i)
BY DEF SellPrice, Modifier, SkillLevel, SkillOrDefault

\* Who has the same goods at the same prices is worth the same.
LEMMA WorthStays ==
    ASSUME NEW c \in Whole, NEW d \in Whole, d.gold = c.gold,
           \A i \in Items : Held(d, i) = Held(c, i) /\ SellPrice(d, i) = SellPrice(c, i)
    PROVE  Worth(d) = Worth(c)
<1>1. PICK k : k \notin Items
  BY CatalogAssumption
<1>2. \A i \in Items : Held(d, i) = Held(c, i) + (IF i = k THEN 0 ELSE 0)
  BY HeldIs
<1>3. Worth(c) \in Int /\ Worth(d) \in Int /\ Worth(d) - d.gold = Worth(c) - c.gold
  BY <1>1, <1>2, WorthMoves
<1>4. c.gold \in Int
  BY WidthsAssumption DEF Whole, CharacterState
<1> QED
  BY <1>3, <1>4

\* What the merchant asks for all there is on the shelf fits into a uint32_t.
BillsHold ==
    Here => \A i \in DOMAIN Stock : BuyPrice(entity.state, i) * stock[i] < GoldWidth

\* Skill and charisma bring no more than a third off the price.
DiscountHolds == Here => Discount(entity.state) <= 8500

\* Dressing and undressing leave the worth as it is.
LEMMA DressEarnsNothing ==
    ASSUME Inv, CountersHold, Dress
    PROVE  Worth(Kept') <= Worth(Kept)
<1>1. PICK c : c = entity.state
  OBVIOUS
<1>2. PICK d \in Whole : Kept' = d /\ Redressed(c, d)
  BY <1>1, DressMoves
<1>3. c \in Whole /\ Worth(Kept) = Worth(c) /\ Worth(c) \in Int
  BY <1>1, DressMoves, KeptWorth
<1>4. Worth(d) = Worth(c)
  BY <1>2, <1>3, SamePrices, WorthStays DEF Redressed
<1> QED
  BY <1>2, <1>3, <1>4

\* Who logs out is saved as he is.
LEMMA LeavingEarnsNothing ==
    ASSUME Inv, Leave
    PROVE  Worth(Kept') <= Worth(Kept)
<1>1. Here /\ saved' = ToJson(entity.state)
  BY DEF Leave
<1>2. Kept' = entity.state
  BY <1>1, Player, ReadIsWritten DEF Kept
<1> QED
  BY <1>1, <1>2, KeptWorth

\* A purchase costs at least what the goods could be sold for.
LEMMA BuyingEarnsNothing ==
    ASSUME Inv, CountersHold, BillsHold, DiscountHolds, PriceList,
           NEW i \in Items, NEW q \in Quantities, HandleMerchantBuy(i, q)
    PROVE  Worth(Kept') <= Worth(Kept)
<1>1. Here /\ i \in DOMAIN Stock /\ stock[i] >= q
  BY DEF HandleMerchantBuy
<1>2. PICK c : c = entity.state
  OBVIOUS
<1>3. PICK d \in Whole :
          /\ Kept' = d
          /\ \A j \in Items : Held(d, j) = Held(c, j) + (IF j = i THEN q ELSE 0)
          /\ d.gold = c.gold - ((BuyPrice(c, i) * q) % GoldWidth)
          /\ d.skills = c.skills
  BY <1>2, BuyKeepsGoods
<1>4. c \in Whole /\ Worth(Kept) = Worth(c)
  BY <1>1, <1>2, KeptWorth
<1>5. /\ Worth(c) \in Int /\ Worth(d) \in Int /\ q \in Nat
      /\ Worth(d) - d.gold = Worth(c) - c.gold + q * SellPrice(c, i)
  BY <1>3, <1>4, RequestsAssumption, SamePrices, WorthMoves
<1>6. PICK asked \in Nat, paid \in Nat :
          asked = BuyPrice(c, i) /\ paid = SellPrice(c, i) /\ paid <= asked
  BY <1>1, <1>2, <1>4, PriceType, NoBargain DEF DiscountHolds
<1>7. PICK there \in Nat : there = stock[i] /\ q <= there /\ asked * there < GoldWidth
  BY <1>1, <1>2, <1>6, WidthsAssumption DEF BillsHold, Inv, TypeInv
<1>8. asked * q \in Nat /\ asked * q <= asked * there /\ asked * there \in Nat
  BY <1>5, <1>7, Product
<1>9. (asked * q) % GoldWidth = asked * q
  BY <1>7, <1>8, NoWrap, WidthsAssumption
<1>10. paid * q \in Nat /\ paid * q <= asked * q /\ q * paid = paid * q
  BY <1>5, <1>6, Product
<1>11. d.gold = c.gold - asked * q /\ c.gold \in Int
  BY <1>3, <1>4, <1>6, <1>9, WidthsAssumption DEF Whole, CharacterState
<1> QED
  BY <1>3, <1>4, <1>5, <1>6, <1>8, <1>10, <1>11

\* A sale pays what the goods are worth.
LEMMA SellingEarnsNothing ==
    ASSUME Inv, CountersHold, NEW i \in Items, NEW q \in Quantities, HandleMerchantSell(i, q)
    PROVE  Worth(Kept') <= Worth(Kept)
<1>1. Here
  BY DEF HandleMerchantSell
<1>2. PICK c : c = entity.state
  OBVIOUS
<1>3. PICK d \in Whole :
          /\ Kept' = d
          /\ \A j \in Items : Held(d, j) = Held(c, j) + (IF j = i THEN 0 - q ELSE 0)
          /\ d.gold = c.gold + SellPrice(c, i) * q
          /\ d.skills = c.skills
  BY <1>2, SellingBringsGold
<1>4. c \in Whole /\ Worth(Kept) = Worth(c)
  BY <1>1, <1>2, KeptWorth
<1>5. PICK n \in Int : n = 0 - q /\ q \in Nat
  BY RequestsAssumption
<1>6. /\ Worth(c) \in Int /\ Worth(d) \in Int
      /\ Worth(d) - d.gold = Worth(c) - c.gold + n * SellPrice(c, i)
  <2>1. \A j \in Items : Held(d, j) = Held(c, j) + (IF j = i THEN n ELSE 0)
    BY <1>3, <1>5
  <2>2. \A j \in Items : SellPrice(d, j) = SellPrice(c, j)
    BY <1>3, SamePrices
  <2> QED
    BY <1>4, <2>1, <2>2, WorthMoves
<1>7. PICK paid \in Nat : paid = SellPrice(c, i)
  BY <1>4, PriceType
<1>8. PICK bill \in Nat : bill = paid * q /\ n * paid = 0 - bill
  BY <1>5, Product
<1>9. d.gold = c.gold + bill /\ c.gold \in Int
  BY <1>3, <1>4, <1>7, <1>8, WidthsAssumption DEF Whole, CharacterState
<1> QED
  BY <1>3, <1>4, <1>6, <1>7, <1>8, <1>9

\* No cap, and nobody who comes in, makes a merchant of a third off.
SmallDiscounts ==
    /\ 17 * Caps[RowClass]["merchant"].max + 10 * Charisma <= 8500
    /\ Discount(CreateDefault("warrior", 1)) <= 8500
    /\ \A h \in Heroes : Discount(h) <= 8500

\* Nor does anything that is learned or set afterwards: no skill that a step changes gets
\* above its cap (getCap, applyGain, the debug commands).
LEMMA DiscountsStaySmall == ASSUME SmallDiscounts PROVE Spec => []DiscountHolds
<1> DEFINE Small == Discount(Kept) <= 8500
<1>1. ASSUME Init PROVE Small
  <2>1. CASE saved = Empty
    BY <2>1 DEF SmallDiscounts, Kept, FromJson
  <2>2. CASE \E h \in Heroes : saved = ToJson(h)
    <3>1. PICK h \in Heroes : saved = ToJson(h)
      BY <2>2
    <3>2. PICK c \in Whole : /\ ToJson(h) = ToJson(c)
                             /\ \A s \in Skills : SkillLevel(c, s) = SkillLevel(h, s)
      BY HeroIsRow
    <3>3. Kept = c
      BY <3>1, <3>2, ReadIsWritten DEF Kept
    <3>4. Discount(c) = Discount(h)
      BY <3>2, RulesAssumption DEF Discount
    <3> QED
      BY <3>3, <3>4 DEF SmallDiscounts
  <2> QED
    BY <1>1, <2>1, <2>2 DEF Init
<1>2. ASSUME Inv, Small, [Next]_vars PROVE Small'
  <2>1. PICK c \in Whole, d \in Whole : c = Kept /\ d = Kept'
    <3>1. Inv'
      BY <1>2, StepKeeps
    <3>2. saved \in Rows /\ saved' \in Rows
      BY <1>2, <3>1 DEF Inv, TypeInv
    <3> QED
      BY <3>2, RowsAreRead DEF Kept
  <2>2. "merchant" \in Skills /\ RowClass \in Classes
    BY <2>1, RulesAssumption DEF Whole, CharacterState
  <2>3. PICK before \in Nat, after \in Nat, cap \in Nat :
            /\ before = SkillLevel(c, "merchant")
            /\ after = SkillLevel(d, "merchant")
            /\ cap = Caps[RowClass]["merchant"].max
    BY <2>2, SkillOrDefaultType, RulesAssumption
  <2>4. after <= before \/ after <= cap
    <3>1. Taught(c, d)
      BY <1>2, <2>1, StepTeaches
    <3> QED
      BY <2>2, <2>3, <3>1 DEF Taught
  <2>5. 17 * before + 10 * Charisma <= 8500 /\ 17 * cap + 10 * Charisma <= 8500
    BY <1>2, <2>1, <2>2, <2>3 DEF SmallDiscounts, Discount
  <2>6. 17 * after + 10 * Charisma <= 8500
    BY <2>3, <2>4, <2>5, WidthsAssumption
  <2>7. Discount(d) <= 8500
    BY <2>3, <2>6 DEF Discount
  <2> QED
    BY <2>1, <2>7
<1>3. ASSUME Inv, Small PROVE DiscountHolds
  BY <1>3, AsKept DEF DiscountHolds, Discount, SkillLevel, SkillOrDefault
<1> HIDE DEF Small
<1> QED
  BY <1>1, <1>2, <1>3, CharacterInvariant, PTL DEF Spec

\* Trading and changing gear never make a character richer, whatever the catalogue, the stock
\* and the order of events: as long as the merchant asks at least what an item is worth, the
\* caps leave no discount of more than a third and no counter is at its limit
\* (merchantBuyPrice, merchantSellPrice, handleMerchantBuy, handleMerchantSell).
THEOREM NobodyGetsRichByTrade ==
    ASSUME PriceList, SmallDiscounts
    PROVE  Spec /\ []CountersHold /\ []BillsHold => NoMoneyPump
<1>1. ASSUME Inv, CountersHold, BillsHold, DiscountHolds, [Next]_vars
      PROVE  [saved' # saved /\ events' = events => Worth(Kept') <= Worth(Kept)]_vars
  <2> SUFFICES ASSUME saved' # saved, events' = events
               PROVE  Worth(Kept') <= Worth(Kept)
    OBVIOUS
  <2>1. CASE Trade
    BY <1>1, <2>1, BuyingEarnsNothing, SellingEarnsNothing DEF Trade
  <2>2. CASE Dress
    BY <1>1, <2>2, DressEarnsNothing
  <2>3. CASE Leave
    BY <1>1, <2>3, LeavingEarnsNothing
  <2> QED
    BY <1>1, <2>1, <2>2, <2>3, OnlyTheseWrite
<1> QED
  BY <1>1, CharacterInvariant, DiscountsStaySmall, PTL DEF Spec, NoMoneyPump
=============================================================================
