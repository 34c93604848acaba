------------------------------- MODULE Totals -------------------------------
(***************************************************************************)
(* Facts about data that the proofs rest on: the sum of a function over a  *)
(* finite set (SumFunctionOnSet of the community modules), with which      *)
(* stock, points and units are counted; functions defined by recursion on  *)
(* a number; a finite set in the order of a score.  All are proved by the  *)
(* least set, or number, that refutes them.                                *)
(***************************************************************************)
EXTENDS Functions, FiniteSetTheorems, SequenceTheorems, WellFoundedInduction, TLAPS

(* The element a sum takes next.                                           *)
Next1(s) == CHOOSE x \in s : TRUE

(* g holds the sums of f over all subsets of S.                            *)
Partial(f, S, g) ==
    g = [s \in SUBSET S |-> IF s = {} THEN 0 ELSE f[Next1(s)] + g[s \ {Next1(s)}]]

(* What is to be proved of every subset of a finite set is true if no      *)
(* least subset refutes it.                                                *)
LEMMA LeastSubset ==
    ASSUME NEW S, IsFiniteSet(S), NEW Bad \in SUBSET SUBSET S, Bad # {}
    PROVE  \E s \in Bad : \A t \in SUBSET s : t # s => t \notin Bad
  <1>1. IsWellFoundedOn(StrictSubsetOrdering(S), SUBSET S)
    BY FS_StrictSubsetOrderingWellFounded, FS_FiniteSubsetsOfFinite
  <1>2. \E s \in Bad : \A t \in Bad : ~ (<<t, s>> \in StrictSubsetOrdering(S))
    BY <1>1, WFMin
  <1>3. PICK s \in Bad : \A t \in Bad : ~ (<<t, s>> \in StrictSubsetOrdering(S))
    BY <1>2
  <1>4. ASSUME NEW t \in SUBSET s, t # s, t \in Bad PROVE FALSE
    <2>1. <<t, s>> \in StrictSubsetOrdering(S)
      BY <1>4 DEF StrictSubsetOrdering
    <2> QED
      BY <1>3, <1>4, <2>1
  <1> QED
    BY <1>4

(* The sum, by its table.                                                  *)
LEMMA SumIs ==
    ASSUME NEW f, NEW S
    PROVE  SumFunctionOnSet(f, S) = (CHOOSE g : Partial(f, S, g))[S]
  BY DEF SumFunctionOnSet, FoldFunctionOnSet, MapThenFoldSet, Partial, Next1

(* Two tables of sums agree where both have an entry.                      *)
LEMMA PartialUnique ==
    ASSUME NEW f, NEW S, NEW T, IsFiniteSet(S), NEW g, NEW h, Partial(f, S, g), Partial(f, T, h),
           NEW s \in SUBSET S, s \in SUBSET T
    PROVE  g[s] = h[s]
  <1> SUFFICES ASSUME g[s] # h[s] PROVE FALSE
    OBVIOUS
  <1> DEFINE Bad == {u \in SUBSET S : u \subseteq T /\ g[u] # h[u]}
  <1>1. PICK u \in Bad : \A t \in SUBSET u : t # u => t \notin Bad
    <2>1. Bad \in SUBSET SUBSET S /\ Bad # {}
      OBVIOUS
    <2> HIDE DEF Bad
    <2> QED
      BY <2>1, LeastSubset
  <1>2. /\ g[u] = IF u = {} THEN 0 ELSE f[Next1(u)] + g[u \ {Next1(u)}]
        /\ h[u] = IF u = {} THEN 0 ELSE f[Next1(u)] + h[u \ {Next1(u)}]
    BY <1>1 DEF Partial
  <1>3. u # {} => Next1(u) \in u
    BY DEF Next1
  <1>4. u # {} => u \ {Next1(u)} \in SUBSET u /\ u \ {Next1(u)} # u
    BY <1>3
  <1> QED
    BY <1>1, <1>2, <1>4

(* There is a table of sums.                                               *)
LEMMA PartialExists ==
    ASSUME NEW f, NEW S, IsFiniteSet(S)
    PROVE  \E g : Partial(f, S, g)
  <1> SUFFICES ASSUME ~ \E g : Partial(f, S, g) PROVE FALSE
    OBVIOUS
  <1> DEFINE Bad == {u \in SUBSET S : ~ \E g : Partial(f, u, g)}
  <1>1. PICK u \in Bad : \A t \in SUBSET u : t # u => t \notin Bad
    <2>1. Bad \in SUBSET SUBSET S /\ Bad # {}
      OBVIOUS
    <2> HIDE DEF Bad
    <2> QED
      BY <2>1, LeastSubset
  <1>2. IsFiniteSet(u) /\ \A t \in SUBSET u : IsFiniteSet(t)
    BY <1>1, FS_Subset
  <1> DEFINE G(t) == CHOOSE g : Partial(f, t, g)
             g == [s \in SUBSET u |-> IF s = {} THEN 0 ELSE f[Next1(s)] + G(s \ {Next1(s)})[s \ {Next1(s)}]]
  <1>3. \A t \in SUBSET u : t # u => Partial(f, t, G(t))
    BY <1>1
  <1>4. \A s \in SUBSET u : s # {} => Next1(s) \in s /\ s \ {Next1(s)} \in SUBSET u /\ s \ {Next1(s)} # u
    BY DEF Next1
  <1> HIDE DEF G
  <1>5. ASSUME NEW t \in SUBSET u, t # u PROVE g[t] = G(t)[t]
    <2>1. Partial(f, t, G(t)) /\ g[t] = IF t = {} THEN 0 ELSE f[Next1(t)] + G(t \ {Next1(t)})[t \ {Next1(t)}]
      BY <1>3, <1>5
    <2>2. G(t)[t] = IF t = {} THEN 0 ELSE f[Next1(t)] + G(t)[t \ {Next1(t)}]
      BY <2>1 DEF Partial
    <2>3. t # {} => G(t)[t \ {Next1(t)}] = G(t \ {Next1(t)})[t \ {Next1(t)}]
      <3>1. SUFFICES ASSUME t # {} PROVE G(t)[t \ {Next1(t)}] = G(t \ {Next1(t)})[t \ {Next1(t)}]
        OBVIOUS
      <3> DEFINE r == t \ {Next1(t)}
      <3>2. r \in SUBSET u /\ r # u /\ r \in SUBSET t /\ r \in SUBSET r
        BY <1>4, <3>1
      <3>3. Partial(f, r, G(r)) /\ IsFiniteSet(t)
        BY <1>2, <1>3, <3>2
      <3> HIDE DEF r
      <3>4. G(t)[r] = G(r)[r]
        BY <2>1, <3>2, <3>3, PartialUnique
      <3> QED
        BY <3>4 DEF r
    <2> QED
      BY <2>1, <2>2, <2>3
  <1>6. Partial(f, u, g)
    <2>1. \A s \in SUBSET u : g[s] = IF s = {} THEN 0 ELSE f[Next1(s)] + g[s \ {Next1(s)}]
      <3>1. TAKE s \in SUBSET u
      <3>2. CASE s = {}
        BY <3>2
      <3>3. CASE s # {}
        <4>1. g[s \ {Next1(s)}] = G(s \ {Next1(s)})[s \ {Next1(s)}]
          BY <1>4, <1>5, <3>3
        <4> QED
          BY <3>3, <4>1
      <3> QED
        BY <3>2, <3>3
    <2>2. g = [s \in SUBSET u |-> g[s]]
      OBVIOUS
    <2> HIDE DEF g
    <2> QED
      BY <2>1, <2>2 DEF Partial
  <1> QED
    BY <1>1, <1>6

-----------------------------------------------------------------------------
(* Sums.                                                                   *)

(* The sum takes one element, and then the rest.                           *)
LEMMA SumStep ==
    ASSUME NEW f, NEW S, IsFiniteSet(S)
    PROVE  /\ S = {} => SumFunctionOnSet(f, S) = 0
           /\ S # {} => /\ Next1(S) \in S
                        /\ SumFunctionOnSet(f, S) = f[Next1(S)] + SumFunctionOnSet(f, S \ {Next1(S)})
  <1> DEFINE g == CHOOSE g : Partial(f, S, g)
             r == S \ {Next1(S)}
             h == CHOOSE h : Partial(f, r, h)
  <1>1. IsFiniteSet(r) /\ r \in SUBSET S /\ r \in SUBSET r
    BY FS_Subset
  <1>2. Partial(f, S, g)
    BY PartialExists
  <1>3. Partial(f, r, h)
    <2> HIDE DEF r
    <2> QED
      BY <1>1, PartialExists
  <1>4. SumFunctionOnSet(f, S) = g[S] /\ SumFunctionOnSet(f, r) = h[r]
    BY SumIs
  <1> HIDE DEF g, h
  <1>5. g[r] = h[r]
    <2> HIDE DEF r
    <2> QED
      BY <1>1, <1>2, <1>3, PartialUnique
  <1>6. g[S] = IF S = {} THEN 0 ELSE f[Next1(S)] + g[r]
    BY <1>2 DEF Partial
  <1>7. S # {} => Next1(S) \in S
    BY DEF Next1
  <1> QED
    BY <1>4, <1>5, <1>6, <1>7

(* A sum of whole numbers is one, and one of natural numbers is natural.   *)
LEMMA SumInt ==
    ASSUME NEW f, NEW S, IsFiniteSet(S), \A x \in S : f[x] \in Int
    PROVE  /\ SumFunctionOnSet(f, S) \in Int
           /\ (\A x \in S : f[x] >= 0) => SumFunctionOnSet(f, S) >= 0
  <1> DEFINE Good(u) == SumFunctionOnSet(f, u) \in Int /\ ((\A x \in S : f[x] >= 0) => SumFunctionOnSet(f, u) >= 0)
             Bad == {u \in SUBSET S : ~ Good(u)}
  <1>1. CASE Bad = {}
    BY <1>1
  <1>2. CASE Bad # {}
    <2>1. Bad \in SUBSET SUBSET S
      OBVIOUS
    <2> HIDE DEF Bad
    <2>2. PICK u \in Bad : \A t \in SUBSET u : t # u => t \notin Bad
      BY <1>2, <2>1, LeastSubset
    <2> USE DEF Bad
    <2>3. IsFiniteSet(u)
      BY <2>2, FS_Subset
    <2> HIDE DEF Good
    <2>4. u # {} => Good(u \ {Next1(u)}) /\ Next1(u) \in S
      <3>1. u # {} => Next1(u) \in u
        BY DEF Next1
      <3> QED
        BY <2>2, <3>1
    <2>5. Good(u)
      <3>1. CASE u = {}
        <4>1. SumFunctionOnSet(f, u) = 0
          BY <2>3, <3>1, SumStep
        <4> QED
          BY <4>1 DEF Good
      <3>2. CASE u # {}
        <4> DEFINE y == Next1(u)
                   r == SumFunctionOnSet(f, u \ {y})
        <4>1. r \in Int /\ ((\A x \in S : f[x] >= 0) => r >= 0) /\ f[y] \in Int /\ y \in S
          BY <2>4, <3>2 DEF Good
        <4>2. SumFunctionOnSet(f, u) = f[y] + r
          BY <2>3, <3>2, SumStep
        <4> HIDE DEF y, r
        <4>3. f[y] + r \in Int /\ ((\A x \in S : f[x] >= 0) => f[y] + r >= 0)
          BY <4>1
        <4> QED
          BY <4>2, <4>3 DEF Good
      <3> QED
        BY <3>1, <3>2
    <2> QED
      BY <2>2, <2>5
  <1> QED
    BY <1>1, <1>2

(* The order of the elements does not matter: any one may be taken first.  *)
LEMMA SumRemove ==
    ASSUME NEW f, NEW S, IsFiniteSet(S), \A x \in S : f[x] \in Int, NEW a \in S
    PROVE  SumFunctionOnSet(f, S) = f[a] + SumFunctionOnSet(f, S \ {a})
  <1> DEFINE Good(u) == \A x \in u : SumFunctionOnSet(f, u) = f[x] + SumFunctionOnSet(f, u \ {x})
             Bad == {u \in SUBSET S : ~ Good(u)}
  <1>1. CASE Bad = {}
    BY <1>1
  <1>2. CASE Bad # {}
    <2>1. Bad \in SUBSET SUBSET S
      OBVIOUS
    <2> HIDE DEF Bad
    <2>2. PICK u \in Bad : \A t \in SUBSET u : t # u => t \notin Bad
      BY <1>2, <2>1, LeastSubset
    <2> USE DEF Bad
    <2>3. u \subseteq S /\ \A t \in SUBSET u : IsFiniteSet(t) /\ SumFunctionOnSet(f, t) \in Int
      <3>1. \A t \in SUBSET u : IsFiniteSet(t) /\ t \subseteq S
        BY <2>2, FS_Subset
      <3> QED
        BY <3>1, SumInt
    <2> DEFINE y == Next1(u)
    <2>4. SUFFICES ASSUME NEW x \in u
                   PROVE  SumFunctionOnSet(f, u) = f[x] + SumFunctionOnSet(f, u \ {x})
      BY <2>2
    <2>5. y \in u /\ SumFunctionOnSet(f, u) = f[y] + SumFunctionOnSet(f, u \ {y})
      BY <2>3, SumStep
    <2>6. CASE x = y
      BY <2>5, <2>6
    <2>7. CASE x # y
      <3> HIDE DEF y
      <3> DEFINE v == u \ {y}
                 w == u \ {x}
                 r == v \ {x}
      <3>1. v \in SUBSET u /\ w \in SUBSET u /\ r \in SUBSET u /\ v # u /\ w # u /\ x \in v /\ y \in w /\ r = w \ {y}
        BY <2>5, <2>7
      <3>2. Good(v) /\ Good(w)
        BY <2>2, <2>3, <3>1
      <3>3. SumFunctionOnSet(f, v) = f[x] + SumFunctionOnSet(f, r) /\ SumFunctionOnSet(f, w) = f[y] + SumFunctionOnSet(f, r)
        BY <3>1, <3>2
      <3>4. f[x] \in Int /\ f[y] \in Int /\ SumFunctionOnSet(f, r) \in Int
        BY <2>3, <2>5, <3>1
      <3> HIDE DEF v, w, r
      <3>5. SumFunctionOnSet(f, u) = f[y] + SumFunctionOnSet(f, v)
        BY <2>5 DEF v
      <3>6. SumFunctionOnSet(f, u) = f[x] + SumFunctionOnSet(f, w)
        BY <3>3, <3>4, <3>5
      <3> QED
        BY <3>6 DEF w
    <2> QED
      BY <2>6, <2>7
  <1> QED
    BY <1>1, <1>2

(* Only the values on the set count.                                       *)
LEMMA SumSame ==
    ASSUME NEW f, NEW g, NEW S, IsFiniteSet(S), \A x \in S : f[x] = g[x]
    PROVE  SumFunctionOnSet(f, S) = SumFunctionOnSet(g, S)
  <1> DEFINE Good(u) == SumFunctionOnSet(f, u) = SumFunctionOnSet(g, u)
             Bad == {u \in SUBSET S : ~ Good(u)}
  <1>1. CASE Bad = {}
    BY <1>1
  <1>2. CASE Bad # {}
    <2>1. Bad \in SUBSET SUBSET S
      OBVIOUS
    <2> HIDE DEF Bad
    <2>2. PICK u \in Bad : \A t \in SUBSET u : t # u => t \notin Bad
      BY <1>2, <2>1, LeastSubset
    <2> USE DEF Bad
    <2>3. IsFiniteSet(u)
      BY <2>2, FS_Subset
    <2>4. u # {} => Good(u \ {Next1(u)}) /\ Next1(u) \in S
      <3>1. u # {} => Next1(u) \in u
        BY DEF Next1
      <3> HIDE DEF Good
      <3> QED
        BY <2>2, <3>1
    <2>5. Good(u)
      <3>1. f[Next1(u)] = g[Next1(u)] \/ u = {}
        BY <2>4
      <3> QED
        BY <2>3, <2>4, <3>1, SumStep
    <2> QED
      BY <2>2, <2>5
  <1> QED
    BY <1>1, <1>2

(* A sum when one of its values changes.                                   *)
LEMMA SumChange ==
    ASSUME NEW f, NEW g, NEW S, IsFiniteSet(S), NEW a \in S,
           \A x \in S : f[x] \in Int /\ g[x] \in Int /\ (x # a => f[x] = g[x])
    PROVE  /\ SumFunctionOnSet(f, S) \in Int /\ SumFunctionOnSet(g, S) \in Int
           /\ SumFunctionOnSet(g, S) = SumFunctionOnSet(f, S) - f[a] + g[a]
  <1> DEFINE r == S \ {a}
  <1>1. IsFiniteSet(r) /\ \A x \in r : f[x] = g[x]
    BY FS_Subset
  <1>2. SumFunctionOnSet(f, r) = SumFunctionOnSet(g, r)
    <2> HIDE DEF r
    <2> QED
      BY <1>1, SumSame
  <1>3. SumFunctionOnSet(f, S) = f[a] + SumFunctionOnSet(f, r) /\ SumFunctionOnSet(g, S) = g[a] + SumFunctionOnSet(g, r)
    BY SumRemove
  <1>4. SumFunctionOnSet(f, r) \in Int
    <2>1. \A x \in r : f[x] \in Int
      OBVIOUS
    <2> HIDE DEF r
    <2> QED
      BY <1>1, <2>1, SumInt
  <1> HIDE DEF r
  <1>5. f[a] \in Int /\ g[a] \in Int
    OBVIOUS
  <1> QED
    BY <1>2, <1>3, <1>4, <1>5

(* Larger values have a larger sum.                                        *)
LEMMA SumLeq ==
    ASSUME NEW f, NEW g, NEW S, IsFiniteSet(S),
           \A x \in S : f[x] \in Int /\ g[x] \in Int /\ f[x] <= g[x]
    PROVE  SumFunctionOnSet(f, S) <= SumFunctionOnSet(g, S)
  <1> DEFINE Good(u) == SumFunctionOnSet(f, u) <= SumFunctionOnSet(g, u)
             Bad == {u \in SUBSET S : ~ Good(u)}
  <1>1. CASE Bad = {}
    BY <1>1
  <1>2. CASE Bad # {}
    <2>1. Bad \in SUBSET SUBSET S
      OBVIOUS
    <2> HIDE DEF Bad
    <2>2. PICK u \in Bad : \A t \in SUBSET u : t # u => t \notin Bad
      BY <1>2, <2>1, LeastSubset
    <2> USE DEF Bad
    <2>3. IsFiniteSet(u)
      BY <2>2, FS_Subset
    <2>4. Good(u)
      <3>1. CASE u = {}
        <4>1. SumFunctionOnSet(f, u) = 0 /\ SumFunctionOnSet(g, u) = 0
          BY <2>3, <3>1, SumStep
        <4> QED
          BY <4>1
      <3>2. CASE u # {}
        <4> DEFINE y == Next1(u)
                   r == u \ {y}
                   a == SumFunctionOnSet(f, r)
                   b == SumFunctionOnSet(g, r)
        <4>1. y \in u /\ SumFunctionOnSet(f, u) = f[y] + a /\ SumFunctionOnSet(g, u) = g[y] + b
          BY <2>3, <3>2, SumStep
        <4>2. r \in SUBSET S /\ r \in SUBSET u /\ r # u /\ y \in S
          BY <2>2, <4>1
        <4> HIDE DEF y, r
        <4>3. a <= b
          BY <2>2, <4>2
        <4>4. IsFiniteSet(r) /\ \A x \in r : f[x] \in Int /\ g[x] \in Int
          BY <4>2, FS_Subset
        <4>5. a \in Int /\ b \in Int
          BY <4>4, SumInt
        <4>6. f[y] \in Int /\ g[y] \in Int /\ f[y] <= g[y]
          BY <4>2
        <4> HIDE DEF a, b
        <4>7. f[y] + a <= g[y] + b
          BY <4>3, <4>5, <4>6
        <4> QED
          BY <4>1, <4>7
      <3> QED
        BY <3>1, <3>2
    <2> QED
      BY <2>2, <2>4
  <1> QED
    BY <1>1, <1>2

(* A sum of nothing is nothing.                                            *)
LEMMA SumZero ==
    ASSUME NEW f, NEW S, IsFiniteSet(S), \A x \in S : f[x] = 0
    PROVE  SumFunctionOnSet(f, S) = 0
  <1> DEFINE Bad == {u \in SUBSET S : SumFunctionOnSet(f, u) # 0}
  <1>1. CASE Bad = {}
    BY <1>1
  <1>2. CASE Bad # {}
    <2>1. Bad \in SUBSET SUBSET S
      OBVIOUS
    <2> HIDE DEF Bad
    <2>2. PICK u \in Bad : \A t \in SUBSET u : t # u => t \notin Bad
      BY <1>2, <2>1, LeastSubset
    <2> USE DEF Bad
    <2>3. IsFiniteSet(u)
      BY <2>2, FS_Subset
    <2>4. u # {} => SumFunctionOnSet(f, u \ {Next1(u)}) = 0 /\ f[Next1(u)] = 0
      <3>1. u # {} => Next1(u) \in u
        BY DEF Next1
      <3> QED
        BY <2>2, <3>1
    <2>5. SumFunctionOnSet(f, u) = 0
      BY <2>3, <2>4, SumStep
    <2> QED
      BY <2>2, <2>5
  <1> QED
    BY <1>1, <1>2

(* A sum over other names for the same elements.                           *)
LEMMA SumRenamed ==
    ASSUME NEW f, NEW g, NEW S, NEW T, NEW h \in [S -> T], IsFiniteSet(S), IsFiniteSet(T),
           \A x, y \in S : h[x] = h[y] => x = y,
           \A t \in T : \E x \in S : h[x] = t,
           \A x \in S : g[x] = f[h[x]],
           \A t \in T : f[t] \in Int
    PROVE  SumFunctionOnSet(g, S) = SumFunctionOnSet(f, T)
  <1> DEFINE Image(u) == {h[x] : x \in u}
             Good(u) == SumFunctionOnSet(g, u) = SumFunctionOnSet(f, Image(u))
             Bad == {u \in SUBSET S : ~ Good(u)}
  <1>1. CASE Bad = {}
    <2>1. Good(S)
      BY <1>1
    <2>2. Image(S) = T
      OBVIOUS
    <2> QED
      BY <2>1, <2>2
  <1>2. CASE Bad # {}
    <2>1. Bad \in SUBSET SUBSET S
      OBVIOUS
    <2> HIDE DEF Bad
    <2>2. PICK u \in Bad : \A t \in SUBSET u : t # u => t \notin Bad
      BY <1>2, <2>1, LeastSubset
    <2> USE DEF Bad
    <2>3. IsFiniteSet(u) /\ u \subseteq S
      BY <2>2, FS_Subset
    <2>4. CASE u = {}
      <3>1. Image(u) = {}
        BY <2>4
      <3>2. SumFunctionOnSet(g, u) = 0 /\ SumFunctionOnSet(f, Image(u)) = 0
        <4> HIDE DEF Image
        <4> QED
          BY <2>3, <2>4, <3>1, FS_EmptySet, SumStep
      <3> QED
        BY <2>2, <3>2
    <2>5. CASE u # {}
      <3> DEFINE y == Next1(u)
                 r == u \ {y}
                 v == Image(u)
      <3>1. y \in u /\ SumFunctionOnSet(g, u) = g[y] + SumFunctionOnSet(g, r)
        BY <2>3, <2>5, SumStep
      <3>2. r \in SUBSET u /\ r # u /\ r \in SUBSET S
        BY <2>3, <3>1
      <3> HIDE DEF y
      <3>3. Image(r) = v \ {h[y]} /\ h[y] \in v /\ v \subseteq T
        BY <2>3, <3>1
      <3>4. SumFunctionOnSet(g, r) = SumFunctionOnSet(f, Image(r))
        BY <2>2, <3>2
      <3> HIDE DEF v, Image, r
      <3>5. IsFiniteSet(v) /\ \A t \in v : f[t] \in Int
        BY <3>3, FS_Subset
      <3>6. SumFunctionOnSet(f, v) = f[h[y]] + SumFunctionOnSet(f, v \ {h[y]})
        BY <3>3, <3>5, SumRemove
      <3>7. SumFunctionOnSet(g, u) = SumFunctionOnSet(f, v)
        BY <2>3, <3>1, <3>3, <3>4, <3>6
      <3> QED
        BY <2>2, <3>7 DEF v
    <2> QED
      BY <2>4, <2>5
  <1> QED
    BY <1>1, <1>2

(* A sum over a larger set is larger.                                      *)
LEMMA SumSubset ==
    ASSUME NEW f, NEW S, IsFiniteSet(S), \A x \in S : f[x] \in Nat, NEW T \in SUBSET S
    PROVE  SumFunctionOnSet(f, T) <= SumFunctionOnSet(f, S)
  <1> DEFINE Bad == {u \in SUBSET (S \ T) : ~ (SumFunctionOnSet(f, T) <= SumFunctionOnSet(f, T \cup u))}
  <1>1. IsFiniteSet(S \ T) /\ \A u \in SUBSET (S \ T) : IsFiniteSet(T \cup u)
    <2>1. \A u \in SUBSET (S \ T) : T \cup u \in SUBSET S
      OBVIOUS
    <2> QED
      BY <2>1, FS_Subset
  <1>0. \A u \in SUBSET S : SumFunctionOnSet(f, u) \in Int
    BY FS_Subset, SumInt
  <1>2. CASE Bad = {}
    <2>1. SumFunctionOnSet(f, T) <= SumFunctionOnSet(f, T \cup (S \ T))
      BY <1>2
    <2>2. T \cup (S \ T) = S
      OBVIOUS
    <2> QED
      BY <2>1, <2>2
  <1>3. CASE Bad # {}
    <2>1. Bad \in SUBSET SUBSET (S \ T)
      OBVIOUS
    <2> HIDE DEF Bad
    <2>2. PICK u \in Bad : \A t \in SUBSET u : t # u => t \notin Bad
      BY <1>1, <1>3, <2>1, LeastSubset
    <2> USE DEF Bad
    <2>3. u # {}
      <3>1. u = {} => T \cup u = T
        OBVIOUS
      <3>2. SumFunctionOnSet(f, T) <= SumFunctionOnSet(f, T)
        BY <1>0
      <3>3. ~ (SumFunctionOnSet(f, T) <= SumFunctionOnSet(f, T \cup u))
        BY <2>2
      <3> QED
        BY <3>1, <3>2, <3>3, Zenon
    <2>4. PICK x \in u : TRUE
      BY <2>3
    <2> DEFINE r == u \ {x}
               v == T \cup u
    <2>5. r \in SUBSET u /\ r # u /\ u \in SUBSET (S \ T) /\ T \cup r = v \ {x} /\ x \in v /\ x \in S
      BY <2>2
    <2>6. SumFunctionOnSet(f, T) <= SumFunctionOnSet(f, T \cup r)
      BY <2>2, <2>5
    <2>7. SumFunctionOnSet(f, v) = f[x] + SumFunctionOnSet(f, v \ {x})
      <3>1. IsFiniteSet(v) /\ (\A y \in v : f[y] \in Int) /\ x \in v
        BY <1>1, <2>5
      <3> HIDE DEF v
      <3> QED
        BY <3>1, SumRemove
    <2>8. SumFunctionOnSet(f, T) \in Int /\ SumFunctionOnSet(f, T \cup r) \in Int /\ f[x] \in Nat
      BY <1>0, <2>5
    <2>9. SumFunctionOnSet(f, T) <= SumFunctionOnSet(f, v)
      <3> HIDE DEF r, v
      <3> QED
        BY <2>5, <2>6, <2>7, <2>8
    <2> QED
      BY <2>2, <2>9
  <1> QED
    BY <1>2, <1>3

-----------------------------------------------------------------------------
(* Functions that are defined by recursion: the least number that refutes  *)
(* a claim, and what each step computes.                                   *)

(* Of some numbers one is the least.                                       *)
LEMMA LeastNat ==
    ASSUME NEW B \in SUBSET Nat, B # {}
    PROVE  \E k \in B : \A j \in B : k <= j
  <1>1. PICK b \in B : TRUE
    OBVIOUS
  <1> DEFINE S == 0..b
             Bad == {0..(k - 1) : k \in B \cap S}
  <1>2. IsFiniteSet(S)
    BY 0 \in Int, b \in Int, FS_Interval
  <1>3. Bad \in SUBSET SUBSET S /\ Bad # {}
    <2>1. 0..(b - 1) \in Bad
      BY <1>1
    <2> QED
      BY <2>1
  <1>4. PICK s \in Bad : \A t \in SUBSET s : t # s => t \notin Bad
    <2> HIDE DEF S, Bad
    <2> QED
      BY <1>2, <1>3, LeastSubset
  <1>5. PICK k \in B \cap S : s = 0..(k - 1)
    BY <1>4
  <1>6. ASSUME NEW j \in B, j < k
        PROVE  FALSE
    <2>1. 0..(j - 1) \in SUBSET s /\ j \in s /\ j \notin 0..(j - 1)
      BY <1>5, <1>6
    <2>2. 0..(j - 1) \in Bad
      BY <1>5, <1>6
    <2> QED
      BY <1>4, <2>1, <2>2
  <1> QED
    BY <1>5, <1>6

(* What a step computes from the value before it, is a function.           *)
Stepwise(S, base, step) == base \in S /\ step \in [Nat -> [S -> S]]

Computes(S, base, step, k, g) ==
    /\ g \in [0..k -> S] /\ g[0] = base
    /\ \A i \in 0..(k - 1) : g[i + 1] = step[i][g[i]]

LEMMA ComputesOnce ==
    ASSUME NEW S, NEW base, NEW step, NEW k \in Nat, NEW m \in Nat, NEW g, NEW h,
           Computes(S, base, step, k, g), Computes(S, base, step, m, h),
           NEW i \in Nat, i <= k, i <= m
    PROVE  g[i] = h[i]
  <1> SUFFICES ASSUME g[i] # h[i] PROVE FALSE
    OBVIOUS
  <1> DEFINE B == {j \in Nat : j <= k /\ j <= m /\ g[j] # h[j]}
  <1>1. PICK j \in B : \A l \in B : j <= l
    <2>1. B \in SUBSET Nat /\ B # {}
      OBVIOUS
    <2> HIDE DEF B
    <2> QED
      BY <2>1, LeastNat
  <1>2. j # 0
    BY <1>1 DEF Computes
  <1>3. j - 1 \in Nat /\ j - 1 \notin B
    BY <1>1, <1>2
  <1>4. g[j - 1] = h[j - 1] /\ j - 1 \in 0..(k - 1) /\ j - 1 \in 0..(m - 1) /\ j - 1 + 1 = j
    BY <1>1, <1>3
  <1>5. g[j] = step[j - 1][g[j - 1]] /\ h[j] = step[j - 1][h[j - 1]]
    BY <1>4 DEF Computes
  <1> QED
    BY <1>1, <1>4, <1>5

LEMMA ComputesSome ==
    ASSUME NEW S, NEW base \in S, NEW step \in [Nat -> [S -> S]], NEW k \in Nat
    PROVE  \E g : Computes(S, base, step, k, g)
  <1> DEFINE B == {j \in Nat : ~ \E g : Computes(S, base, step, j, g)}
  <1> SUFFICES ASSUME B # {} PROVE FALSE
    OBVIOUS
  <1>1. PICK j \in B : \A l \in B : j <= l
    <2>1. B \in SUBSET Nat
      OBVIOUS
    <2> HIDE DEF B
    <2> QED
      BY <2>1, LeastNat
  <1>2. CASE j = 0
    <2>1. Computes(S, base, step, 0, [i \in 0..0 |-> base])
      BY DEF Computes
    <2> QED
      BY <1>1, <1>2, <2>1
  <1>3. CASE j # 0
    <2>1. j - 1 \in Nat /\ j - 1 \notin B
      <3>1. j \in Nat
        BY <1>1
      <3>2. j - 1 \in Nat /\ ~ (j <= j - 1)
        BY <1>3, <3>1
      <3> HIDE DEF B
      <3> QED
        BY <1>1, <3>2
    <2>2. PICK g : Computes(S, base, step, j - 1, g)
      BY <2>1
    <2> DEFINE h == [i \in 0..j |-> IF i = j THEN step[j - 1][g[j - 1]] ELSE g[i]]
    <2>3. g \in [0..(j - 1) -> S] /\ g[0] = base /\ \A i \in 0..(j - 1 - 1) : g[i + 1] = step[i][g[i]]
      BY <2>2 DEF Computes
    <2>4. step[j - 1][g[j - 1]] \in S
      BY <2>1, <2>3
    <2>5. h \in [0..j -> S] /\ h[0] = base
      <3> HIDE DEF h
      <3>1. \A i \in 0..j : (IF i = j THEN step[j - 1][g[j - 1]] ELSE g[i]) \in S
        BY <2>1, <2>3, <2>4
      <3> QED
        BY <1>3, <2>1, <2>3, <3>1 DEF h
    <2>6. ASSUME NEW i \in 0..(j - 1)
          PROVE  h[i + 1] = step[i][h[i]]
      <3>1. CASE i = j - 1
        BY <2>1, <3>1
      <3>2. CASE i # j - 1
        BY <2>1, <2>3, <3>2
      <3> QED
        BY <3>1, <3>2
    <2>7. Computes(S, base, step, j, h)
      <3> HIDE DEF h
      <3> QED
        BY <2>5, <2>6 DEF Computes
    <2> QED
      BY <1>1, <2>7
  <1> QED
    BY <1>2, <1>3

(* ... on all numbers.                                                     *)
Runs(S, base, step, f) ==
    f \in [Nat -> S] /\ f[0] = base /\ \A k \in Nat : f[k + 1] = step[k][f[k]]

LEMMA Recursion ==
    ASSUME NEW S, NEW base, NEW step, Stepwise(S, base, step)
    PROVE  \E f : Runs(S, base, step, f)
  <1> DEFINE G(k) == CHOOSE g : Computes(S, base, step, k, g)
             f == [k \in Nat |-> G(k)[k]]
  <1>1. \A k \in Nat : Computes(S, base, step, k, G(k))
    BY ComputesSome DEF Stepwise
  <1> HIDE DEF G
  <1>2. f \in [Nat -> S]
    BY <1>1 DEF Computes
  <1>3. f[0] = base
    BY <1>1 DEF Computes
  <1>4. ASSUME NEW k \in Nat
        PROVE  f[k + 1] = step[k][f[k]]
    <2>1. Computes(S, base, step, k + 1, G(k + 1)) /\ Computes(S, base, step, k, G(k))
      BY <1>1
    <2>2. G(k + 1)[k + 1] = step[k][G(k + 1)[k]]
      BY <2>1 DEF Computes
    <2>3. G(k + 1)[k] = G(k)[k]
      BY <2>1, ComputesOnce
    <2> QED
      BY <2>2, <2>3
  <1> QED
    BY <1>2, <1>3, <1>4 DEF Runs

(* Induction over numbers, by the set of those that are shown.             *)
LEMMA Induct ==
    ASSUME NEW G, 0 \in G, \A k \in Nat : k \in G => k + 1 \in G
    PROVE  \A k \in Nat : k \in G
  <1> DEFINE B == {k \in Nat : k \notin G}
  <1> SUFFICES ASSUME NEW x \in Nat, x \notin G PROVE FALSE
    OBVIOUS
  <1>1. PICK k \in B : \A l \in B : k <= l
    <2>1. B \in SUBSET Nat /\ x \in B
      OBVIOUS
    <2> HIDE DEF B
    <2> QED
      BY <2>1, LeastNat
  <1>2. k \in Nat /\ k \notin G /\ k # 0
    BY <1>1
  <1>3. k - 1 \in Nat /\ k - 1 + 1 = k /\ ~ (k <= k - 1)
    BY <1>2
  <1>4. k - 1 \notin B
    <2> HIDE DEF B
    <2> QED
      BY <1>1, <1>3
  <1>5. k - 1 \in G
    BY <1>3, <1>4
  <1> QED
    BY <1>2, <1>3, <1>5

LEMMA Along ==
    ASSUME NEW n, n \in Nat, NEW G, 0 \in G, \A k \in 1..n : k - 1 \in G => k \in G
    PROVE  \A k \in 0..n : k \in G
  <1> DEFINE H == {k \in Nat : k <= n => k \in G}
  <1>1. 0 \in H
    OBVIOUS
  <1>2. ASSUME NEW k \in Nat, k \in H PROVE k + 1 \in H
    <2>1. CASE k + 1 <= n
      <3>1. k + 1 \in 1..n /\ k + 1 - 1 = k /\ k <= n
        BY <2>1
      <3> QED
        BY <1>2, <3>1
    <2> QED
      BY <2>1
  <1>3. \A k \in Nat : k \in H
    <2> HIDE DEF H
    <2> QED
      BY <1>1, <1>2, Induct
  <1> QED
    BY <1>3

-----------------------------------------------------------------------------
(* Sorting.                                                                *)

Scored(S, score) == \A x \in S : score[x] \in Int

(* Some element has the lowest score.                                      *)
LEMMA LowestIs ==
    ASSUME NEW S, IsFiniteSet(S), S # {}, NEW score, Scored(S, score)
    PROVE  \E x \in S : \A y \in S : score[x] <= score[y]
  <1> DEFINE Bad == {T \in SUBSET S : T # {} /\ ~ \E x \in T : \A y \in T : score[x] <= score[y]}
  <1> SUFFICES ASSUME Bad # {} PROVE FALSE
    OBVIOUS
  <1>1. PICK T \in Bad : \A U \in SUBSET T : U # T => U \notin Bad
    <2>1. Bad \in SUBSET SUBSET S
      OBVIOUS
    <2> HIDE DEF Bad
    <2> QED
      BY <2>1, LeastSubset
  <1>2. T \in SUBSET S /\ T # {} /\ ~ \E x \in T : \A y \in T : score[x] <= score[y]
    BY <1>1
  <1>3. PICK z \in T : TRUE
    BY <1>2
  <1> DEFINE U == T \ {z}
  <1>4. U \in SUBSET T /\ U # T /\ U \in SUBSET S
    BY <1>2, <1>3
  <1>5. U \notin Bad
    <2> HIDE DEF Bad, U
    <2> QED
      BY <1>1, <1>4
  <1>6. \A x \in T : score[x] \in Int
    BY <1>2 DEF Scored
  <1>7. CASE U = {}
    <2>1. \A y \in T : y = z
      BY <1>7
    <2> QED
      BY <1>2, <1>3, <1>6, <2>1
  <1>8. CASE U # {}
    <2>1. PICK x \in U : \A y \in U : score[x] <= score[y]
      BY <1>4, <1>5, <1>8
    <2>2. x \in T /\ \A y \in T : y = z \/ score[x] <= score[y]
      BY <2>1
    <2>3. CASE score[x] <= score[z]
      BY <1>2, <2>2, <2>3
    <2>4. CASE ~ (score[x] <= score[z])
      <3>1. \A y \in T : score[z] <= score[y]
        BY <1>3, <1>6, <2>2, <2>4
      <3> QED
        BY <1>2, <1>3, <3>1
    <2> QED
      BY <2>3, <2>4
  <1> QED
    BY <1>7, <1>8

(* So there is an order from the highest score to the lowest.              *)
Falling(score, s) == \A i, j \in DOMAIN s : i < j => score[s[i]] >= score[s[j]]

SomeBest(S, score) == \E s \in [1..Cardinality(S) -> S] : IsInjective(s) /\ Falling(score, s)

LEMMA BestExists ==
    ASSUME NEW S, IsFiniteSet(S), NEW score, Scored(S, score)
    PROVE  SomeBest(S, score)
  <1> DEFINE Bad == {T \in SUBSET S : ~ SomeBest(T, score)}
  <1> SUFFICES ASSUME Bad # {} PROVE FALSE
    OBVIOUS
  <1>1. PICK T \in Bad : \A U \in SUBSET T : U # T => U \notin Bad
    <2>1. Bad \in SUBSET SUBSET S
      OBVIOUS
    <2> HIDE DEF Bad
    <2> QED
      BY <2>1, LeastSubset
  <1>2. T \in SUBSET S /\ ~ SomeBest(T, score)
    BY <1>1
  <1>3. IsFiniteSet(T) /\ Scored(T, score)
    BY <1>2, FS_Subset DEF Scored
  <1>4. CASE T = {}
    <2>1. Cardinality(T) = 0
      BY <1>4, FS_EmptySet
    <2> DEFINE e == [i \in 1..0 |-> i]
    <2>2. e \in [1..0 -> T] /\ DOMAIN e = {}
      OBVIOUS
    <2> HIDE DEF e
    <2>3. IsInjective(e) /\ Falling(score, e)
      BY <2>2 DEF IsInjective, Falling
    <2>4. SomeBest(T, score)
      BY <2>1, <2>2, <2>3 DEF SomeBest
    <2> QED
      BY <1>2, <2>4
  <1>5. CASE T # {}
    <2>1. PICK x \in T : \A y \in T : score[x] <= score[y]
      BY <1>3, <1>5, LowestIs
    <2> DEFINE U == T \ {x}
               n == Cardinality(T)
    <2>2. U \in SUBSET T /\ U # T /\ U \in SUBSET S
      BY <1>2, <2>1
    <2>3. U \notin Bad
      <3> HIDE DEF Bad, U
      <3> QED
        BY <1>1, <2>2
    <2>4. SomeBest(U, score)
      BY <2>2, <2>3
    <2>5. n \in Nat /\ Cardinality(U) = n - 1 /\ n # 0
      BY <1>3, <1>5, <2>1, FS_RemoveElement, FS_CardinalityType, FS_EmptySet
    <2>6. PICK r \in [1..(n - 1) -> U] : IsInjective(r) /\ Falling(score, r)
      BY <2>4, <2>5 DEF SomeBest
    <2> DEFINE s == [i \in 1..n |-> IF i = n THEN x ELSE r[i]]
    <2>v. \A i \in 1..n : i = n \/ (i \in 1..(n - 1) /\ r[i] \in T /\ r[i] # x)
      <3>1. \A i \in 1..(n - 1) : r[i] \in U
        BY <2>6
      <3>2. \A i \in 1..(n - 1) : r[i] \in T /\ r[i] # x
        BY <3>1
      <3> HIDE DEF n, U
      <3>3. \A i \in 1..n : i = n \/ i \in 1..(n - 1)
        BY <2>5
      <3>4. ASSUME NEW i \in 1..n PROVE i = n \/ (i \in 1..(n - 1) /\ r[i] \in T /\ r[i] # x)
        <4>1. CASE i = n
          BY <4>1
        <4>2. CASE i \in 1..(n - 1)
          BY <3>2, <4>2
        <4> QED
          BY <3>3, <4>1, <4>2
      <3> QED
        BY <3>4
    <2> HIDE DEF U, n
    <2>7. s \in [1..n -> T] /\ DOMAIN s = 1..n /\ DOMAIN r = 1..(n - 1)
      BY <2>1, <2>6, <2>v
    <2>8. (\A i \in 1..(n - 1) : s[i] = r[i] /\ i # n) /\ s[n] = x
      <3>1. \A i \in 1..(n - 1) : i \in 1..n /\ i # n
        BY <2>5
      <3>2. n \in 1..n
        BY <2>5
      <3> QED
        BY <3>1, <3>2
    <2> HIDE DEF s
    <2>9. IsInjective(s)
      <3>1. ASSUME NEW i \in 1..n, NEW j \in 1..n, s[i] = s[j] PROVE i = j
        BY <2>6, <2>7, <2>8, <2>v, <3>1 DEF IsInjective
      <3> QED
        BY <2>7, <3>1 DEF IsInjective
    <2>10. Falling(score, s)
      <3>1. ASSUME NEW i \in 1..n, NEW j \in 1..n, i < j PROVE score[s[i]] >= score[s[j]]
        <4>1. i \in 1..(n - 1) /\ i # n
          BY <2>5, <3>1
        <4>2. CASE j = n
          <5>1. score[x] <= score[r[i]] /\ score[x] \in Int /\ score[r[i]] \in Int
            BY <1>3, <2>1, <2>v, <4>1 DEF Scored
          <5> QED
            BY <2>8, <4>1, <4>2, <5>1
        <4>3. CASE j \in 1..(n - 1)
          BY <2>6, <2>7, <2>8, <3>1, <4>1, <4>3 DEF Falling
        <4> QED
          BY <2>5, <4>2, <4>3
      <3> QED
        BY <2>7, <3>1 DEF Falling
    <2>11. SomeBest(T, score)
      BY <2>7, <2>9, <2>10 DEF SomeBest, n
    <2> QED
      BY <1>2, <2>11
  <1> QED
    BY <1>4, <1>5
-----------------------------------------------------------------------------
(* Numbers and sequences.                                                  *)

(* A finite set of whole numbers has a greatest one.                       *)
LEMMA Greatest ==
    ASSUME NEW S, IsFiniteSet(S), S \subseteq Nat, S # {}
    PROVE  \E t \in S : \A u \in S : u <= t
  <1> SUFFICES ASSUME ~ \E t \in S : \A u \in S : u <= t PROVE FALSE
    OBVIOUS
  <1> DEFINE Bad == {T \in SUBSET S : T # {} /\ ~ \E t \in T : \A u \in T : u <= t}
  <1>1. PICK T \in Bad : \A R \in SUBSET T : R # T => R \notin Bad
    <2>1. Bad \in SUBSET SUBSET S /\ Bad # {}
      OBVIOUS
    <2> HIDE DEF Bad
    <2> QED
      BY <2>1, LeastSubset
  <1>2. PICK x \in T : TRUE
    BY <1>1
  <1>3. \A u \in T : u \in Nat
    BY <1>1
  <1>4. T \ {x} \in SUBSET T /\ T \ {x} # T /\ T \ {x} \in SUBSET S
    BY <1>1, <1>2
  <1>5. T \ {x} = {} \/ \E t \in T \ {x} : \A u \in T \ {x} : u <= t
    BY <1>1, <1>4
  <1>6. CASE T \ {x} = {}
    BY <1>1, <1>2, <1>3, <1>6
  <1>7. CASE \E t \in T \ {x} : \A u \in T \ {x} : u <= t
    <2>1. PICK t \in T \ {x} : \A u \in T \ {x} : u <= t
      BY <1>7
    <2>2. (\A u \in T : u <= t) \/ (\A u \in T : u <= x)
      BY <1>2, <1>3, <2>1
    <2> QED
      BY <1>1, <1>2, <2>1, <2>2
  <1> QED
    BY <1>5, <1>6, <1>7

(* Products of numbers no less than another.                               *)
LEMMA Product ==
    ASSUME NEW t, t \in Nat, NEW x, x \in Nat, NEW y, y \in Nat, t <= x, t <= y
    PROVE  /\ t * t <= x * y /\ t * t \in Nat /\ x * y \in Nat
           /\ t > 0 /\ t * t = x * y => t = x /\ t = y
  <1>1. PICK u \in Nat, v \in Nat : x = t + u /\ y = t + v
    <2>1. x - t \in Nat /\ y - t \in Nat /\ x = t + (x - t) /\ y = t + (y - t)
      OBVIOUS
    <2> QED
      BY <2>1
  <1>2. t * v \in Nat /\ u * t \in Nat /\ u * v \in Nat /\ t * t \in Nat
    OBVIOUS
  <1>3. x * y = t * t + t * v + u * t + u * v
    BY <1>1
  <1>4. t * t <= x * y
    BY <1>2, <1>3
  <1>5. ASSUME t > 0, t * t = x * y PROVE u = 0 /\ v = 0
    <2>1. t * v = 0 /\ u * t = 0
      BY <1>2, <1>3, <1>5
    <2> QED
      BY <1>5, <2>1
  <1> QED
    BY <1>1, <1>2, <1>3, <1>4, <1>5

(* Digits told by their remainders.                                        *)
LEMMA Times ==
    ASSUME NEW m \in {2, 4, 8, 16, 32, 64, 128, 256, 512}, NEW s \in 0..9, NEW t \in 0..9,
           (s * m) % 9 = (t * m) % 9
    PROVE  s = t \/ (s = 0 /\ t = 9) \/ (s = 9 /\ t = 0)
  OBVIOUS

LEMMA TimesSeven ==
    ASSUME NEW w \in Int, NEW a \in 0..9, NEW b \in 0..9, (w + 7 * (b - a)) % 10 = w % 10
    PROVE  a = b
  OBVIOUS

(* Two runs of digits behind each other.                                   *)
LEMMA Joined ==
    ASSUME NEW k \in Nat, NEW s \in [1..9 -> 0..9], NEW t \in [1..k -> 0..9]
    PROVE  s \o t \in [1..(9 + k) -> 0..9] /\ Len(s \o t) = 9 + k
  <1> DEFINE D == 0..9
  <1>1. s \in Seq(D) /\ t \in Seq(D) /\ DOMAIN s = 1..9 /\ DOMAIN t = 1..k
    <2> HIDE DEF D
    <2>1. s \in [1..9 -> D] /\ t \in [1..k -> D] /\ 9 \in Nat /\ k \in Nat
      BY DEF D
    <2> QED
      BY <2>1, SeqDef
  <1>2. Len(s) = 9 /\ Len(t) = k
    BY <1>1
  <1>3. s \o t \in Seq(D) /\ Len(s \o t) = 9 + k
    <2> HIDE DEF D
    <2>1. s \o t \in Seq(D) /\ Len(s \o t) = Len(s) + Len(t)
      BY ONLY <1>1, ConcatProperties
    <2> QED
      BY <1>2, <2>1
  <1>4. s \o t \in [1..Len(s \o t) -> D]
    <2> HIDE DEF D
    <2> QED
      BY <1>3, LenProperties
  <1> QED
    BY <1>3, <1>4

(* Sequences made row by row.                                              *)
LEMMA RowByRow ==
    ASSUME NEW S, NEW s \in Seq(S), NEW f, f = [d \in DOMAIN s |-> f[d]], \A d \in DOMAIN s : f[d] \in S
    PROVE  f \in Seq(S) /\ DOMAIN f = DOMAIN s
  <1>1. DOMAIN s = 1..Len(s) /\ Len(s) \in Nat
    OBVIOUS
  <1>2. f \in [1..Len(s) -> S]
    BY <1>1
  <1> QED
    BY <1>1, <1>2, SeqDef
=============================================================================
