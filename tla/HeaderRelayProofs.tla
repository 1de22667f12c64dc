--------------------------- MODULE HeaderRelayProofs ---------------------------
(***************************************************************************)
(* Proofs about HeaderRelay, whatever bridges, connections, chains and     *)
(* plans: every map and every disk hold one header per height, what enters *)
(* a map names the header below it, and on one chain no map has a hole.    *)
(***************************************************************************)
EXTENDS HeaderRelay, Functions, FiniteSetTheorems, TLAPS

------------------------------------------------------------------------------
(* Headers and their heights.                                             *)

\* A set of naturals that is not empty has a least element.
LEMMA Least ==
  ASSUME NEW T \in SUBSET Nat, T # {}
  PROVE  \E n \in T : \A m \in T : n <= m
<1> DEFINE R == OpToRel(<,Nat)
<1>1. IsWellFoundedOn(R, Nat)
  BY NatLessThanWellFounded
<1>2. \A m, n \in Nat : m < n => <<m, n>> \in R
  BY DEF OpToRel
<1> HIDE DEF R
<1>3. PICK n \in T : \A m \in T : ~(<<m, n>> \in R)
  BY <1>1, WFMin
<1>4. ASSUME NEW m \in T PROVE n <= m
  <2>1. ~(m < n)
    BY <1>2, <1>3, <1>4
  <2> QED
    BY <2>1
<1> QED
  BY <1>4

\* A set of naturals that holds 0 and with each number the next holds all.
LEMMA Induction ==
  ASSUME NEW T \in SUBSET Nat, 0 \in T, \A n \in T : n + 1 \in T
  PROVE  T = Nat
<1> DEFINE N == Nat \ T
<1> SUFFICES ASSUME N # {} PROVE FALSE
  OBVIOUS
<1>1. PICK n \in N : \A m \in N : n <= m
  BY Least
<1>2. n \in Nat /\ n # 0 /\ n - 1 \in Nat /\ n - 1 \notin N
  BY <1>1
<1>3. (n - 1) + 1 \in T
  BY <1>2
<1> QED
  BY <1>2, <1>3

\* What is assumed of headers.
LEMMA Heights ==
  /\ Height \in [Header -> Nat \ {0}] /\ prevHash \in [Header -> Header \cup {Checkpoint}]
  /\ NoHeader \notin Header /\ Checkpoint \notin Header
  /\ \A x \in Header : prevHash[x] = Checkpoint => Height[x] = 1
  /\ \A x \in Header : prevHash[x] # Checkpoint =>
       prevHash[x] \in Header /\ Height[x] = Height[prevHash[x]] + 1
BY HeaderAssumption

\* The headers are bounded.
LEMMA Bounded == \E m \in Nat : \A x \in Header : Height[x] <= m
<1>1. IsFiniteSet(Header)
  BY HeaderAssumption
<1> DEFINE n == Cardinality(Header)
<1>2. n \in Nat /\ ExistsBijection(1 .. n, Header)
  BY <1>1, FS_CardinalityType
<1> HIDE DEF n
<1>3. PICK f \in Bijection(1 .. n, Header) : TRUE
  BY <1>2 DEF ExistsBijection
<1>4. f \in [1 .. n -> Header] /\ \A x \in Header : \E i \in 1 .. n : f[i] = x
  BY <1>3 DEF Bijection, Surjection
<1> DEFINE T == {k \in Nat : k <= n => \E m \in Nat : \A i \in 1 .. k : Height[f[i]] <= m}
<1>5. 0 \in T
  OBVIOUS
<1>6. ASSUME NEW k \in T PROVE k + 1 \in T
  <2> SUFFICES ASSUME k + 1 <= n
               PROVE  \E m \in Nat : \A i \in 1 .. k + 1 : Height[f[i]] <= m
    OBVIOUS
  <2>1. k \in Nat /\ n \in Nat
    BY <1>2
  <2>2. PICK m \in Nat : \A i \in 1 .. k : Height[f[i]] <= m
    BY <1>6, <2>1
  <2> DEFINE h == Height[f[k + 1]]
  <2>3. h \in Nat
    BY <1>4, <2>1, Heights
  <2>4. \A i \in 1 .. k + 1 : Height[f[i]] \in Nat
    BY <1>4, <2>1, Heights
  <2> DEFINE top == IF h > m THEN h ELSE m
  <2>5. top \in Nat /\ h <= top /\ m <= top
    BY <2>3
  <2>6. \A i \in 1 .. k + 1 : i = k + 1 \/ i \in 1 .. k
    BY <2>1
  <2>7. \A i \in 1 .. k : Height[f[i]] <= top
    BY <2>1, <2>2, <2>4, <2>5
  <2>8. Height[f[k + 1]] <= top
    BY <2>5
  <2> HIDE DEF top, h
  <2>9. \A i \in 1 .. k + 1 : Height[f[i]] <= top
    BY <2>6, <2>7, <2>8
  <2> QED
    BY <2>5, <2>9
<1> HIDE DEF T
<1>7. T = Nat
  BY <1>5, <1>6, Induction DEF T
<1>8. n \in T
  BY <1>2, <1>7
<1>9. PICK m \in Nat : \A i \in 1 .. n : Height[f[i]] <= m
  BY <1>2, <1>8 DEF T
<1> QED
  BY <1>4, <1>9

\* Among some headers one is the highest.
LEMMA HighestOne ==
  ASSUME NEW S \in SUBSET Header, S # {}
  PROVE  \E x \in S : \A y \in S : Height[x] >= Height[y]
<1>1. PICK m \in Nat : \A x \in Header : Height[x] <= m
  BY Bounded
<1> DEFINE T == {m - Height[x] : x \in S}
<1>2. T \in SUBSET Nat /\ T # {}
  BY <1>1, Heights
<1>3. PICK d \in T : \A e \in T : d <= e
  BY <1>2, Least
<1>4. PICK x \in S : d = m - Height[x]
  BY <1>3
<1>5. ASSUME NEW y \in S PROVE Height[x] >= Height[y]
  <2>1. m - Height[x] <= m - Height[y]
    BY <1>3, <1>4
  <2> QED
    BY <2>1, Heights
<1> QED
  BY <1>5

\* Among some headers one is the lowest.
LEMMA LowestOne ==
  ASSUME NEW S \in SUBSET Header, S # {}
  PROVE  \E x \in S : \A y \in S : Height[x] <= Height[y]
<1> DEFINE T == {Height[x] : x \in S}
<1>1. T \in SUBSET Nat /\ T # {}
  BY Heights
<1>2. PICK d \in T : \A e \in T : d <= e
  BY <1>1, Least
<1> QED
  BY <1>2

LEMMA MaxHeights == MaxHeight \in Nat /\ \A x \in Header : Height[x] \in 1 .. MaxHeight
<1>1. PICK x \in Header : \A y \in Header : Height[x] >= Height[y]
  BY HighestOne, HeaderAssumption
<1> DEFINE T == {Height[y] : y \in Header}
<1>2. Height[x] \in T /\ \A n \in T : Height[x] >= n
  BY <1>1
<1>3. Max(T) \in T /\ \A n \in T : Max(T) >= n
  BY <1>2 DEF Max
<1>4. MaxHeight = Max(T)
  BY DEF MaxHeight
<1>5. \A y \in Header : Height[y] \in T
  OBVIOUS
<1>6. T \subseteq Nat \ {0}
  BY Heights
<1> HIDE DEF T
<1>7. MaxHeight \in Nat
  BY <1>3, <1>4, <1>6
<1>8. ASSUME NEW y \in Header PROVE Height[y] \in 1 .. MaxHeight
  <2>1. Height[y] \in Nat \ {0} /\ MaxHeight >= Height[y]
    BY <1>3, <1>4, <1>5, <1>6
  <2> QED
    BY <1>7, <2>1
<1> QED
  BY <1>7, <1>8

\* A piece of one chain has one header per height: were two at one height, the lower
\* of their parents would both be in it, or one of the two would be its lowest.
LEMMA SegmentKeyed == ASSUME NEW S \in Segment PROVE OnePerHeight(S) /\ S \in SUBSET Header
<1>1. /\ S \in SUBSET Header /\ Cardinality({x \in S : prevHash[x] \notin S}) = 1
      /\ \A x, y \in S : prevHash[x] = prevHash[y] => x = y
  BY DEF Segment
<1> DEFINE roots == {x \in S : prevHash[x] \notin S}
<1>2. PICK r : roots = {r}
  <2>1. IsFiniteSet(roots)
    BY <1>1, HeaderAssumption, FS_Subset
  <2> HIDE DEF roots
  <2> QED
    BY <1>1, <2>1, FS_Singleton DEF roots
<1>3. r \in S /\ \A x \in S : prevHash[x] \notin S => x = r
  BY <1>2
<1>4. \A x \in S : /\ x \in Header /\ Height[x] \in Nat
                   /\ prevHash[x] \in S => Height[x] = Height[prevHash[x]] + 1
  BY <1>1, Heights
<1>5. \A x \in S : Height[r] <= Height[x]
  <2>1. PICK z \in S : \A y \in S : Height[z] <= Height[y]
    BY <1>1, <1>3, LowestOne
  <2>2. prevHash[z] \notin S
    BY <1>4, <2>1
  <2> QED
    BY <1>3, <2>1, <2>2
<1> DEFINE T == {h \in Nat : \E x, y \in S : x # y /\ Height[x] = h /\ Height[y] = h}
<1>6. T = {}
  <2> SUFFICES ASSUME T # {} PROVE FALSE
    OBVIOUS
  <2>1. PICK h \in T : \A k \in T : h <= k
    BY Least
  <2>2. PICK x \in S, y \in S : x # y /\ Height[x] = h /\ Height[y] = h
    OBVIOUS
  <2>3. prevHash[x] \in S /\ prevHash[y] \in S
    BY <1>3, <1>4, <1>5, <2>2
  <2>4. prevHash[x] # prevHash[y]
    BY <1>1, <2>2
  <2>5. Height[prevHash[x]] = h - 1 /\ Height[prevHash[y]] = h - 1 /\ h - 1 \in Nat
    BY <1>4, <2>2, <2>3
  <2>6. h - 1 \in T
    BY <2>3, <2>4, <2>5
  <2> QED
    BY <2>1, <2>5, <2>6
<1> QED
  BY <1>1, <1>4, <1>6 DEF OnePerHeight

------------------------------------------------------------------------------
(* What addHeaders adds.                                                  *)

\* The headers of height h that addHeaders adds to those it has.
Added(has, batch, h) == {x \in At(batch, h) : Addable(has, x)}

\* The run of addHeaders up to height n.
Runs(g, held, batch, n) ==
  /\ g \in [0 .. n -> SUBSET Header] /\ g[0] = held
  /\ \A h \in 1 .. n : g[h] = g[h - 1] \cup Added(g[h - 1], batch, h)

\* There is such a run.
LEMMA RunsExist ==
  ASSUME NEW held \in SUBSET Header, NEW batch \in SUBSET Header, NEW n \in Nat
  PROVE  \E g : Runs(g, held, batch, n)
<1> DEFINE T == {k \in Nat : \E g : Runs(g, held, batch, k)}
<1>1. 0 \in T
  <2>1. Runs([i \in 0 .. 0 |-> held], held, batch, 0)
    BY DEF Runs
  <2> QED
    BY <2>1
<1>2. ASSUME NEW k \in T PROVE k + 1 \in T
  <2>1. PICK g : Runs(g, held, batch, k)
    OBVIOUS
  <2> DEFINE x == g[k] \cup Added(g[k], batch, k + 1)
             f == [i \in 0 .. k + 1 |-> IF i = k + 1 THEN x ELSE g[i]]
  <2>2. k \in Nat /\ g[k] \in SUBSET Header /\ g[0] = held /\ g \in [0 .. k -> SUBSET Header]
    BY <2>1 DEF Runs
  <2>3. x \in SUBSET Header
    BY <2>2 DEF Added, At
  <2> HIDE DEF x
  <2>4. f \in [0 .. k + 1 -> SUBSET Header] /\ f[0] = held
    BY <2>2, <2>3
  <2>5. ASSUME NEW h \in 1 .. k + 1 PROVE f[h] = f[h - 1] \cup Added(f[h - 1], batch, h)
    <3>1. CASE h = k + 1
      <4>1. k \in 0 .. k + 1 /\ k # k + 1 /\ k + 1 \in 0 .. k + 1 /\ h - 1 = k
        BY <2>2, <3>1
      <4>2. f[h] = x /\ f[h - 1] = g[k]
        BY <3>1, <4>1
      <4> QED
        BY <3>1, <4>2 DEF x
    <3>2. CASE h # k + 1
      <4>1. h \in 1 .. k /\ h - 1 \in 0 .. k + 1 /\ h - 1 # k + 1 /\ h \in 0 .. k + 1
        BY <2>2, <3>2
      <4>2. f[h] = g[h] /\ f[h - 1] = g[h - 1]
        BY <3>2, <4>1
      <4>3. g[h] = g[h - 1] \cup Added(g[h - 1], batch, h)
        BY <2>1, <4>1 DEF Runs
      <4> QED
        BY <4>2, <4>3
    <3> QED
      BY <3>1, <3>2
  <2> HIDE DEF f
  <2>6. Runs(f, held, batch, k + 1)
    BY <2>4, <2>5 DEF Runs
  <2> QED
    BY <2>2, <2>6
<1> HIDE DEF T
<1>3. T = Nat
  BY <1>1, <1>2, Induction DEF T
<1> QED
  BY <1>3 DEF T

\* What addHeaders computes is the end of such a run.
LEMMA AddHeadersRuns ==
  ASSUME NEW held \in SUBSET Header, NEW batch \in SUBSET Header
  PROVE  \E g : Runs(g, held, batch, MaxHeight) /\ AddHeaders(held, batch) = g[MaxHeight]
<1> DEFINE Def(g) == [h \in 0 .. MaxHeight |->
                        IF h = 0 THEN held
                        ELSE g[h - 1] \cup {x \in At(batch, h) : Addable(g[h - 1], x)}]
           upTo == CHOOSE g : g = Def(g)
<1>1. MaxHeight \in Nat
  BY MaxHeights
<1>2. PICK g : Runs(g, held, batch, MaxHeight)
  BY <1>1, RunsExist
<1>3. g = Def(g)
  <2>1. g = [h \in 0 .. MaxHeight |-> g[h]] /\ g[0] = held
    BY <1>2 DEF Runs
  <2>2. ASSUME NEW h \in 0 .. MaxHeight
        PROVE  g[h] = IF h = 0 THEN held
                      ELSE g[h - 1] \cup {x \in At(batch, h) : Addable(g[h - 1], x)}
    <3>1. CASE h = 0
      BY <2>1, <3>1
    <3>2. CASE h # 0
      <4>1. h \in 1 .. MaxHeight
        BY <1>1, <3>2
      <4> QED
        BY <1>2, <3>2, <4>1 DEF Runs, Added
    <3> QED
      BY <3>1, <3>2
  <2> QED
    BY <2>1, <2>2
<1>4. upTo = Def(upTo)
  BY <1>3
<1>5. AddHeaders(held, batch) = upTo[MaxHeight]
  BY DEF AddHeaders
<1> HIDE DEF upTo
<1>6. upTo[0] = held /\ g[0] = held
  BY <1>1, <1>2, <1>4 DEF Runs
<1>7. ASSUME NEW h \in 1 .. MaxHeight
      PROVE  /\ upTo[h] = upTo[h - 1] \cup Added(upTo[h - 1], batch, h)
             /\ g[h] = g[h - 1] \cup Added(g[h - 1], batch, h)
  <2>1. h \in 0 .. MaxHeight /\ h # 0
    BY <1>1
  <2> QED
    BY <1>2, <1>4, <2>1 DEF Runs, Added
<1> DEFINE T == {k \in Nat : k <= MaxHeight => upTo[k] = g[k]}
<1>8. 0 \in T
  BY <1>6
<1>9. ASSUME NEW k \in T PROVE k + 1 \in T
  <2> SUFFICES ASSUME k + 1 <= MaxHeight PROVE upTo[k + 1] = g[k + 1]
    OBVIOUS
  <2> DEFINE h == k + 1
  <2>1. h \in 1 .. MaxHeight /\ h - 1 = k /\ upTo[k] = g[k]
    BY <1>1, <1>9
  <2> HIDE DEF h
  <2>2. upTo[h] = g[h]
    BY <1>7, <2>1
  <2> QED
    BY <2>2 DEF h
<1> HIDE DEF T
<1>10. T = Nat
  BY <1>8, <1>9, Induction DEF T
<1>11. upTo[MaxHeight] = g[MaxHeight]
  BY <1>1, <1>10 DEF T
<1> QED
  BY <1>2, <1>5, <1>11

\* Of the result, what was held and what is below height h.
Below(R, held, h) == {y \in R : y \in held \/ Height[y] < h}

\* addHeaders keeps what is held, and adds a header of the batch if and only if it can be
\* added to what is held and the lower headers that were added.
LEMMA AddHeadersAdds ==
  ASSUME NEW held \in SUBSET Header, NEW batch \in SUBSET Header
  PROVE  LET R == AddHeaders(held, batch) IN
         /\ held \subseteq R /\ R \subseteq held \cup batch
         /\ \A x \in batch : x \in R <=> x \in held \/ Addable(Below(R, held, Height[x]), x)
<1> DEFINE R == AddHeaders(held, batch)
<1>1. PICK g : Runs(g, held, batch, MaxHeight) /\ R = g[MaxHeight]
  BY AddHeadersRuns
<1> HIDE DEF R
<1>2. MaxHeight \in Nat /\ \A x \in Header : Height[x] \in 1 .. MaxHeight
  BY MaxHeights
<1> DEFINE P(k) == /\ held \subseteq g[k] /\ g[k] \subseteq held \cup batch
                   /\ \A y \in g[k] : y \in held \/ Height[y] <= k
                   /\ \A j \in 0 .. k : g[j] = {y \in g[k] : y \in held \/ Height[y] <= j}
           T == {k \in Nat : k <= MaxHeight => P(k)}
<1>3. 0 \in T
  <2>1. g[0] = held
    BY <1>1 DEF Runs
  <2> QED
    BY <2>1
<1>4. ASSUME NEW k \in T PROVE k + 1 \in T
  <2> SUFFICES ASSUME k + 1 <= MaxHeight PROVE P(k + 1)
    OBVIOUS
  <2>1. k \in Nat /\ k + 1 \in 1 .. MaxHeight /\ (k + 1) - 1 = k
    BY <1>2
  <2> DEFINE more == Added(g[k], batch, k + 1)
  <2>2. P(k)
    BY <1>2, <1>4
  <2>3. g[k + 1] = g[k] \cup more
    BY <1>1, <2>1 DEF Runs
  <2>4. \A y \in more : y \in batch /\ y \in Header /\ Height[y] = k + 1 /\ y \notin g[k]
    BY DEF Added, At, Addable
  <2> HIDE DEF more
  <2>5. held \subseteq g[k + 1] /\ g[k + 1] \subseteq held \cup batch
    BY <2>2, <2>3, <2>4
  <2>6. \A y \in g[k] : y \in Header /\ Height[y] \in Nat
    BY <1>2, <2>2
  <2>7. \A y \in g[k + 1] : y \in held \/ Height[y] <= k + 1
    BY <2>1, <2>2, <2>3, <2>4, <2>6
  <2>8. ASSUME NEW j \in 0 .. k + 1
        PROVE  g[j] = {y \in g[k + 1] : y \in held \/ Height[y] <= j}
    <3>1. CASE j = k + 1
      BY <2>7, <3>1
    <3>2. CASE j \in 0 .. k
      <4>1. g[j] = {y \in g[k] : y \in held \/ Height[y] <= j}
        BY <2>2, <3>2
      <4>2. \A y \in more : ~(Height[y] <= j) /\ y \notin held
        BY <2>1, <2>2, <2>4, <3>2
      <4> QED
        BY <2>3, <4>1, <4>2
    <3> QED
      BY <2>1, <3>1, <3>2
  <2> QED
    BY <2>5, <2>7, <2>8
<1> HIDE DEF T
<1>5. T = Nat
  BY <1>3, <1>4, Induction DEF T
<1>6. P(MaxHeight)
  BY <1>2, <1>5 DEF T
<1>7. ASSUME NEW x \in batch
      PROVE  x \in R <=> x \in held \/ Addable(Below(R, held, Height[x]), x)
  <2> DEFINE h == Height[x]
             G == Below(R, held, h)
  <2>1. h \in 1 .. MaxHeight /\ h \in 0 .. MaxHeight /\ h - 1 \in 0 .. MaxHeight
    BY <1>2
  <2>2. \A y \in R : Height[y] \in Nat
    BY <1>1, <1>2, <1>6
  <2>3. g[h - 1] = G
    <3>1. g[h - 1] = {y \in R : y \in held \/ Height[y] <= h - 1}
      BY <1>1, <1>6, <2>1
    <3> QED
      BY <2>1, <2>2, <3>1 DEF Below
  <2>4. g[h] = {y \in R : y \in held \/ Height[y] <= h}
    BY <1>1, <1>6, <2>1
  <2>5. g[h] = G \cup Added(G, batch, h)
    BY <1>1, <2>1, <2>3 DEF Runs
  <2>6. x \in G => x \in held
    BY <2>1 DEF Below
  <2>7. x \in held => x \in G
    BY <1>1, <1>6 DEF Below
  <2>8. x \in R <=> x \in g[h]
    BY <2>1, <2>4
  <2>9. x \in Added(G, batch, h) <=> Addable(G, x)
    BY DEF Added, At
  <2> HIDE DEF h, G
  <2>10. x \in R <=> x \in held \/ Addable(G, x)
    BY <2>5, <2>6, <2>7, <2>8, <2>9
  <2> QED
    BY <2>10 DEF h, G
<1> QED
  BY <1>1, <1>6, <1>7 DEF R

------------------------------------------------------------------------------
(* What a map, a response and a batch are.                                *)

\* Every header of S has its parent in T or builds on the checkpoint.
Closed(S, T) == \A x \in S : prevHash[x] \in T \cup {Checkpoint}

\* x is the highest header of S, NoHeader if there is none.
Tops(x, S) ==
  IF S = {} THEN x = NoHeader ELSE x \in S /\ \A y \in S : Height[x] >= Height[y]

\* addHeaders leaves one header per height, if held and batch have no more.
LEMMA AddHeadersKeyed ==
  ASSUME NEW held \in SUBSET Header, NEW batch \in SUBSET Header,
         OnePerHeight(held), OnePerHeight(batch)
  PROVE  OnePerHeight(AddHeaders(held, batch))
<1> DEFINE R == AddHeaders(held, batch)
<1>1. /\ held \subseteq R /\ R \subseteq held \cup batch
      /\ \A x \in batch : x \in R <=> x \in held \/ Addable(Below(R, held, Height[x]), x)
  BY AddHeadersAdds
<1> HIDE DEF R
<1>2. ASSUME NEW x \in held, NEW y \in R \ held PROVE Height[x] # Height[y]
  <2>1. x \in Below(R, held, Height[y])
    BY <1>1 DEF Below
  <2>2. At(Below(R, held, Height[y]), Height[y]) = {}
    BY <1>1 DEF Addable
  <2> QED
    BY <2>1, <2>2 DEF At
<1>3. ASSUME NEW x \in R, NEW y \in R, Height[x] = Height[y] PROVE x = y
  <2>1. CASE x \in held /\ y \in held
    BY <1>3, <2>1 DEF OnePerHeight
  <2>2. CASE x \notin held /\ y \notin held
    BY <1>1, <1>3, <2>2 DEF OnePerHeight
  <2> QED
    BY <1>2, <1>3, <2>1, <2>2
<1> QED
  BY <1>3 DEF OnePerHeight, R

\* What it adds on top of a header names that header.
LEMMA AddHeadersLinks ==
  ASSUME NEW held \in SUBSET Header, NEW batch \in SUBSET Header,
         NEW x \in AddHeaders(held, batch) \ held
  PROVE  At(AddHeaders(held, batch), Height[x] - 1) \subseteq {prevHash[x]}
<1> DEFINE R == AddHeaders(held, batch)
<1>1. /\ held \subseteq R /\ R \subseteq held \cup batch
      /\ \A y \in batch : y \in R <=> y \in held \/ Addable(Below(R, held, Height[y]), y)
  BY AddHeadersAdds
<1>2. x \in R \ held
  OBVIOUS
<1> HIDE DEF R
<1>3. At(Below(R, held, Height[x]), Height[x] - 1) \subseteq {prevHash[x]}
  BY <1>1, <1>2 DEF Addable
<1>4. Height[x] \in Nat
  BY <1>1, <1>2, Heights
<1>5. At(R, Height[x] - 1) \subseteq At(Below(R, held, Height[x]), Height[x] - 1)
  BY <1>4 DEF At, Below
<1>6. At(R, Height[x] - 1) \subseteq {prevHash[x]}
  BY <1>3, <1>5
<1> QED
  BY <1>6 DEF R

\* Of a chain without forks it adds every header whose parent comes with it or is there.
LEMMA AddHeadersAll ==
  ASSUME NEW held \in SUBSET Header, NEW batch \in SUBSET Header,
         OnePerHeight(held \cup batch), Closed(batch, batch \cup held)
  PROVE  AddHeaders(held, batch) = held \cup batch
<1> DEFINE R == AddHeaders(held, batch)
<1>1. /\ held \subseteq R /\ R \subseteq held \cup batch
      /\ \A x \in batch : x \in R <=> x \in held \/ Addable(Below(R, held, Height[x]), x)
  BY AddHeadersAdds
<1> HIDE DEF R
<1>2. ASSUME NEW x \in batch, x \notin R PROVE FALSE
  <2> DEFINE B == Below(R, held, Height[x])
  <2>1. B \subseteq R /\ x \notin B /\ Height[x] \in Nat /\ x \in Header
    BY <1>2, Heights DEF Below
  <2>2. \A y \in B : y \in held \cup batch /\ y \in Header /\ Height[y] \in Nat \ {0}
    BY <1>1, <2>1, Heights
  <2> HIDE DEF B
  <2>3. At(B, Height[x]) = {}
    BY <1>2, <2>1, <2>2 DEF At, OnePerHeight
  <2>4. ASSUME NEW y \in B, Height[y] = Height[x] - 1 PROVE y = prevHash[x]
    <3>1. prevHash[x] # Checkpoint
      BY <2>1, <2>2, <2>4, Heights
    <3>2. prevHash[x] \in held \cup batch /\ Height[x] = Height[prevHash[x]] + 1
      BY <2>1, <3>1, Heights DEF Closed
    <3>3. Height[prevHash[x]] \in Nat
      BY <3>2, Heights
    <3>4. Height[prevHash[x]] = Height[y]
      BY <2>1, <2>4, <3>2, <3>3
    <3> QED
      BY <2>2, <3>2, <3>4 DEF OnePerHeight
  <2>5. At(B, Height[x] - 1) \subseteq {prevHash[x]}
    BY <2>4 DEF At
  <2>6. Addable(B, x)
    BY <2>3, <2>5 DEF Addable
  <2> QED
    BY <1>1, <1>2, <2>6 DEF B
<1>3. R = held \cup batch
  BY <1>1, <1>2
<1> QED
  BY <1>3 DEF R

\* The best header follows the map.
LEMMA HighestTops ==
  ASSUME NEW held \in SUBSET Header, NEW R \in SUBSET Header, held \subseteq R,
         NEW old, Tops(old, held)
  PROVE  Tops(Highest(old, R), R) /\ HeightOf(old) <= HeightOf(Highest(old, R))
<1> DEFINE new == Highest(old, R)
<1>1. (old = NoHeader /\ held = {}) \/ old \in held
  BY DEF Tops
<1>2. HeightOf(old) \in Int /\ HeightOf(old) >= -1
  BY <1>1, Heights DEF HeightOf
<1>3. CASE \E x \in R : Height[x] > HeightOf(old)
  <2>1. PICK z \in R : Height[z] > HeightOf(old)
    BY <1>3
  <2>2. new = CHOOSE x \in R : \A y \in R : Height[x] >= Height[y]
    BY <1>3 DEF Highest
  <2>3. \E x \in R : \A y \in R : Height[x] >= Height[y]
    BY <2>1, HighestOne
  <2>4. new \in R /\ \A y \in R : Height[new] >= Height[y]
    BY <2>2, <2>3
  <2> HIDE DEF new
  <2>5. HeightOf(new) = Height[new] /\ Height[new] \in Nat /\ Height[z] \in Nat
    BY <2>4, Heights DEF HeightOf
  <2> QED
    BY <1>2, <2>1, <2>4, <2>5 DEF Tops, new
<1>4. CASE \A x \in R : ~(Height[x] > HeightOf(old))
  <2>1. new = old
    BY <1>4 DEF Highest
  <2>2. Tops(old, R)
    <3>1. CASE R = {}
      BY <1>1, <3>1 DEF Tops
    <3>2. CASE R # {}
      <4>1. PICK z \in R : TRUE
        BY <3>2
      <4>2. Height[z] \in Nat \ {0} /\ ~(Height[z] > HeightOf(old))
        BY <1>4, Heights
      <4>3. old # NoHeader
        BY <4>2 DEF HeightOf
      <4>4. old \in held /\ HeightOf(old) = Height[old]
        BY <1>1, <4>3 DEF HeightOf
      <4>5. \A y \in R : Height[old] >= Height[y]
        BY <1>4, <4>4, Heights
      <4> QED
        BY <3>2, <4>4, <4>5 DEF Tops
    <3> QED
      BY <3>1, <3>2
  <2> QED
    BY <1>2, <2>1, <2>2
<1> QED
  BY <1>3, <1>4

\* The height of the best header.
LEMMA BestHeight ==
  ASSUME NEW S \in SUBSET Header, NEW x, Tops(x, S)
  PROVE  /\ HeightOf(x) \in -1 .. MaxHeight /\ x \in Header \cup {NoHeader}
         /\ \A y \in S : Height[y] <= HeightOf(x)
<1>1. x \in Header \/ (x = NoHeader /\ S = {})
  BY DEF Tops
<1>2. MaxHeight \in Nat /\ \A y \in Header : Height[y] \in 1 .. MaxHeight
  BY MaxHeights
<1>3. CASE x \in Header
  <2>1. HeightOf(x) = Height[x]
    BY <1>3, Heights DEF HeightOf
  <2> QED
    BY <1>2, <1>3, <2>1 DEF Tops
<1>4. CASE x = NoHeader /\ S = {}
  BY <1>2, <1>4 DEF HeightOf
<1> QED
  BY <1>1, <1>3, <1>4

\* A chain down to the checkpoint has a header at every height.
LEMMA EveryHeight ==
  ASSUME NEW S \in SUBSET Header, Closed(S, S), NEW x \in S, NEW h \in Nat, h > 0,
         h <= Height[x]
  PROVE  \E y \in S : Height[y] = h
<1> DEFINE T == {k \in Nat : k < Height[x] => \E y \in S : Height[y] = Height[x] - k}
<1>1. Height[x] \in Nat
  BY Heights
<1>2. 0 \in T
  BY <1>1
<1>3. ASSUME NEW k \in T PROVE k + 1 \in T
  <2> SUFFICES ASSUME k + 1 < Height[x]
               PROVE  \E y \in S : Height[y] = Height[x] - (k + 1)
    BY <1>3
  <2>1. PICK y \in S : Height[y] = Height[x] - k
    BY <1>1, <1>3
  <2>2. Height[y] # 1 /\ y \in Header
    BY <1>1, <2>1
  <2>3. prevHash[y] # Checkpoint
    BY <2>2, Heights
  <2>4. prevHash[y] \in S /\ prevHash[y] \in Header /\ Height[y] = Height[prevHash[y]] + 1
    BY <2>2, <2>3, Heights DEF Closed
  <2>5. Height[prevHash[y]] \in Nat
    BY <2>4, Heights
  <2>6. Height[prevHash[y]] = Height[x] - (k + 1)
    BY <1>1, <2>1, <2>4, <2>5
  <2> QED
    BY <2>4, <2>6
<1> HIDE DEF T
<1>4. T = Nat
  BY <1>2, <1>3, Induction DEF T
<1>5. Height[x] - h \in T
  BY <1>1, <1>4
<1> QED
  BY <1>1, <1>5 DEF T

\* The first n headers of S from this height on.
First(S, from, n) ==
  LET ahead == {x \in S : Height[x] >= from}
  IN  {x \in ahead : Cardinality({y \in ahead : Height[y] < Height[x]}) < n}

\* A response fits the map of who asked for what follows its best header.
LEMMA ResponseFits ==
  ASSUME NEW all \in SUBSET Header, OnePerHeight(all), NEW S \in SUBSET all,
         NEW Q \in SUBSET all, Closed(S, S), Closed(Q, Q), NEW top, Tops(top, Q),
         NEW from \in Nat, from <= HeightOf(top) + 1, NEW n \in Nat
  PROVE  Closed(First(S, from, n), First(S, from, n) \cup Q)
<1> DEFINE ahead == {x \in S : Height[x] >= from}
           before(x) == {y \in ahead : Height[y] < Height[x]}
           reply == {x \in ahead : Cardinality(before(x)) < n}
<1>1. reply = First(S, from, n)
  BY DEF First
<1>2. SUFFICES ASSUME NEW x \in reply, prevHash[x] # Checkpoint, prevHash[x] \notin reply
               PROVE  prevHash[x] \in Q
  BY <1>1 DEF Closed
<1> DEFINE p == prevHash[x]
<1>3. x \in S /\ p \in S /\ p \in Header /\ Height[x] = Height[p] + 1
  BY <1>2, Heights DEF Closed
<1>4. Height[p] \in Nat \ {0}
  BY <1>3, Heights
<1>5. Height[p] < from
  <2> SUFFICES ASSUME Height[p] >= from PROVE FALSE
    BY <1>4
  <2>1. p \in ahead
    BY <1>3
  <2>2. before(p) \subseteq before(x)
    BY <1>3, <1>4, Heights
  <2>3. IsFiniteSet(before(x))
    <3>1. before(x) \subseteq Header
      OBVIOUS
    <3> HIDE DEF before
    <3> QED
      BY <3>1, HeaderAssumption, FS_Subset
  <2>4. Cardinality(before(x)) < n
    BY <1>2
  <2> HIDE DEF before
  <2>5. /\ Cardinality(before(p)) <= Cardinality(before(x))
        /\ IsFiniteSet(before(p))
    BY <2>2, <2>3, FS_Subset
  <2>6. Cardinality(before(p)) \in Nat /\ Cardinality(before(x)) \in Nat
    BY <2>3, <2>5, FS_CardinalityType
  <2>7. Cardinality(before(p)) < n
    BY <2>4, <2>5, <2>6
  <2> QED
    BY <1>2, <2>1, <2>7
<1>6. HeightOf(top) \in Int
  BY BestHeight
<1>7. Height[p] <= HeightOf(top)
  BY <1>4, <1>5, <1>6
<1>8. top \in Q /\ HeightOf(top) = Height[top]
  <2>1. top # NoHeader
    BY <1>4, <1>7 DEF HeightOf
  <2> QED
    BY <2>1 DEF Tops, HeightOf
<1>9. PICK q \in Q : Height[q] = Height[p]
  BY <1>4, <1>7, <1>8, EveryHeight
<1> QED
  BY <1>3, <1>9 DEF OnePerHeight

\* What a BSV node sends builds on what the BSV client knows.
LEMMA SegmentFits ==
  ASSUME NEW S \in Segment, NEW base, NEW r \in S,
         prevHash[r] \in base \cup {Checkpoint}, prevHash[r] \notin S
  PROVE  Closed(S, S \cup base)
<1>1. Cardinality({x \in S : prevHash[x] \notin S}) = 1 /\ S \in SUBSET Header
  BY DEF Segment
<1> DEFINE roots == {x \in S : prevHash[x] \notin S}
<1>2. IsFiniteSet(roots)
  BY <1>1, HeaderAssumption, FS_Subset
<1>3. r \in roots
  OBVIOUS
<1>4. \A x \in S : x \notin roots => prevHash[x] \in S
  OBVIOUS
<1>5. Cardinality(roots) = 1
  BY <1>1
<1> HIDE DEF roots
<1>6. roots = {r}
  BY <1>2, <1>3, <1>5, FS_Singleton
<1> QED
  BY <1>4, <1>6 DEF Closed

------------------------------------------------------------------------------
(* The invariant.                                                         *)

\* What the BSV network shows under a plan, and whether it is one chain that the BSV client
\* of every bridge follows from the checkpoint.
ShownBy(p) == UNION {p.sees[b] : b \in Bridge}
Sole(p)    == OnePerHeight(ShownBy(p)) /\ p.bootstraps = {}

\* The types, with bestHash, and a plan that never changes.
Typed ==
  /\ TypeOK
  /\ best \in [Bridge -> Header \cup {NoHeader}]
  /\ faults \in [plan : DOMAIN Plans, drops : Nat, restarts : Nat]

\* A response has one header per height.
Keyed(m) == m.type = "headers" => OnePerHeight(m.headers)

\* On one chain: a response under way on l completes the map of its receiver, whatever
\* else that adds before; a request asks for nothing above what follows the map of its
\* sender, as long as the link stands that the response would use.
Fits(m, l) ==
  /\ m.type = "headers" =>
       m.headers \subseteq ShownBy(plan) /\ Closed(m.headers, m.headers \cup headers[l[2]])
  /\ m.type = "header_request" /\ IsUp(l[1], l[2]) =>
       m.fromHeight <= HeightOf(best[l[1]]) + 1

\* On one chain: no hole in a map, and the BSV client builds on headers of the map.
Whole ==
  \A b \in Bridge :
    /\ headers[b] \subseteq ShownBy(plan) /\ Closed(headers[b], headers[b])
    /\ known[b] \subseteq headers[b]

HeadersInv ==
  /\ Typed
  /\ Sole(plan) => Whole
  /\ \A l \in Peering : \A m \in Range(net[l]) : Keyed(m) /\ (Sole(plan) => Fits(m, l))

------------------------------------------------------------------------------
\* A link and its opposite.
LEMMA Links ==
  ASSUME NEW l \in Peering
  PROVE  /\ <<l[1], l[2]>> = l /\ <<l[2], l[1]>> \in Peering /\ l[1] # l[2]
         /\ l[1] \in Bridge /\ l[2] \in Bridge
BY DialsAssumption DEF Peering

LEMMA DialLinks ==
  ASSUME NEW l \in Dials
  PROVE  /\ l \in Peering /\ <<l[1], l[2]>> = l /\ <<l[2], l[1]>> \in Peering
         /\ l[1] # l[2] /\ l[1] \in Bridge /\ l[2] \in Bridge
BY DialsAssumption DEF Peering

\* The parts of the invariant that the steps use, one by one.
LEMMA Parts ==
  ASSUME HeadersInv
  PROVE  /\ headers \in [Bridge -> SUBSET Header] /\ stored \in [Bridge -> SUBSET Header]
         /\ hashIndex \in [Bridge -> SUBSET Header] /\ known \in [Bridge -> SUBSET Header]
         /\ best \in [Bridge -> Header \cup {NoHeader}]
         /\ booted \subseteq Bridge /\ writing \in [Bridge -> Nat]
         /\ net \in [Peering -> Seq(Message)] /\ up \subseteq Dials
         /\ faults \in [plan : DOMAIN Plans, drops : Nat, restarts : Nat]
         /\ faults.drops <= plan.drops /\ faults.restarts <= plan.restarts
         /\ plan.drops \in Nat /\ plan.restarts \in Nat /\ plan.maxBatch \in Nat \ {0}
         /\ plan.sees \in [Bridge -> SUBSET Header] /\ ShownBy(plan) \in SUBSET Header
         /\ \A b \in Bridge : /\ OnePerHeight(headers[b]) /\ OnePerHeight(stored[b])
                              /\ Tops(best[b], headers[b])
         /\ \A l \in Peering : \A m \in Range(net[l]) : m \in Message
         /\ Typed
<1>1. TypeOK /\ best \in [Bridge -> Header \cup {NoHeader}]
      /\ faults \in [plan : DOMAIN Plans, drops : Nat, restarts : Nat]
  BY DEF HeadersInv, Typed
<1>2. plan \in Plan
  BY <1>1, PlanAssumption DEF plan
<1>3. /\ plan.drops \in Nat /\ plan.restarts \in Nat /\ plan.maxBatch \in Nat \ {0}
      /\ plan.sees \in [Bridge -> SUBSET Header]
  BY <1>2 DEF Plan
<1>4. ShownBy(plan) \in SUBSET Header
  BY <1>3 DEF ShownBy
<1>5. net \in [Peering -> Seq(Message)]
  BY <1>1 DEF TypeOK
<1>6. ASSUME NEW l \in Peering, NEW m \in Range(net[l]) PROVE m \in Message
  BY <1>5 DEF Range
<1> QED
  BY <1>1, <1>3, <1>4, <1>6 DEF TypeOK, Tops, HeadersInv

\* The types of the next state.
LEMMA TypedNext ==
  ASSUME HeadersInv, faults'.plan = faults.plan,
         headers' \in [Bridge -> SUBSET Header], stored' \in [Bridge -> SUBSET Header],
         hashIndex' \in [Bridge -> SUBSET Header], known' \in [Bridge -> SUBSET Header],
         best' \in [Bridge -> Header \cup {NoHeader}],
         booted' \subseteq Bridge, writing' \in [Bridge -> Nat],
         net' \in [Peering -> Seq(Message)], up' \subseteq Dials,
         faults' \in [plan : DOMAIN Plans, drops : Nat, restarts : Nat],
         faults'.drops <= plan.drops, faults'.restarts <= plan.restarts,
         \A b \in Bridge : /\ OnePerHeight(headers'[b]) /\ OnePerHeight(stored'[b])
                           /\ Tops(best'[b], headers'[b])
  PROVE  Typed' /\ plan' = plan
<1>1. plan' = plan
  BY DEF plan
<1>2. plan.drops \in Nat /\ plan.restarts \in Nat
  BY Parts
<1> QED
  BY <1>1, <1>2 DEF Typed, TypeOK, Tops

\* A step keeps the invariant if it keeps the types and the maps whole, and if every
\* message under way is a new one that fits, or one whose receiver has lost no header and
\* whose sender has lost none either or is cut off.
LEMMA Keeps ==
  ASSUME HeadersInv, Typed', plan' = plan, Sole(plan) => Whole',
         \A l \in Peering : \A m \in Range(net'[l]) :
           \/ Keyed(m) /\ (Sole(plan) => Fits(m, l)')
           \/ /\ m \in Range(net[l]) /\ headers[l[2]] \subseteq headers'[l[2]]
              /\ IsUp(l[1], l[2])' =>
                   IsUp(l[1], l[2]) /\ HeightOf(best[l[1]]) <= HeightOf(best'[l[1]])
  PROVE  HeadersInv'
<1>1. ASSUME NEW l \in Peering, NEW m \in Range(net'[l])
      PROVE  Keyed(m) /\ (Sole(plan) => Fits(m, l)')
  <2>1. CASE /\ m \in Range(net[l]) /\ headers[l[2]] \subseteq headers'[l[2]]
             /\ IsUp(l[1], l[2])' =>
                  IsUp(l[1], l[2]) /\ HeightOf(best[l[1]]) <= HeightOf(best'[l[1]])
    <3>1. m \in Message /\ Keyed(m) /\ (Sole(plan) => Fits(m, l))
      BY <2>1, Parts DEF HeadersInv
    <3>2. ASSUME Sole(plan), m.type = "headers"
          PROVE  /\ m.headers \subseteq ShownBy(plan')
                 /\ Closed(m.headers, m.headers \cup headers'[l[2]])
      BY <2>1, <3>1, <3>2 DEF Fits, Closed
    <3>3. ASSUME Sole(plan), m.type = "header_request", IsUp(l[1], l[2])'
          PROVE  m.fromHeight <= HeightOf(best'[l[1]]) + 1
      <4> DEFINE x == best[l[1]]
                 y == best'[l[1]]
      <4>1. m.fromHeight <= HeightOf(x) + 1 /\ HeightOf(x) <= HeightOf(y)
        BY <2>1, <3>1, <3>3 DEF Fits
      <4>2. m.fromHeight \in Nat
        BY <3>1, <3>3, MaxHeights DEF Message
      <4>3. x \in Header \cup {NoHeader} /\ y \in Header \cup {NoHeader}
        BY Parts, Links DEF Typed
      <4> HIDE DEF x, y
      <4>4. HeightOf(x) \in Int /\ HeightOf(y) \in Int
        BY <4>3, Heights DEF HeightOf
      <4>5. m.fromHeight <= HeightOf(y) + 1
        BY <4>1, <4>2, <4>4
      <4> QED
        BY <4>5 DEF y
    <3> QED
      BY <3>1, <3>2, <3>3 DEF Fits
  <2> QED
    BY <2>1
<1> QED
  BY <1>1 DEF HeadersInv

\* Appending adds one element.
LEMMA RangeAppend ==
  ASSUME NEW S, NEW s \in Seq(S), NEW x \in S
  PROVE  Range(Append(s, x)) \subseteq Range(s) \cup {x}
<1>1. /\ Append(s, x) \in Seq(S) /\ Len(Append(s, x)) = Len(s) + 1
      /\ Append(s, x)[Len(s) + 1] = x
      /\ \A i \in 1 .. Len(s) : Append(s, x)[i] = s[i]
  OBVIOUS
<1>2. ASSUME NEW y \in Range(Append(s, x)) PROVE y \in Range(s) \cup {x}
  <2>1. PICK i \in 1 .. Len(s) + 1 : y = Append(s, x)[i]
    BY <1>1 DEF Range
  <2>2. CASE i = Len(s) + 1
    BY <1>1, <2>1, <2>2
  <2>3. CASE i \in 1 .. Len(s)
    BY <1>1, <2>1, <2>3 DEF Range
  <2> QED BY <2>2, <2>3
<1> QED
  BY <1>2

\* The queues of the links T get the message m.
Sent(queues, T, m) == [l \in Peering |-> IF l \in T THEN Append(queues[l], m) ELSE queues[l]]

LEMMA Sending ==
  ASSUME NEW queues \in [Peering -> Seq(Message)], NEW T, NEW m \in Message
  PROVE  /\ Sent(queues, T, m) \in [Peering -> Seq(Message)]
         /\ \A l \in Peering : \A x \in Range(Sent(queues, T, m)[l]) :
              x \in Range(queues[l]) \/ (x = m /\ l \in T)
<1> DEFINE new == Sent(queues, T, m)
<1>1. ASSUME NEW l \in Peering
      PROVE  /\ Append(queues[l], m) \in Seq(Message)
             /\ Range(Append(queues[l], m)) \subseteq Range(queues[l]) \cup {m}
  BY RangeAppend
<1>2. new = [l \in Peering |-> IF l \in T THEN Append(queues[l], m) ELSE queues[l]]
  BY DEF Sent
<1> HIDE DEF new
<1>3. new \in [Peering -> Seq(Message)]
  BY <1>1, <1>2
<1>4. ASSUME NEW l \in Peering, NEW x \in Range(new[l])
      PROVE  x \in Range(queues[l]) \/ (x = m /\ l \in T)
  <2>1. CASE l \in T
    <3>1. Range(new[l]) \subseteq Range(queues[l]) \cup {m}
      BY <1>1, <1>2, <2>1
    <3> QED
      BY <2>1, <3>1
  <2>2. CASE l \notin T
    BY <1>2, <2>2
  <2> QED
    BY <2>1, <2>2
<1> QED
  BY <1>3, <1>4 DEF new

\* Taking the first message off a queue leaves the others.
LEMMA Removing ==
  ASSUME HeadersInv, NEW l \in Peering, net[l] # <<>>
  PROVE  /\ Consumed(l[1], l[2]) \in [Peering -> Seq(Message)]
         /\ Head(net[l]) \in Message /\ Head(net[l]) \in Range(net[l])
         /\ \A k \in Peering : Range(Consumed(l[1], l[2])[k]) \subseteq Range(net[k])
<1> DEFINE q == net[l]
           rest == Consumed(l[1], l[2])
<1>1. net \in [Peering -> Seq(Message)] /\ q \in Seq(Message) /\ q # <<>>
  BY Parts
<1>2. rest = [net EXCEPT ![l] = Tail(q)]
  BY Links DEF Consumed
<1> HIDE DEF q, rest
<1>3. /\ Tail(q) \in Seq(Message) /\ Head(q) \in Message /\ Head(q) = q[1]
      /\ Len(q) \in Nat \ {0} /\ Len(Tail(q)) = Len(q) - 1
      /\ \A i \in 1 .. Len(q) - 1 : Tail(q)[i] = q[i + 1]
      /\ DOMAIN q = 1 .. Len(q) /\ DOMAIN Tail(q) = 1 .. Len(q) - 1
  BY <1>1
<1>4. Head(q) \in Range(q)
  BY <1>3 DEF Range
<1>5. Range(Tail(q)) \subseteq Range(q)
  <2> SUFFICES ASSUME NEW m \in Range(Tail(q)) PROVE m \in Range(q)
    OBVIOUS
  <2>1. PICK i \in 1 .. Len(q) - 1 : m = Tail(q)[i]
    BY <1>3 DEF Range
  <2>2. i + 1 \in 1 .. Len(q) /\ m = q[i + 1]
    BY <1>3, <2>1
  <2> QED
    BY <1>3, <2>2 DEF Range
<1>6. rest \in [Peering -> Seq(Message)] /\ rest[l] = Tail(q)
      /\ \A k \in Peering : k # l => rest[k] = net[k]
  BY <1>1, <1>2, <1>3
<1>7. \A k \in Peering : Range(rest[k]) \subseteq Range(net[k])
  BY <1>5, <1>6 DEF q
<1> QED
  BY <1>3, <1>4, <1>6, <1>7 DEF q, rest

\* A prefix of a queue has no other messages.
LEMMA Prefix ==
  ASSUME NEW S, NEW s \in Seq(S), NEW i \in 0 .. Len(s)
  PROVE  SubSeq(s, 1, i) \in Seq(S) /\ Range(SubSeq(s, 1, i)) \subseteq Range(s)
<1>1. /\ SubSeq(s, 1, i) \in Seq(S) /\ Len(SubSeq(s, 1, i)) = i
      /\ \A j \in 1 .. i : SubSeq(s, 1, i)[j] = s[j]
      /\ i <= Len(s) /\ Len(s) \in Nat
  OBVIOUS
<1>2. ASSUME NEW m \in Range(SubSeq(s, 1, i)) PROVE m \in Range(s)
  <2>1. PICK j \in 1 .. i : m = SubSeq(s, 1, i)[j]
    BY <1>1 DEF Range
  <2>2. j \in 1 .. Len(s) /\ m = s[j]
    BY <1>1, <2>1
  <2> QED
    BY <2>2 DEF Range
<1> QED
  BY <1>1, <1>2

\* Both forms of sending.
LEMMA SendSent ==
  ASSUME NEW l \in Peering, NEW queues \in [Peering -> Seq(Message)], NEW m \in Message
  PROVE  /\ Send(queues, l[2], l[1], m) \in [Peering -> Seq(Message)]
         /\ \A k \in Peering : \A x \in Range(Send(queues, l[2], l[1], m)[k]) :
              \/ x \in Range(queues[k])
              \/ x = m /\ k = <<l[2], l[1]>> /\ IsUp(l[1], l[2])
<1> DEFINE r == <<l[2], l[1]>>
<1>1. r \in Peering
  BY Links
<1>2. CASE IsUp(l[1], l[2])
  <2>2. Send(queues, l[2], l[1], m) = [queues EXCEPT ![r] = Append(queues[r], m)]
    BY <1>2 DEF Send
  <2> HIDE DEF r
  <2>3. Send(queues, l[2], l[1], m) = Sent(queues, {r}, m)
    BY <1>1, <2>2 DEF Sent
  <2> DEFINE T == {r}
  <2> HIDE DEF T
  <2>4. /\ Sent(queues, T, m) \in [Peering -> Seq(Message)]
        /\ \A k \in Peering : \A x \in Range(Sent(queues, T, m)[k]) :
             x \in Range(queues[k]) \/ (x = m /\ k \in T)
    BY Sending
  <2> QED
    BY <1>2, <2>3, <2>4 DEF r, T
<1>3. CASE ~IsUp(l[1], l[2])
  <2>1. Send(queues, l[2], l[1], m) = queues
    BY <1>3 DEF Send
  <2> QED
    BY <2>1
<1> QED
  BY <1>2, <1>3

LEMMA BroadcastSent ==
  ASSUME NEW queues \in [Peering -> Seq(Message)], NEW b, NEW except, NEW m \in Message
  PROVE  /\ Broadcast(queues, b, except, m) \in [Peering -> Seq(Message)]
         /\ \A k \in Peering : \A x \in Range(Broadcast(queues, b, except, m)[k]) :
              x \in Range(queues[k]) \/ x = m
<1> DEFINE T == {l \in Peering : l[1] = b /\ l[2] \notin except /\ IsUp(l[1], l[2])}
<1>1. Broadcast(queues, b, except, m) = Sent(queues, T, m)
  BY DEF Broadcast, Sent
<1> HIDE DEF T
<1>2. /\ Sent(queues, T, m) \in [Peering -> Seq(Message)]
      /\ \A l \in Peering : \A x \in Range(Sent(queues, T, m)[l]) :
           x \in Range(queues[l]) \/ (x = m /\ l \in T)
  BY Sending
<1> QED
  BY <1>1, <1>2

------------------------------------------------------------------------------
(* The steps.                                                             *)

\* What addHeaders does to the maps.
LEMMA Adopting ==
  ASSUME HeadersInv, NEW b \in Bridge, NEW batch \in SUBSET Header, OnePerHeight(batch),
         Adopt(b, batch)
  PROVE  /\ headers' \in [Bridge -> SUBSET Header] /\ best' \in [Bridge -> Header \cup {NoHeader}]
         /\ \A q \in Bridge : /\ OnePerHeight(headers'[q]) /\ Tops(best'[q], headers'[q])
                              /\ headers[q] \subseteq headers'[q]
                              /\ HeightOf(best[q]) <= HeightOf(best'[q])
                              /\ q # b => headers'[q] = headers[q]
         /\ headers'[b] = AddHeaders(headers[b], batch)
<1> DEFINE R == AddHeaders(headers[b], batch)
           x == Highest(best[b], R)
<1>1. /\ headers[b] \in SUBSET Header /\ OnePerHeight(headers[b])
      /\ Tops(best[b], headers[b])
  BY Parts
<1>2. headers' = [headers EXCEPT ![b] = R] /\ best' = [best EXCEPT ![b] = x]
  BY DEF Adopt
<1>3. R \in SUBSET Header /\ headers[b] \subseteq R
  BY <1>1, AddHeadersAdds
<1>4. OnePerHeight(R)
  BY <1>1, AddHeadersKeyed
<1> HIDE DEF R
<1>5. Tops(x, R) /\ HeightOf(best[b]) <= HeightOf(x)
  BY <1>1, <1>3, HighestTops
<1> HIDE DEF x
<1>6. x \in Header \cup {NoHeader}
  BY <1>3, <1>5 DEF Tops
<1>7. /\ headers' \in [Bridge -> SUBSET Header] /\ best' \in [Bridge -> Header \cup {NoHeader}]
      /\ headers'[b] = R /\ best'[b] = x
      /\ \A q \in Bridge : q # b => headers'[q] = headers[q] /\ best'[q] = best[q]
  BY <1>2, <1>3, <1>6, Parts
<1>8. ASSUME NEW q \in Bridge
      PROVE  /\ OnePerHeight(headers'[q]) /\ Tops(best'[q], headers'[q])
             /\ headers[q] \subseteq headers'[q]
             /\ HeightOf(best[q]) <= HeightOf(best'[q])
  <2>1. CASE q = b
    BY <1>3, <1>4, <1>5, <1>7, <2>1
  <2>2. CASE q # b
    <3>1. HeightOf(best[q]) \in Int
      BY Parts, Heights DEF HeightOf
    <3> QED
      BY <1>7, <2>2, <3>1, Parts
  <2> QED
    BY <2>1, <2>2
<1> QED
  BY <1>7, <1>8 DEF R

\* On one chain the maps stay whole, and take the whole batch.
LEMMA AdoptingWhole ==
  ASSUME HeadersInv, NEW b \in Bridge, NEW batch \in SUBSET Header,
         headers'[b] = AddHeaders(headers[b], batch),
         \A q \in Bridge : q # b => headers'[q] = headers[q],
         plan' = plan, Sole(plan), batch \subseteq ShownBy(plan),
         Closed(batch, batch \cup headers[b]),
         known' = known \/ known' = [known EXCEPT ![b] = known[b] \cup batch]
  PROVE  Whole'
<1>1. Whole /\ OnePerHeight(ShownBy(plan))
  BY DEF HeadersInv, Sole
<1>2. headers[b] \in SUBSET Header /\ headers[b] \subseteq ShownBy(plan)
      /\ Closed(headers[b], headers[b])
  BY <1>1, Parts DEF Whole
<1>3. OnePerHeight(headers[b] \cup batch)
  BY <1>1, <1>2 DEF OnePerHeight
<1>4. headers'[b] = headers[b] \cup batch
  BY <1>2, <1>3, AddHeadersAll
<1>5. Closed(headers'[b], headers'[b])
  BY <1>2, <1>4 DEF Closed
<1>6. \A q \in Bridge : known'[q] \subseteq known[q] \cup (IF q = b THEN batch ELSE {})
  BY Parts
<1>7. ASSUME NEW q \in Bridge
      PROVE  /\ headers'[q] \subseteq ShownBy(plan') /\ Closed(headers'[q], headers'[q])
             /\ known'[q] \subseteq headers'[q]
  <2>1. CASE q = b
    BY <1>1, <1>2, <1>4, <1>5, <1>6, <2>1 DEF Whole
  <2>2. CASE q # b
    <3>1. headers'[q] = headers[q]
      BY <2>2
    <3>2. known'[q] \subseteq known[q]
      BY <1>6, <2>2
    <3> QED
      BY <1>1, <3>1, <3>2 DEF Whole
  <2> QED
    BY <2>1, <2>2
<1> QED
  BY <1>7 DEF Whole

\* Writing a batch leaves one header per height on disk.
LEMMA Writing ==
  ASSUME HeadersInv, NEW b \in Bridge, NEW batch \in SUBSET Header, OnePerHeight(batch),
         PutHeaders(b, batch)
  PROVE  /\ stored' \in [Bridge -> SUBSET Header] /\ hashIndex' \in [Bridge -> SUBSET Header]
         /\ \A q \in Bridge : OnePerHeight(stored'[q])
<1> DEFINE S == {x \in stored[b] : At(batch, Height[x]) = {}} \cup batch
<1>1. /\ stored' = [stored EXCEPT ![b] = S]
      /\ hashIndex' = [hashIndex EXCEPT ![b] = hashIndex[b] \cup batch]
  BY DEF PutHeaders
<1>2. stored[b] \in SUBSET Header /\ OnePerHeight(stored[b])
  BY Parts
<1>3. S \in SUBSET Header
  BY <1>2
<1>4. OnePerHeight(S)
  BY <1>2 DEF OnePerHeight, At
<1> HIDE DEF S
<1>5. \A q \in Bridge : stored'[q] = stored[q] \/ stored'[q] = S
  BY <1>1, Parts
<1> QED
  BY <1>1, <1>3, <1>4, <1>5, Parts

LEMMA Initially == Init => HeadersInv
<1> SUFFICES ASSUME Init PROVE HeadersInv
  OBVIOUS
<1>1. faults \in [plan : DOMAIN Plans, drops : {0}, restarts : {0}]
  BY DEF Init
<1>2. plan \in Plan
  BY <1>1, PlanAssumption DEF plan
<1>3. plan.drops \in Nat /\ plan.restarts \in Nat
  BY <1>2 DEF Plan
<1>4. net = [l \in Peering |-> <<>>]
  BY DEF Init
<1>5. \A l \in Peering : Range(net[l]) = {}
  BY <1>4 DEF Range
<1>6. Typed
  BY <1>1, <1>3, <1>4 DEF Init, Typed, TypeOK, OnePerHeight
<1>7. Whole
  BY DEF Init, Whole, Closed
<1> QED
  BY <1>5, <1>6, <1>7 DEF HeadersInv

LEMMA BootstrapStep ==
  ASSUME HeadersInv, NEW b \in Bridge, MeshBootstrap(b) PROVE HeadersInv'
<1>1. /\ b \in plan.bridges \ booted /\ booted' = booted \cup {b}
      /\ UNCHANGED <<headers, best, stored, hashIndex, writing, net, up, faults>>
  BY DEF MeshBootstrap, chain, disk, links
<1>2. PICK answered \in SUBSET {a \in Peers(b) : b \in plan.bootstraps /\ IsUp(a, b)} :
        LET tips == {best[a] : a \in answered \cup {b}} \ {NoHeader}
        IN  IF tips = {} THEN UNCHANGED known
            ELSE \E tip \in tips :
                   /\ \A x \in tips : Height[tip] >= Height[x]
                   /\ known' = [known EXCEPT ![b] = known[b] \cup {tip}]
  BY DEF MeshBootstrap
<1> DEFINE tips == {best[a] : a \in answered \cup {b}} \ {NoHeader}
<1>3. tips \subseteq Header
  BY Parts DEF Peers
<1>4. known' = known \/ \E tip \in tips : known' = [known EXCEPT ![b] = known[b] \cup {tip}]
  BY <1>2
<1> HIDE DEF tips
<1>5. known' \in [Bridge -> SUBSET Header]
  <2>1. ASSUME NEW tip \in tips
        PROVE  [known EXCEPT ![b] = known[b] \cup {tip}] \in [Bridge -> SUBSET Header]
    <3>1. known[b] \cup {tip} \in SUBSET Header
      BY <1>3, Parts
    <3> QED
      BY <3>1, Parts
  <2> QED
    BY <1>4, <2>1, Parts
<1>6. faults'.plan = faults.plan
  BY <1>1
<1>7. Typed' /\ plan' = plan
  BY <1>1, <1>5, <1>6, Parts, TypedNext
<1>8. ASSUME Sole(plan) PROVE Whole'
  <2>1. Whole /\ answered = {}
    BY <1>8 DEF HeadersInv, Sole
  <2>2. \A tip \in tips : tip \in headers[b]
    BY <2>1, Parts DEF Tops, tips
  <2>3. ASSUME NEW q \in Bridge PROVE known'[q] \subseteq known[q] \cup headers[q]
    <3>1. CASE known' = known
      BY <3>1
    <3>2. ASSUME NEW tip \in tips, known' = [known EXCEPT ![b] = known[b] \cup {tip}]
          PROVE  known'[q] \subseteq known[q] \cup headers[q]
      <4>1. known'[q] = IF q = b THEN known[b] \cup {tip} ELSE known[q]
        BY <3>2, Parts
      <4> QED
        BY <2>2, <4>1
    <3> QED
      BY <1>4, <3>1, <3>2
  <2> QED
    BY <1>1, <1>7, <2>1, <2>3 DEF Whole
<1>9. \A q \in Bridge : HeightOf(best[q]) \in Int
  BY Parts, Heights DEF HeightOf
<1> QED
  BY <1>1, <1>7, <1>8, <1>9, Links, Keeps DEF IsUp

LEMMA BsvStep ==
  ASSUME HeadersInv, NEW b \in Bridge, NEW batch \in Segment, OnBsvHeaders(b, batch)
  PROVE  HeadersInv'
<1>1. /\ batch \subseteq plan.sees[b]
      /\ \E x \in batch : prevHash[x] \in known[b] \cup {Checkpoint} /\ prevHash[x] \notin batch
      /\ known' = [known EXCEPT ![b] = known[b] \cup batch]
      /\ Adopt(b, batch)
      /\ IF headers'[b] # headers[b]
         THEN PutHeaders(b, batch) /\ writing' = [writing EXCEPT ![b] = writing[b] + 1]
         ELSE UNCHANGED <<disk, writing>>
      /\ UNCHANGED <<booted, net, up, faults>>
  BY DEF OnBsvHeaders, links
<1>2. OnePerHeight(batch) /\ batch \in SUBSET Header
  BY SegmentKeyed
<1>3. /\ headers' \in [Bridge -> SUBSET Header] /\ best' \in [Bridge -> Header \cup {NoHeader}]
      /\ \A q \in Bridge : /\ OnePerHeight(headers'[q]) /\ Tops(best'[q], headers'[q])
                           /\ headers[q] \subseteq headers'[q]
                           /\ HeightOf(best[q]) <= HeightOf(best'[q])
                           /\ q # b => headers'[q] = headers[q]
      /\ headers'[b] = AddHeaders(headers[b], batch)
  BY <1>1, <1>2, Adopting
<1>4. /\ stored' \in [Bridge -> SUBSET Header] /\ hashIndex' \in [Bridge -> SUBSET Header]
      /\ \A q \in Bridge : OnePerHeight(stored'[q])
      /\ writing' \in [Bridge -> Nat]
  <2>1. CASE headers'[b] # headers[b]
    <3>1. PutHeaders(b, batch) /\ writing' = [writing EXCEPT ![b] = writing[b] + 1]
      BY <1>1, <2>1
    <3>2. writing' \in [Bridge -> Nat]
      BY <3>1, Parts
    <3> QED
      BY <1>2, <3>1, <3>2, Writing
  <2>2. CASE headers'[b] = headers[b]
    BY <1>1, <2>2, Parts DEF disk
  <2> QED
    BY <2>1, <2>2
<1>5. known' \in [Bridge -> SUBSET Header]
  BY <1>1, <1>2, Parts
<1>6. faults'.plan = faults.plan
  BY <1>1
<1>7. Typed' /\ plan' = plan
  BY <1>1, <1>3, <1>4, <1>5, <1>6, Parts, TypedNext
<1>8. ASSUME Sole(plan) PROVE Whole'
  <2>1. Closed(batch, batch \cup known[b])
    BY <1>1, SegmentFits
  <2>2. known[b] \subseteq headers[b]
    BY <1>8 DEF HeadersInv, Whole
  <2>3. Closed(batch, batch \cup headers[b])
    BY <2>1, <2>2 DEF Closed
  <2>4. batch \subseteq ShownBy(plan)
    BY <1>1 DEF ShownBy
  <2> QED
    BY <1>1, <1>2, <1>3, <1>7, <1>8, <2>3, <2>4, AdoptingWhole
<1> QED
  BY <1>1, <1>3, <1>7, <1>8, Links, Keeps DEF IsUp

\* A step that only sends and receives.
LEMMA Talking ==
  ASSUME HeadersInv, UNCHANGED <<chain, disk, bsv, links>>, writing' \in [Bridge -> Nat],
         net' \in [Peering -> Seq(Message)],
         \A l \in Peering : \A m \in Range(net'[l]) :
           m \in Range(net[l]) \/ (Keyed(m) /\ (Sole(plan) => Fits(m, l)))
  PROVE  HeadersInv'
<1>1. UNCHANGED <<headers, best, stored, hashIndex, known, booted, up, faults>>
  BY DEF chain, disk, bsv, links
<1>2. faults'.plan = faults.plan
  BY <1>1
<1>3. Typed' /\ plan' = plan
  BY <1>1, <1>2, Parts, TypedNext
<1>4. Sole(plan) => Whole'
  BY <1>1, <1>3 DEF HeadersInv, Whole
<1>5. \A q \in Bridge : HeightOf(best[q]) \in Int
  BY Parts, Heights DEF HeightOf
<1>6. ASSUME NEW l \in Peering, NEW m \in Range(net'[l])
      PROVE  \/ Keyed(m) /\ (Sole(plan) => Fits(m, l)')
             \/ /\ m \in Range(net[l]) /\ headers[l[2]] \subseteq headers'[l[2]]
                /\ IsUp(l[1], l[2])' =>
                     IsUp(l[1], l[2]) /\ HeightOf(best[l[1]]) <= HeightOf(best'[l[1]])
  <2>1. CASE m \in Range(net[l])
    <3>1. l[1] \in Bridge
      BY Links
    <3>2. IsUp(l[1], l[2])' <=> IsUp(l[1], l[2])
      BY <1>1 DEF IsUp
    <3>3. HeightOf(best[l[1]]) <= HeightOf(best'[l[1]])
      BY <1>1, <1>5, <3>1
    <3> QED
      BY <1>1, <2>1, <3>2, <3>3
  <2>2. CASE Keyed(m) /\ (Sole(plan) => Fits(m, l))
    BY <1>1, <1>3, <2>2 DEF Fits, IsUp
  <2> QED
    BY <2>1, <2>2
<1> QED
  BY <1>3, <1>4, <1>6, Keeps

\* An announcement is no response and no request.
LEMMA Announcing ==
  ASSUME NEW x, HeightOf(x) \in -1 .. MaxHeight
  PROVE  /\ Announce(x) \in Message /\ Announce(x).type = "header_announce"
         /\ Keyed(Announce(x))
BY DEF Announce, Message, Keyed

LEMMA AnnounceStep ==
  ASSUME HeadersInv, NEW b \in Bridge, AnnounceToAll(b) PROVE HeadersInv'
<1>1. /\ writing[b] > 0 /\ writing' = [writing EXCEPT ![b] = writing[b] - 1]
      /\ net' = Broadcast(net, b, {}, Announce(best[b]))
      /\ UNCHANGED <<chain, disk, bsv, links>>
  BY DEF AnnounceToAll
<1>2. writing' \in [Bridge -> Nat]
  BY <1>1, Parts
<1>3. PICK x, m : x = best[b] /\ m = Announce(x)
  OBVIOUS
<1>4. m \in Message /\ Keyed(m) /\ \A l : Fits(m, l)
  <2>1. HeightOf(x) \in -1 .. MaxHeight
    BY <1>3, Parts, BestHeight
  <2> QED
    BY <1>3, <2>1, Announcing DEF Fits
<1>5. net' = Broadcast(net, b, {}, m) /\ net \in [Peering -> Seq(Message)]
  BY <1>1, <1>3, Parts
<1>6. /\ net' \in [Peering -> Seq(Message)]
      /\ \A l \in Peering : \A y \in Range(net'[l]) : y \in Range(net[l]) \/ y = m
  BY <1>4, <1>5, BroadcastSent
<1> QED
  BY <1>1, <1>2, <1>4, <1>6, Talking

\* What arrives is a message, and taking it leaves others.
LEMMA Arriving ==
  ASSUME HeadersInv, NEW l \in Peering, NEW type, Arrives(l[1], l[2], type)
  PROVE  /\ Head(net[l]) \in Message /\ Head(net[l]).type = type
         /\ Head(net[l]) \in Range(net[l])
         /\ Consumed(l[1], l[2]) \in [Peering -> Seq(Message)]
         /\ \A k \in Peering : Range(Consumed(l[1], l[2])[k]) \subseteq Range(net[k])
<1>1. <<l[1], l[2]>> = l
  BY Links
<1>2. net[l] # <<>> /\ Head(net[l]).type = type
  BY <1>1 DEF Arrives
<1> QED
  BY <1>2, Removing

LEMMA HeardStep ==
  ASSUME HeadersInv, NEW l \in Peering, OnHeaderAnnounce(l[1], l[2]) PROVE HeadersInv'
<1>1. <<l[1], l[2]>> = l /\ l[1] \in Bridge /\ l[2] \in Bridge /\ <<l[2], l[1]>> \in Peering
  BY Links
<1>2. PICK a, x, rest : a = Head(net[l]) /\ x = best[l[2]] /\ rest = Consumed(l[1], l[2])
  OBVIOUS
<1>3. /\ a \in Message /\ a.type = "header_announce"
      /\ rest \in [Peering -> Seq(Message)]
      /\ \A k \in Peering : Range(rest[k]) \subseteq Range(net[k])
  <2>1. Arrives(l[1], l[2], "header_announce")
    BY DEF OnHeaderAnnounce
  <2> QED
    BY <1>2, <2>1, Arriving
<1>4. /\ net' = IF a.height > HeightOf(x)
                THEN Send(rest, l[2], l[1], Request(HeightOf(x) + 1))
                ELSE IF Answers(a.height, HeightOf(x))
                     THEN Send(rest, l[2], l[1], Announce(x)) ELSE rest
      /\ UNCHANGED <<chain, disk, bsv, writing, links>>
  BY <1>1, <1>2 DEF OnHeaderAnnounce
<1>5. HeightOf(x) \in -1 .. MaxHeight /\ MaxHeight \in Nat
  BY <1>1, <1>2, Parts, BestHeight, MaxHeights
<1>6. a.height \in -1 .. MaxHeight
  BY <1>3, <1>5 DEF Message
<1> DEFINE OK == /\ net' \in [Peering -> Seq(Message)]
                 /\ \A k \in Peering : \A m \in Range(net'[k]) :
                      m \in Range(net[k]) \/ (Keyed(m) /\ (Sole(plan) => Fits(m, k)))
<1>7. ASSUME a.height > HeightOf(x) PROVE OK
  <2>1. PICK m : m = Request(HeightOf(x) + 1)
    OBVIOUS
  <2>2. m \in Message /\ m.type = "header_request" /\ m.fromHeight = HeightOf(x) + 1
    BY <1>5, <1>6, <1>7, <2>1 DEF Request, Message
  <2>3. net' = Send(rest, l[2], l[1], m)
    BY <1>4, <1>7, <2>1
  <2>4. /\ net' \in [Peering -> Seq(Message)]
        /\ \A k \in Peering : \A y \in Range(net'[k]) :
             y \in Range(rest[k]) \/ (y = m /\ k = <<l[2], l[1]>> /\ IsUp(l[1], l[2]))
    BY <1>3, <2>2, <2>3, SendSent
  <2>5. Keyed(m)
    BY <2>2 DEF Keyed
  <2>6. Fits(m, <<l[2], l[1]>>)
    BY <1>2, <1>5, <2>2 DEF Fits
  <2> QED
    BY <1>3, <2>4, <2>5, <2>6
<1>8. ASSUME ~(a.height > HeightOf(x)), Answers(a.height, HeightOf(x)) PROVE OK
  <2>1. PICK m : m = Announce(x)
    OBVIOUS
  <2>2. m \in Message /\ m.type = "header_announce" /\ Keyed(m)
    BY <1>5, <2>1, Announcing
  <2>3. net' = Send(rest, l[2], l[1], m)
    BY <1>4, <1>8, <2>1
  <2>4. /\ net' \in [Peering -> Seq(Message)]
        /\ \A k \in Peering : \A y \in Range(net'[k]) :
             y \in Range(rest[k]) \/ (y = m /\ k = <<l[2], l[1]>> /\ IsUp(l[1], l[2]))
    BY <1>3, <2>2, <2>3, SendSent
  <2>5. \A k : Fits(m, k)
    BY <2>2 DEF Fits
  <2> QED
    BY <1>3, <2>2, <2>4, <2>5
<1>9. ASSUME ~(a.height > HeightOf(x)), ~Answers(a.height, HeightOf(x)) PROVE OK
  BY <1>3, <1>4, <1>9
<1>10. OK
  BY <1>7, <1>8, <1>9
<1>11. UNCHANGED <<chain, disk, bsv, links>> /\ writing' \in [Bridge -> Nat]
  BY <1>4, Parts
<1> QED
  BY <1>10, <1>11, Talking

LEMMA RequestStep ==
  ASSUME HeadersInv, NEW l \in Peering, OnHeaderRequest(l[1], l[2]) PROVE HeadersInv'
<1>1. <<l[1], l[2]>> = l /\ l[1] \in Bridge /\ l[2] \in Bridge /\ <<l[2], l[1]>> \in Peering
  BY Links
<1>2. PICK a, rest : a = Head(net[l]) /\ rest = Consumed(l[1], l[2])
  OBVIOUS
<1>3. /\ a \in Message /\ a.type = "header_request" /\ a \in Range(net[l])
      /\ rest \in [Peering -> Seq(Message)]
      /\ \A k \in Peering : Range(rest[k]) \subseteq Range(net[k])
  <2>1. Arrives(l[1], l[2], "header_request")
    BY DEF OnHeaderRequest
  <2> QED
    BY <1>2, <2>1, Arriving
<1>4. PICK S, n, reply : /\ S = headers[l[2]] /\ n = plan.maxBatch
                         /\ reply = First(S, a.fromHeight, n)
  OBVIOUS
<1>5. /\ net' = IF reply = {} THEN rest ELSE Send(rest, l[2], l[1], Batch(reply))
      /\ UNCHANGED <<chain, disk, bsv, writing, links>>
  <2>1. FirstHeaders(l[2], a.fromHeight) = reply
    BY <1>4 DEF FirstHeaders, First
  <2> QED
    BY <1>1, <1>2, <2>1 DEF OnHeaderRequest
<1>6. S \in SUBSET Header /\ OnePerHeight(S) /\ n \in Nat
  BY <1>1, <1>4, Parts
<1>7. reply \subseteq S
  BY <1>4 DEF First
<1>8. PICK m : m = Batch(reply)
  OBVIOUS
<1>9. m \in Message /\ m.type = "headers" /\ m.headers = reply
  BY <1>6, <1>7, <1>8 DEF Batch, Message
<1>10. Keyed(m)
  BY <1>6, <1>7, <1>9 DEF Keyed, OnePerHeight
<1>11. ASSUME Sole(plan), IsUp(l[1], l[2]) PROVE Fits(m, <<l[2], l[1]>>)
  <2>1. PICK all, Q, top : all = ShownBy(plan) /\ Q = headers[l[1]] /\ top = best[l[1]]
    OBVIOUS
  <2>2. Whole /\ Fits(a, l)
    BY <1>3, <1>11 DEF HeadersInv
  <2>3. /\ all \in SUBSET Header /\ OnePerHeight(all) /\ S \in SUBSET all /\ Q \in SUBSET all
        /\ Closed(S, S) /\ Closed(Q, Q) /\ Tops(top, Q)
    BY <1>1, <1>4, <1>11, <2>1, <2>2, Parts DEF Whole, Sole
  <2>4. a.fromHeight \in Nat /\ a.fromHeight <= HeightOf(top) + 1
    BY <1>3, <1>11, <2>1, <2>2, MaxHeights DEF Fits, Message
  <2>5. Closed(reply, reply \cup Q)
    BY <1>4, <1>6, <2>3, <2>4, ResponseFits
  <2> QED
    BY <1>7, <1>9, <2>1, <2>3, <2>5 DEF Fits
<1> DEFINE OK == /\ net' \in [Peering -> Seq(Message)]
                 /\ \A k \in Peering : \A y \in Range(net'[k]) :
                      y \in Range(net[k]) \/ (Keyed(y) /\ (Sole(plan) => Fits(y, k)))
<1>12. ASSUME reply = {} PROVE OK
  BY <1>3, <1>5, <1>12
<1>13. ASSUME reply # {} PROVE OK
  <2>1. net' = Send(rest, l[2], l[1], m)
    BY <1>5, <1>8, <1>13
  <2>2. /\ net' \in [Peering -> Seq(Message)]
        /\ \A k \in Peering : \A y \in Range(net'[k]) :
             y \in Range(rest[k]) \/ (y = m /\ k = <<l[2], l[1]>> /\ IsUp(l[1], l[2]))
    BY <1>3, <1>9, <2>1, SendSent
  <2> QED
    BY <1>3, <1>10, <1>11, <2>2
<1>14. OK
  BY <1>12, <1>13
<1>15. UNCHANGED <<chain, disk, bsv, links>> /\ writing' \in [Bridge -> Nat]
  BY <1>5, Parts
<1> QED
  BY <1>14, <1>15, Talking

LEMMA HeadersStep ==
  ASSUME HeadersInv, NEW l \in Peering, OnHeaders(l[1], l[2]) PROVE HeadersInv'
<1> DEFINE b == l[2]
<1>1. <<l[1], l[2]>> = l /\ l[1] \in Bridge /\ b \in Bridge
  BY Links
<1>2. PICK a, rest : a = Head(net[l]) /\ rest = Consumed(l[1], l[2])
  OBVIOUS
<1>3. /\ a \in Message /\ a.type = "headers" /\ a \in Range(net[l])
      /\ rest \in [Peering -> Seq(Message)]
      /\ \A k \in Peering : Range(rest[k]) \subseteq Range(net[k])
  <2>1. Arrives(l[1], l[2], "headers")
    BY DEF OnHeaders
  <2> QED
    BY <1>2, <2>1, Arriving
<1>4. PICK batch : batch = a.headers
  OBVIOUS
<1>5. batch \in SUBSET Header /\ OnePerHeight(batch)
      /\ (Sole(plan) => batch \subseteq ShownBy(plan) /\ Closed(batch, batch \cup headers[b]))
  <2>1. Keyed(a) /\ (Sole(plan) => Fits(a, l))
    BY <1>3 DEF HeadersInv
  <2> QED
    BY <1>3, <1>4, <2>1 DEF Keyed, Fits, Message
<1>6. /\ Adopt(b, batch)
      /\ IF headers'[b] # headers[b]
         THEN /\ PutHeaders(b, batch)
              /\ LET told == IF AsksForMore(batch) THEN {} ELSE {l[1]}
                 IN  net' = Broadcast(rest, b, told, Announce(best'[b]))
         ELSE net' = rest /\ UNCHANGED disk
      /\ UNCHANGED <<known, booted, writing, up, faults>>
  BY <1>1, <1>2, <1>4 DEF OnHeaders, bsv, links
<1>7. /\ headers' \in [Bridge -> SUBSET Header] /\ best' \in [Bridge -> Header \cup {NoHeader}]
      /\ \A q \in Bridge : /\ OnePerHeight(headers'[q]) /\ Tops(best'[q], headers'[q])
                           /\ headers[q] \subseteq headers'[q]
                           /\ HeightOf(best[q]) <= HeightOf(best'[q])
                           /\ q # b => headers'[q] = headers[q]
      /\ headers'[b] = AddHeaders(headers[b], batch)
  BY <1>1, <1>5, <1>6, Adopting
<1>8. /\ stored' \in [Bridge -> SUBSET Header] /\ hashIndex' \in [Bridge -> SUBSET Header]
      /\ \A q \in Bridge : OnePerHeight(stored'[q])
  <2>1. CASE headers'[b] # headers[b]
    BY <1>1, <1>5, <1>6, <2>1, Writing
  <2>2. CASE headers'[b] = headers[b]
    BY <1>6, <2>2, Parts DEF disk
  <2> QED
    BY <2>1, <2>2
<1>9. PICK x, m : x = best'[b] /\ m = Announce(x)
  OBVIOUS
<1>10. m \in Message /\ m.type = "header_announce" /\ Keyed(m)
  <2>1. HeightOf(x) \in -1 .. MaxHeight
    BY <1>1, <1>7, <1>9, BestHeight
  <2> QED
    BY <1>9, <2>1, Announcing
<1>11. /\ net' \in [Peering -> Seq(Message)]
       /\ \A k \in Peering : \A y \in Range(net'[k]) : y \in Range(net[k]) \/ y = m
  <2>1. CASE headers'[b] # headers[b]
    <3>1. PICK told : net' = Broadcast(rest, b, told, m)
      BY <1>6, <1>9, <2>1
    <3>2. /\ net' \in [Peering -> Seq(Message)]
          /\ \A k \in Peering : \A y \in Range(net'[k]) : y \in Range(rest[k]) \/ y = m
      BY <1>3, <1>10, <3>1, BroadcastSent
    <3> QED
      BY <1>3, <3>2
  <2>2. CASE headers'[b] = headers[b]
    BY <1>3, <1>6, <2>2
  <2> QED
    BY <2>1, <2>2
<1>12. faults'.plan = faults.plan
  BY <1>6
<1>13. Typed' /\ plan' = plan
  BY <1>6, <1>7, <1>8, <1>11, <1>12, Parts, TypedNext
<1>14. ASSUME Sole(plan) PROVE Whole'
  BY <1>1, <1>5, <1>6, <1>7, <1>13, <1>14, AdoptingWhole
<1>15. ASSUME NEW k \in Peering, NEW y \in Range(net'[k])
       PROVE  \/ Keyed(y) /\ (Sole(plan) => Fits(y, k)')
              \/ /\ y \in Range(net[k]) /\ headers[k[2]] \subseteq headers'[k[2]]
                 /\ IsUp(k[1], k[2])' =>
                      IsUp(k[1], k[2]) /\ HeightOf(best[k[1]]) <= HeightOf(best'[k[1]])
  <2>1. CASE y = m
    BY <1>10, <2>1 DEF Fits
  <2>2. CASE y \in Range(net[k])
    <3>1. k[1] \in Bridge /\ k[2] \in Bridge
      BY Links
    <3>2. IsUp(k[1], k[2])' <=> IsUp(k[1], k[2])
      BY <1>6 DEF IsUp
    <3> QED
      BY <1>7, <2>2, <3>1, <3>2
  <2> QED
    BY <1>11, <2>1, <2>2
<1> QED
  BY <1>13, <1>14, <1>15, Keeps

LEMMA ConnectStep ==
  ASSUME HeadersInv, NEW l \in Dials, Connect(l[1], l[2]) PROVE HeadersInv'
<1> DEFINE r == <<l[2], l[1]>>
<1>1. l \in Peering /\ <<l[1], l[2]>> = l /\ r \in Peering /\ l[2] \in Bridge
  BY DialLinks
<1>2. PICK x, m : x = best[l[2]] /\ m = Announce(x)
  OBVIOUS
<1>3. m \in Message /\ m.type = "header_announce" /\ Keyed(m)
  <2>1. HeightOf(x) \in -1 .. MaxHeight
    BY <1>1, <1>2, Parts, BestHeight
  <2> QED
    BY <1>2, <2>1, Announcing
<1>4. /\ net[l] = <<>> /\ net[r] = <<>> /\ up' = up \cup {l}
      /\ net' = [net EXCEPT ![r] = <<m>>]
      /\ UNCHANGED <<headers, best, stored, hashIndex, known, booted, writing, faults>>
  BY <1>1, <1>2 DEF Connect, Greet, chain, disk, bsv
<1>5. net' \in [Peering -> Seq(Message)]
  BY <1>1, <1>3, <1>4, Parts
<1>6. faults'.plan = faults.plan
  BY <1>4
<1>7. up' \subseteq Dials
  BY <1>4, Parts
<1>8. Typed' /\ plan' = plan
  BY <1>4, <1>5, <1>6, <1>7, Parts, TypedNext
<1>9. Sole(plan) => Whole'
  BY <1>4, <1>8 DEF HeadersInv, Whole
<1>10. ASSUME NEW k \in Peering, NEW y \in Range(net'[k])
       PROVE  \/ Keyed(y) /\ (Sole(plan) => Fits(y, k)')
              \/ /\ y \in Range(net[k]) /\ headers[k[2]] \subseteq headers'[k[2]]
                 /\ IsUp(k[1], k[2])' =>
                      IsUp(k[1], k[2]) /\ HeightOf(best[k[1]]) <= HeightOf(best'[k[1]])
  <2>1. CASE k = r
    <3>1. net'[k] = <<m>>
      BY <1>1, <1>4, <2>1, Parts
    <3>2. y = m
      BY <3>1 DEF Range
    <3> QED
      BY <1>3, <3>2 DEF Fits
  <2>2. CASE k # r
    <3>1. net'[k] = net[k]
      BY <1>4, <2>2, Parts
    <3>2. k # l
      BY <1>4, <3>1 DEF Range
    <3>3. <<k[1], k[2]>> = k /\ <<k[2], k[1]>> # l /\ k[1] \in Bridge
      BY <2>2, Links
    <3>4. IsUp(k[1], k[2])' <=> IsUp(k[1], k[2])
      BY <1>4, <3>2, <3>3 DEF IsUp
    <3>5. HeightOf(best[k[1]]) \in Int
      BY <3>3, Parts, Heights DEF HeightOf
    <3> QED
      BY <1>4, <3>1, <3>4, <3>5
  <2> QED
    BY <2>1, <2>2
<1> QED
  BY <1>8, <1>9, <1>10, Keeps

LEMMA DropStep ==
  ASSUME HeadersInv, NEW l \in Dials, Drop(l[1], l[2]) PROVE HeadersInv'
<1> DEFINE r == <<l[2], l[1]>>
<1>1. l \in Peering /\ <<l[1], l[2]>> = l /\ r \in Peering
  BY DialLinks
<1>2. /\ faults.drops < plan.drops /\ faults' = [faults EXCEPT !.drops = faults.drops + 1]
      /\ up' = up \ {l}
      /\ \E i \in 0 .. Len(net[l]), j \in 0 .. Len(net[r]) :
           net' = [net EXCEPT ![l] = SubSeq(@, 1, i), ![r] = SubSeq(@, 1, j)]
      /\ UNCHANGED <<headers, best, stored, hashIndex, known, booted, writing>>
  BY <1>1 DEF Drop, chain, disk, bsv
<1>3. PICK i \in 0 .. Len(net[l]), j \in 0 .. Len(net[r]) :
        net' = [net EXCEPT ![l] = SubSeq(@, 1, i), ![r] = SubSeq(@, 1, j)]
  BY <1>2
<1>4. l # r
  BY DialLinks
<1> HIDE DEF r
<1>5. /\ net'[l] = SubSeq(net[l], 1, i) /\ net'[r] = SubSeq(net[r], 1, j)
      /\ \A k \in Peering : k # l /\ k # r => net'[k] = net[k]
      /\ net' = [k \in Peering |-> net'[k]]
  BY <1>1, <1>3, <1>4, Parts
<1>6. ASSUME NEW k \in Peering
      PROVE  net'[k] \in Seq(Message) /\ Range(net'[k]) \subseteq Range(net[k])
  <2>1. net[k] \in Seq(Message)
    BY Parts
  <2>2. CASE k = l
    BY <1>5, <2>1, <2>2, Prefix
  <2>3. CASE k = r
    BY <1>5, <2>1, <2>3, Prefix
  <2>4. CASE k # l /\ k # r
    BY <1>5, <2>1, <2>4
  <2> QED
    BY <2>2, <2>3, <2>4
<1>7. net' \in [Peering -> Seq(Message)]
  BY <1>5, <1>6
<1>8. /\ faults' \in [plan : DOMAIN Plans, drops : Nat, restarts : Nat]
      /\ faults'.plan = faults.plan /\ faults'.drops <= plan.drops
      /\ faults'.restarts <= plan.restarts
  <2>1. PICK n, k : n = plan.drops /\ k = plan.restarts
    OBVIOUS
  <2>2. /\ faults \in [plan : DOMAIN Plans, drops : Nat, restarts : Nat]
        /\ n \in Nat /\ faults.drops < n /\ faults.restarts <= k
    BY <1>2, <2>1, Parts
  <2>3. /\ faults'.plan = faults.plan /\ faults'.drops = faults.drops + 1
        /\ faults'.restarts = faults.restarts
        /\ faults' \in [plan : DOMAIN Plans, drops : Nat, restarts : Nat]
    BY <1>2, <2>2
  <2>4. faults'.drops <= n
    BY <2>2, <2>3
  <2> QED
    BY <2>1, <2>2, <2>3, <2>4
<1>9. up' \subseteq Dials
  BY <1>2, Parts
<1>10. Typed' /\ plan' = plan
  BY <1>2, <1>7, <1>8, <1>9, Parts, TypedNext
<1>11. Sole(plan) => Whole'
  BY <1>2, <1>10 DEF HeadersInv, Whole
<1>12. ASSUME NEW k \in Peering, NEW y \in Range(net'[k])
       PROVE  /\ y \in Range(net[k]) /\ headers[k[2]] \subseteq headers'[k[2]]
              /\ IsUp(k[1], k[2])' =>
                   IsUp(k[1], k[2]) /\ HeightOf(best[k[1]]) <= HeightOf(best'[k[1]])
  <2>1. k[1] \in Bridge
    BY Links
  <2>2. HeightOf(best[k[1]]) \in Int
    BY <2>1, Parts, Heights DEF HeightOf
  <2>3. IsUp(k[1], k[2])' => IsUp(k[1], k[2])
    BY <1>2 DEF IsUp
  <2>4. y \in Range(net[k])
    BY <1>6
  <2>5. headers' = headers /\ best' = best
    BY <1>2
  <2> QED
    BY <2>2, <2>3, <2>4, <2>5
<1> QED
  BY <1>10, <1>11, <1>12, Keeps

LEMMA RestartStep ==
  ASSUME HeadersInv, NEW b \in Bridge, Restart(b) PROVE HeadersInv'
<1>1. /\ faults.restarts < plan.restarts
      /\ faults' = [faults EXCEPT !.restarts = faults.restarts + 1]
      /\ headers' = [headers EXCEPT ![b] = {}] /\ best' = [best EXCEPT ![b] = NoHeader]
      /\ known' = [known EXCEPT ![b] = {}] /\ booted' = booted \ {b}
      /\ writing' = [writing EXCEPT ![b] = 0]
      /\ up' = {l \in up : b \notin {l[1], l[2]}}
      /\ net' = [l \in Peering |-> IF l[2] = b THEN <<>> ELSE net[l]]
      /\ UNCHANGED <<stored, hashIndex>>
  BY DEF Restart, disk
<1>2. /\ headers'[b] = {} /\ best'[b] = NoHeader /\ known'[b] = {}
      /\ \A q \in Bridge : q # b =>
           headers'[q] = headers[q] /\ best'[q] = best[q] /\ known'[q] = known[q]
  BY <1>1, Parts
<1>3. \A q \in Bridge : OnePerHeight(headers'[q]) /\ Tops(best'[q], headers'[q])
  BY <1>2, Parts DEF OnePerHeight, Tops
<1>4. /\ faults' \in [plan : DOMAIN Plans, drops : Nat, restarts : Nat]
      /\ faults'.plan = faults.plan /\ faults'.drops <= plan.drops
      /\ faults'.restarts <= plan.restarts
  <2>1. PICK n, k : n = plan.drops /\ k = plan.restarts
    OBVIOUS
  <2>2. /\ faults \in [plan : DOMAIN Plans, drops : Nat, restarts : Nat]
        /\ k \in Nat /\ faults.restarts < k /\ faults.drops <= n
    BY <1>1, <2>1, Parts
  <2>3. /\ faults'.plan = faults.plan /\ faults'.restarts = faults.restarts + 1
        /\ faults'.drops = faults.drops
        /\ faults' \in [plan : DOMAIN Plans, drops : Nat, restarts : Nat]
    BY <1>1, <2>2
  <2>4. faults'.restarts <= k
    BY <2>2, <2>3
  <2> QED
    BY <2>1, <2>2, <2>3, <2>4
<1>5. /\ headers' \in [Bridge -> SUBSET Header] /\ known' \in [Bridge -> SUBSET Header]
      /\ best' \in [Bridge -> Header \cup {NoHeader}] /\ writing' \in [Bridge -> Nat]
      /\ up' \subseteq Dials /\ booted' \subseteq Bridge
  BY <1>1, Parts
<1>6. net' \in [Peering -> Seq(Message)]
  BY <1>1, Parts
<1>7. Typed' /\ plan' = plan
  BY <1>1, <1>3, <1>4, <1>5, <1>6, Parts, TypedNext
<1>8. ASSUME Sole(plan) PROVE Whole'
  <2>1. Whole
    BY <1>8 DEF HeadersInv
  <2>2. ASSUME NEW q \in Bridge
        PROVE  /\ headers'[q] \subseteq ShownBy(plan') /\ Closed(headers'[q], headers'[q])
               /\ known'[q] \subseteq headers'[q]
    <3>1. CASE q = b
      BY <1>2, <3>1 DEF Closed
    <3>2. CASE q # b
      BY <1>2, <1>7, <2>1, <3>2 DEF Whole
    <3> QED
      BY <3>1, <3>2
  <2> QED
    BY <2>2 DEF Whole
<1>9. ASSUME NEW k \in Peering, NEW y \in Range(net'[k])
      PROVE  /\ y \in Range(net[k]) /\ headers[k[2]] \subseteq headers'[k[2]]
             /\ IsUp(k[1], k[2])' =>
                  IsUp(k[1], k[2]) /\ HeightOf(best[k[1]]) <= HeightOf(best'[k[1]])
  <2>1. k[2] # b /\ net'[k] = net[k]
    <3>1. Range(<<>>) = {}
      BY DEF Range
    <3> QED
      BY <1>1, <3>1
  <2>2. k[1] \in Bridge /\ k[2] \in Bridge
    BY Links
  <2>3. IsUp(k[1], k[2])' => IsUp(k[1], k[2]) /\ k[1] # b
    BY <1>1 DEF IsUp
  <2>4. HeightOf(best[k[1]]) \in Int
    BY <2>2, Parts, Heights DEF HeightOf
  <2>5. k[1] # b => best'[k[1]] = best[k[1]]
    BY <1>2, <2>2
  <2> QED
    BY <1>2, <2>1, <2>2, <2>3, <2>4, <2>5
<1> QED
  BY <1>7, <1>8, <1>9, Keeps

------------------------------------------------------------------------------
LEMMA Stutter == HeadersInv /\ UNCHANGED vars => HeadersInv'
<1> SUFFICES ASSUME HeadersInv, UNCHANGED vars PROVE HeadersInv'
  OBVIOUS
<1>1. UNCHANGED <<chain, disk, bsv, links>> /\ writing' = writing /\ net' = net
  BY DEF vars
<1>2. writing' \in [Bridge -> Nat] /\ net' \in [Peering -> Seq(Message)]
  BY <1>1, Parts
<1> QED
  BY <1>1, <1>2, Talking

LEMMA InvStep == HeadersInv /\ [Next]_vars => HeadersInv'
<1> SUFFICES ASSUME HeadersInv, Next PROVE HeadersInv'
  BY Stutter
<1>1. ASSUME NEW b \in Bridge, MeshBootstrap(b) PROVE HeadersInv'
  BY <1>1, BootstrapStep
<1>2. ASSUME NEW b \in Bridge, NEW batch \in Segment, OnBsvHeaders(b, batch)
      PROVE  HeadersInv'
  BY <1>2, BsvStep
<1>3. ASSUME NEW b \in Bridge, AnnounceToAll(b) PROVE HeadersInv'
  BY <1>3, AnnounceStep
<1>4. ASSUME NEW l \in Peering, OnHeaderAnnounce(l[1], l[2]) PROVE HeadersInv'
  BY <1>4, HeardStep
<1>5. ASSUME NEW l \in Peering, OnHeaderRequest(l[1], l[2]) PROVE HeadersInv'
  BY <1>5, RequestStep
<1>6. ASSUME NEW l \in Peering, OnHeaders(l[1], l[2]) PROVE HeadersInv'
  BY <1>6, HeadersStep
<1>7. ASSUME NEW l \in Dials, Connect(l[1], l[2]) PROVE HeadersInv'
  BY <1>7, ConnectStep
<1>8. ASSUME NEW l \in Dials, Drop(l[1], l[2]) PROVE HeadersInv'
  BY <1>8, DropStep
<1>9. ASSUME NEW b \in Bridge, Restart(b) PROVE HeadersInv'
  BY <1>9, RestartStep
<1> QED
  BY <1>1, <1>2, <1>3, <1>4, <1>5, <1>6, <1>7, <1>8, <1>9 DEF Next

LEMMA Always == Spec => []HeadersInv
<1> QED
  BY Initially, InvStep, PTL DEF Spec

\* One header per height in every map and on every disk, bestHash the highest; and on one
\* chain, with bridges that start from the checkpoint, no map ever has a hole: whatever
\* batches, breaks and restarts come, and in whatever order (addHeaders, _onHeaders).
THEOREM HeadersAreConsistent == Spec => []HeadersConsistent
<1>1. HeadersInv => HeadersConsistent
  <2> SUFFICES ASSUME HeadersInv PROVE HeadersConsistent
    OBVIOUS
  <2>1. TypeOK
    BY DEF HeadersInv, Typed
  <2>2. ASSUME OneChain, plan.bootstraps = {}, NEW b \in Bridge, NEW x \in headers[b]
        PROVE  prevHash[x] \in headers[b] \cup {Checkpoint}
    <3>1. Sole(plan)
      BY <2>2 DEF OneChain, Sole, ShownBy
    <3>2. Whole
      BY <3>1 DEF HeadersInv
    <3> QED
      BY <2>2, <3>2 DEF Whole, Closed
  <2> QED
    BY <2>1, <2>2 DEF HeadersConsistent, NoHoles
<1> QED
  BY <1>1, Always, PTL

\* Whatever batch comes, no header enters a map on top of one that it does not name as
\* its parent (addHeader).
THEOREM HeadersLink == Spec => LinkedWhenAdded
<1> DEFINE A == \A b \in Bridge : \A x \in headers'[b] \ headers[b] :
                  At(headers'[b], Height[x] - 1) \subseteq {prevHash[x]}
<1>1. ASSUME HeadersInv, Next PROVE A
  <2>1. ASSUME NEW b \in Bridge, NEW batch \in SUBSET Header, OnePerHeight(batch),
               Adopt(b, batch)
        PROVE  A
    <3>1. /\ headers'[b] = AddHeaders(headers[b], batch)
          /\ \A q \in Bridge : q # b => headers'[q] = headers[q]
      BY <1>1, <2>1, Adopting
    <3>2. headers[b] \in SUBSET Header
      BY <1>1, Parts
    <3>3. \A x \in headers'[b] \ headers[b] :
            At(headers'[b], Height[x] - 1) \subseteq {prevHash[x]}
      BY <3>1, <3>2, AddHeadersLinks
    <3> QED
      BY <3>1, <3>3
  <2>2. ASSUME NEW b \in Bridge, NEW batch \in Segment, OnBsvHeaders(b, batch) PROVE A
    <3>1. batch \in SUBSET Header /\ OnePerHeight(batch) /\ Adopt(b, batch)
      BY <2>2, SegmentKeyed DEF OnBsvHeaders
    <3> QED
      BY <2>1, <3>1
  <2>3. ASSUME NEW l \in Peering, OnHeaders(l[1], l[2]) PROVE A
    <3>1. Arrives(l[1], l[2], "headers") /\ <<l[1], l[2]>> = l /\ l[2] \in Bridge
      BY <2>3, Links DEF OnHeaders
    <3>2. PICK a, batch : a = Head(net[l]) /\ batch = a.headers
      OBVIOUS
    <3>3. a \in Message /\ a.type = "headers" /\ a \in Range(net[l])
      BY <1>1, <3>1, <3>2, Arriving
    <3>4. Keyed(a)
      BY <1>1, <3>3 DEF HeadersInv
    <3>5. batch \in SUBSET Header /\ OnePerHeight(batch)
      BY <3>2, <3>3, <3>4 DEF Keyed, Message
    <3>6. Adopt(l[2], batch)
      BY <2>3, <3>1, <3>2 DEF OnHeaders
    <3> QED
      BY <2>1, <3>1, <3>5, <3>6
  <2>4. ASSUME \A b \in Bridge : headers'[b] \subseteq headers[b] PROVE A
    BY <2>4
  <2>5. ASSUME NEW b \in Bridge, Restart(b) PROVE A
    <3>1. \A q \in Bridge : headers'[q] \subseteq headers[q]
      BY <1>1, <2>5, Parts DEF Restart
    <3> QED
      BY <2>4, <3>1
  <2>6. ASSUME headers' = headers PROVE A
    BY <2>4, <2>6
  <2>7. ASSUME NEW b \in Bridge, MeshBootstrap(b) \/ AnnounceToAll(b) PROVE A
    BY <2>6, <2>7 DEF MeshBootstrap, AnnounceToAll, chain
  <2>8. ASSUME NEW l \in Peering,
               OnHeaderAnnounce(l[1], l[2]) \/ OnHeaderRequest(l[1], l[2])
        PROVE  A
    BY <2>6, <2>8 DEF OnHeaderAnnounce, OnHeaderRequest, chain
  <2>9. ASSUME NEW l \in Dials, Connect(l[1], l[2]) \/ Drop(l[1], l[2]) PROVE A
    BY <2>6, <2>9 DEF Connect, Drop, chain
  <2> HIDE DEF A
  <2> QED
    BY <1>1, <2>2, <2>3, <2>5, <2>7, <2>8, <2>9 DEF Next
<1>2. HeadersInv /\ [Next]_vars => [A]_vars
  BY <1>1
<1> QED
  BY <1>2, Always, PTL DEF Spec, LinkedWhenAdded
==============================================================================
