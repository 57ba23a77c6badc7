---------------------------- MODULE KmsSetup_proofs ----------------------------
(***************************************************************************)
(* Proofs about KmsSetup for any connectors, encoders, modes, requests and *)
(* width of an int: the mode that find_mode chooses, and the connector and *)
(* CRTC that the constructor settles for.                                  *)
(***************************************************************************)
EXTENDS KmsSetup, SequenceTheorems, WellFoundedInduction, TLAPS

-----------------------------------------------------------------------------
(* Natural numbers.                                                        *)

\* A set of numbers that is not empty has a least one, which Min returns.
LEMMA LeastNumber ==
  ASSUME NEW T, T \subseteq Nat, T # {}
  PROVE  Min(T) \in T /\ \A y \in T : Min(T) <= y
<1>. DEFINE R == {ss \in Nat \X Nat : ss[1] < ss[2]}
<1>1. OpToRel(<, Nat) = R
  BY DEF OpToRel
<1>2. IsWellFoundedOn(R, Nat)
  BY <1>1, NatLessThanWellFounded
<1>3. PICK x \in T : \A y \in T : ~(<<y, x>> \in R)
  BY <1>2, WFMin
<1>4. \A y \in T : y < x => <<y, x>> \in R
  OBVIOUS
<1>. HIDE DEF R
<1>5. x \in Nat /\ \A y \in T : y \in Nat /\ ~(y < x)
  BY <1>3, <1>4
<1>6. \A y \in T : x <= y
  BY <1>5
<1>. QED  BY <1>6 DEF Min

\* Induction up to a bound, for the members of a set.
LEMMA BoundedInduction ==
  ASSUME NEW N \in Nat, NEW S, 0 \in S, \A n \in 0..(N - 1) : n \in S => n + 1 \in S
  PROVE  \A n \in 0..N : n \in S
<1>. SUFFICES ASSUME NEW m \in 0..N, m \notin S PROVE FALSE
  OBVIOUS
<1>. DEFINE T == {n \in 0..N : n \notin S}
<1>1. T \subseteq Nat /\ T # {}
  OBVIOUS
<1>2. PICK k \in T : \A n \in T : k <= n
  BY <1>1, LeastNumber
<1>3. k # 0 /\ k - 1 \in 0..(N - 1)
  BY <1>2
<1>4. k - 1 \in S
  BY <1>2, <1>3
<1>5. (k - 1) + 1 = k
  BY <1>2
<1>. QED  BY <1>2, <1>3, <1>4, <1>5

-----------------------------------------------------------------------------
(* The loop of find_mode.                                                  *)

Start == [mode |-> NoMode, dist |-> IntMax]

\* The recursive function Best exists and meets its equation.
LEMMA BestEquation ==
  ASSUME NEW modes, Len(modes) \in Nat
  PROVE  /\ Best(modes)[0] = Start
         /\ \A n \in 1..Len(modes) : Best(modes)[n] = Nearer(Best(modes)[n - 1], modes[n])
<1>. DEFINE N == Len(modes)
            Meets(g, k) == g = [n \in 0..k |-> IF n = 0 THEN Start ELSE Nearer(g[n - 1], modes[n])]
            S == {k \in 0..N : \E g : Meets(g, k)}
<1>1. 0 \in S
  <2>. DEFINE g == [n \in 0..0 |-> Start]
  <2>1. g = [n \in 0..0 |-> IF n = 0 THEN Start ELSE Nearer(g[n - 1], modes[n])]
    OBVIOUS
  <2>2. \E f : Meets(f, 0)
    BY <2>1, Zenon
  <2>. HIDE DEF Meets
  <2>. QED  BY <2>2
<1>2. ASSUME NEW k \in 0..(N - 1), k \in S
      PROVE  k + 1 \in S
  <2>1. PICK g : Meets(g, k)
    BY <1>2
  <2>. DEFINE h == [n \in 0..(k + 1) |-> IF n = k + 1 THEN Nearer(g[k], modes[k + 1]) ELSE g[n]]
  <2>2. \A n \in 0..k : g[n] = IF n = 0 THEN Start ELSE Nearer(g[n - 1], modes[n])
    BY <2>1
  <2>3. ASSUME NEW n \in 0..(k + 1)
        PROVE  h[n] = IF n = 0 THEN Start ELSE Nearer(h[n - 1], modes[n])
    <3>1. CASE n = k + 1
      BY <3>1
    <3>2. CASE n # k + 1
      <4>1. n \in 0..k /\ h[n] = g[n] /\ (n # 0 => h[n - 1] = g[n - 1])
        BY <3>2
      <4>. QED  BY <4>1, <2>2
    <3>. QED  BY <3>1, <3>2
  <2>. HIDE DEF Meets
  <2>4. Meets(h, k + 1)
    BY <2>3 DEF Meets
  <2>. QED  BY <2>4
<1>. HIDE DEF S, N
<1>a. N \in Nat
  BY DEF N
<1>b. \A k \in 0..(N - 1) : k \in S => k + 1 \in S
  BY <1>2
<1>c. \A k \in 0..N : k \in S
  BY <1>1, <1>a, <1>b, BoundedInduction
<1>3. N \in S
  BY <1>a, <1>c
<1>4. PICK f : Meets(f, N)
  BY <1>3 DEF S
<1>5. Meets(Best(modes), N)
  <2>1. Best(modes) = CHOOSE g : Meets(g, N)
    BY Zenon DEF Best, Start, N
  <2>. HIDE DEF Meets
  <2>. QED  BY <2>1, <1>4
<1>6. \A n \in 0..N : Best(modes)[n] = IF n = 0 THEN Start ELSE Nearer(Best(modes)[n - 1], modes[n])
  BY <1>5
<1>. QED  BY <1>6, <1>a DEF N

\* What the proofs need of the two properties and of a list of modes.
Requests == debugMode \in ModeRequests /\ forceMode \in ForceRequests
Lists == ModeLists \cup {<<>>}

LEMMA ListType ==
  ASSUME NEW modes \in Lists
  PROVE  /\ Len(modes) \in Nat
         /\ DOMAIN modes = 1..Len(modes)
         /\ modes \in Seq([h : Nat, v : Nat, preferred : BOOLEAN, refresh : Nat])
         /\ \A n \in 1..Len(modes) :
                /\ modes[n] \in [h : Nat, v : Nat, preferred : BOOLEAN, refresh : Nat]
                /\ modes[n] \in ModeType
                /\ modes[n].h # -1
<1>. DEFINE R == [h : Nat, v : Nat, preferred : BOOLEAN, refresh : Nat]
<1>1. modes \in Seq(R)
  <2>1. CASE modes \in ModeLists
    BY <2>1, ModeAssumption, Zenon
  <2>2. CASE modes = <<>>
    <3>. HIDE DEF R
    <3>1. modes \in Seq(R) /\ DOMAIN modes = {}
      BY <2>2
    <3>. QED  BY <3>1
  <2>. QED  BY <2>1, <2>2 DEF Lists
<1>5. \A r \in R : r \in ModeType /\ r.h # -1
  BY DEF ModeType
<1>. HIDE DEF R
<1>2. Len(modes) \in Nat /\ DOMAIN modes = 1..Len(modes)
  BY <1>1
<1>3. \A n \in 1..Len(modes) : modes[n] \in R
  BY <1>1, ElementOfSeq
<1>. QED  BY <1>1, <1>2, <1>3, <1>5 DEF R

LEMMA ResolutionType ==
  ASSUME Requests
  PROVE  /\ Resolution.x \in Int /\ Resolution.y \in Int
         /\ Forced => forceMode.rate \in Int \ {0}
BY RequestAssumption DEF Requests, Resolution, Forced

\* The wrapping of a sum that an int can hold is the sum itself.
LEMMA Remainder ==
  ASSUME NEW a \in Nat, NEW b \in Nat, a < b
  PROVE  a % b = a
OBVIOUS

LEMMA WrapType ==
  ASSUME NEW n \in Int
  PROVE  Wrap(n) \in Int /\ (n \in 0..IntMax => Wrap(n) = n)
<1>. DEFINE a == n + IntMax + 1
            b == 2 * (IntMax + 1)
<1>1. IntMax \in Nat /\ a \in Int /\ b \in Nat /\ b > 0
  BY WidthAssumption
<1>2. Wrap(n) = (a % b) - IntMax - 1
  BY DEF Wrap
<1>3. n \in 0..IntMax => a \in Nat /\ a < b
  BY <1>1
<1>. HIDE DEF a, b
<1>4. a % b \in Int
  BY <1>1
<1>5. CASE n \in 0..IntMax
  <2>1. a % b = a
    BY <1>1, <1>3, <1>5, Remainder
  <2>. QED  BY <1>1, <1>2, <1>5, <2>1 DEF a
<1>6. CASE n \notin 0..IntMax
  BY <1>1, <1>2, <1>4, <1>6
<1>. QED  BY <1>5, <1>6

LEMMA Square ==
  ASSUME NEW n \in Int
  PROVE  n * n \in Nat
<1>1. CASE n >= 0
  BY <1>1
<1>2. CASE n < 0
  BY <1>2
<1>. QED  BY <1>1, <1>2

\* The square of the distance of a mode from the size asked for, which Distance wraps.
Span(mode) == (mode.h - Resolution.x) * (mode.h - Resolution.x)
                  + (mode.v - Resolution.y) * (mode.v - Resolution.y)

LEMMA DistanceType ==
  ASSUME Requests, NEW mode \in ModeType
  PROVE  /\ Span(mode) \in Nat
         /\ Distance(mode, Resolution.x, Resolution.y) \in Int
         /\ Span(mode) < IntMax => Distance(mode, Resolution.x, Resolution.y) = Span(mode)
<1>1. mode.h - Resolution.x \in Int /\ mode.v - Resolution.y \in Int
  BY ResolutionType DEF ModeType
<1>2. Span(mode) \in Nat
  <2>1. (mode.h - Resolution.x) * (mode.h - Resolution.x) \in Nat
    BY <1>1, Square
  <2>2. (mode.v - Resolution.y) * (mode.v - Resolution.y) \in Nat
    BY <1>1, Square
  <2>. QED  BY <2>1, <2>2 DEF Span
<1>3. Distance(mode, Resolution.x, Resolution.y) = Wrap(Span(mode))
  BY DEF Distance, Span
<1>4. Span(mode) < IntMax => Span(mode) \in 0..IntMax
  BY <1>2, WidthAssumption
<1>. QED  BY <1>2, <1>3, <1>4, WrapType

\* Whatever the distances, the best mode is one of those seen, or none.
LEMMA BestRange ==
  ASSUME Requests, NEW modes \in Lists
  PROVE  \A n \in 0..Len(modes) :
            /\ Best(modes)[n].dist \in Int
            /\ Best(modes)[n] = Start \/ \E k \in 1..n : Best(modes)[n].mode = modes[k]
<1>. DEFINE N == Len(modes)
            b == Best(modes)
            Good(n) == /\ b[n].dist \in Int
                       /\ b[n] = Start \/ \E k \in 1..n : b[n].mode = modes[k]
            S == {n \in 0..N : Good(n)}
<1>1. N \in Nat
  BY ListType
<1>2. b[0] = Start /\ \A n \in 1..N : b[n] = Nearer(b[n - 1], modes[n])
  BY <1>1, BestEquation
<1>. HIDE DEF N, b
<1>3. 0 \in S
  BY <1>1, <1>2, WidthAssumption DEF Start
<1>4. ASSUME NEW n \in 0..(N - 1), n \in S
      PROVE  n + 1 \in S
  <2>1. n + 1 \in 1..N /\ (n + 1) - 1 = n /\ n + 1 \in 0..N
    BY <1>1
  <2>2. b[n + 1] = Nearer(b[n], modes[n + 1])
    BY <1>2, <2>1
  <2>3. modes[n + 1] \in ModeType
    BY <2>1, ListType DEF N
  <2>4. Distance(modes[n + 1], Resolution.x, Resolution.y) \in Int
    BY <2>3, DistanceType
  <2>5. \/ b[n + 1] = b[n]
        \/ b[n + 1].mode = modes[n + 1] /\ b[n + 1].dist \in Int
    <3>. DEFINE tmp == IF Sized THEN Distance(modes[n + 1], Resolution.x, Resolution.y)
                       ELSE IF modes[n + 1].preferred THEN 0 ELSE b[n].dist
    <3>1. tmp \in Int
      BY <1>4, <2>4
    <3>2. b[n + 1] = IF b[n].dist # 0 /\ tmp < b[n].dist
                     THEN [mode |-> modes[n + 1], dist |-> tmp] ELSE b[n]
      BY <2>2 DEF Nearer
    <3>. HIDE DEF tmp
    <3>. QED  BY <3>1, <3>2
  <2>6. Good(n + 1)
    <3>1. CASE b[n + 1] = b[n]
      <4>1. \A k \in 1..n : k \in 1..(n + 1)
        OBVIOUS
      <4>. QED  BY <1>4, <3>1, <4>1
    <3>2. CASE b[n + 1].mode = modes[n + 1] /\ b[n + 1].dist \in Int
      <4>1. n + 1 \in 1..(n + 1)
        OBVIOUS
      <4>. QED  BY <3>2, <4>1
    <3>. QED  BY <2>5, <3>1, <3>2
  <2>. QED  BY <2>1, <2>6
<1>. HIDE DEF S
<1>5. \A n \in 0..N : n \in S
  BY <1>1, <1>3, <1>4, BoundedInduction
<1>. QED  BY <1>5 DEF N, b, S

\* Without a size, the best mode is the first preferred one, or none.
LEMMA BestPreferred ==
  ASSUME NEW modes \in Lists, ~Sized
  PROVE  LET preferred == {n \in DOMAIN modes : modes[n].preferred}
         IN  Best(modes)[Len(modes)] =
                 IF preferred = {} THEN Start ELSE [mode |-> modes[Min(preferred)], dist |-> 0]
<1>. DEFINE N == Len(modes)
            b == Best(modes)
            P == {n \in DOMAIN modes : modes[n].preferred}
            m == IF P = {} THEN N + 1 ELSE Min(P)
            Good(n) == b[n] = IF n < m THEN Start ELSE [mode |-> modes[m], dist |-> 0]
            S == {n \in 0..N : Good(n)}
<1>1. N \in Nat /\ DOMAIN modes = 1..N
  BY ListType
<1>2. b[0] = Start /\ \A n \in 1..N : b[n] = Nearer(b[n - 1], modes[n])
  BY <1>1, BestEquation
<1>3. /\ m \in 1..(N + 1)
      /\ m = N + 1 <=> P = {}
      /\ m <= N => modes[m].preferred
      /\ \A n \in 1..N : n < m => ~modes[n].preferred
  <2>1. CASE P = {}
    BY <1>1, <2>1
  <2>2. CASE P # {}
    <3>1. P \subseteq Nat
      BY <1>1
    <3>. HIDE DEF P
    <3>2. Min(P) \in P /\ \A y \in P : Min(P) <= y
      BY <2>2, <3>1, LeastNumber
    <3>3. m = Min(P)
      BY <2>2
    <3>. HIDE DEF m
    <3>4. m \in P /\ \A y \in P : m <= y
      BY <3>2, <3>3
    <3>5. \A n \in 1..N : n \in P <=> modes[n].preferred
      BY <1>1 DEF P
    <3>6. m \in 1..N
      BY <1>1, <3>4 DEF P
    <3>. QED  BY <1>1, <2>2, <3>4, <3>5, <3>6
  <2>. QED  BY <2>1, <2>2
<1>. HIDE DEF N, b, P, m
<1>4. 0 \in S
  BY <1>1, <1>2, <1>3
<1>5. ASSUME NEW n \in 0..(N - 1), n \in S
      PROVE  n + 1 \in S
  <2>1. n + 1 \in 1..N /\ (n + 1) - 1 = n /\ n + 1 \in 0..N
    BY <1>1
  <2>2. b[n + 1] = Nearer(b[n], modes[n + 1])
    BY <1>2, <2>1
  <2>3. CASE n + 1 < m
    <3>1. b[n] = Start /\ ~modes[n + 1].preferred
      BY <1>3, <1>5, <2>1, <2>3
    <3>2. b[n + 1] = Start
      BY <2>2, <3>1, WidthAssumption DEF Nearer, Start
    <3>. QED  BY <2>1, <2>3, <3>2
  <2>4. CASE n + 1 = m
    <3>1. b[n] = Start /\ modes[n + 1].preferred
      BY <1>1, <1>3, <1>5, <2>1, <2>4
    <3>2. b[n + 1] = [mode |-> modes[n + 1], dist |-> 0]
      BY <2>2, <3>1, WidthAssumption DEF Nearer, Start
    <3>. QED  BY <2>1, <2>4, <3>2
  <2>5. CASE n + 1 > m
    <3>1. b[n] = [mode |-> modes[m], dist |-> 0]
      BY <1>3, <1>5, <2>1, <2>5
    <3>2. b[n + 1] = b[n]
      BY <2>2, <3>1 DEF Nearer
    <3>3. ~(n + 1 < m)
      BY <1>3, <2>1, <2>5
    <3>. QED  BY <2>1, <3>1, <3>2, <3>3
  <2>. QED  BY <1>3, <2>1, <2>3, <2>4, <2>5
<1>. HIDE DEF S
<1>6. N \in S
  <2>1. \A n \in 0..N : n \in S
    BY <1>1, <1>4, <1>5, BoundedInduction
  <2>. QED  BY <1>1, <2>1
<1>7. b[N] = IF P = {} THEN Start ELSE [mode |-> modes[Min(P)], dist |-> 0]
  <2>1. b[N] = IF N < m THEN Start ELSE [mode |-> modes[m], dist |-> 0]
    BY <1>6 DEF S
  <2>2. P # {} => m = Min(P)
    BY DEF m
  <2>3. N < m <=> P = {}
    BY <1>1, <1>3
  <2>. QED  BY <2>1, <2>2, <2>3
<1>. QED  BY <1>7 DEF N, b, P

\* With a size, and no overflow, it is the first of the nearest ones.
LEMMA BestNearest ==
  ASSUME Requests, Sized, NEW modes \in Lists, modes # <<>>,
         \A n \in DOMAIN modes : Span(modes[n]) < IntMax
  PROVE  \E n \in DOMAIN modes :
            /\ Best(modes)[Len(modes)].mode = modes[n]
            /\ \A k \in DOMAIN modes : Span(modes[n]) <= Span(modes[k])
            /\ \A k \in 1..(n - 1) : Span(modes[n]) < Span(modes[k])
<1>. DEFINE N == Len(modes)
            b == Best(modes)
            First(n, k) == /\ b[n] = [mode |-> modes[k], dist |-> Span(modes[k])]
                           /\ \A j \in 1..n : Span(modes[k]) <= Span(modes[j])
                           /\ \A j \in 1..(k - 1) : Span(modes[k]) < Span(modes[j])
            Good(n) == IF n = 0 THEN b[n] = Start ELSE \E k \in 1..n : First(n, k)
            S == {n \in 0..N : Good(n)}
<1>1. N \in Nat /\ N # 0 /\ DOMAIN modes = 1..N
  <2>. HIDE DEF N
  <2>1. N \in Nat /\ DOMAIN modes = 1..N
    BY ListType DEF N
  <2>2. modes \in Seq([h : Nat, v : Nat, preferred : BOOLEAN, refresh : Nat])
    BY ListType
  <2>3. N # 0
    BY <2>2 DEF N
  <2>. QED  BY <2>1, <2>3
<1>2. b[0] = Start /\ \A n \in 1..N : b[n] = Nearer(b[n - 1], modes[n])
  BY <1>1, BestEquation
<1>3. \A n \in 1..N : /\ Span(modes[n]) \in Nat
                      /\ Span(modes[n]) < IntMax
                      /\ Distance(modes[n], Resolution.x, Resolution.y) = Span(modes[n])
  BY <1>1, ListType, DistanceType
<1>. HIDE DEF N, b
<1>4. 0 \in S
  BY <1>1, <1>2
<1>5. ASSUME NEW n \in 0..(N - 1), n \in S
      PROVE  n + 1 \in S
  <2>1. n + 1 \in 1..N /\ (n + 1) - 1 = n /\ n + 1 \in 0..N /\ n + 1 # 0
    BY <1>1
  <2>. DEFINE new == Span(modes[n + 1])
              next == [mode |-> modes[n + 1], dist |-> new]
  <2>2. new \in Nat /\ new < IntMax
    BY <1>3, <2>1
  <2>3. b[n + 1] = IF b[n].dist # 0 /\ new < b[n].dist THEN next ELSE b[n]
    <3>1. b[n + 1] = Nearer(b[n], modes[n + 1])
      BY <1>2, <2>1
    <3>2. Distance(modes[n + 1], Resolution.x, Resolution.y) = new
      BY <1>3, <2>1
    <3>. HIDE DEF new
    <3>. QED  BY <3>1, <3>2, Sized DEF Nearer
  <2>4. CASE n = 0
    <3>1. b[n + 1] = next
      BY <1>2, <2>2, <2>3, <2>4, WidthAssumption DEF Start
    <3>2. First(n + 1, n + 1)
      BY <2>2, <2>4, <3>1
    <3>3. n + 1 \in 1..(n + 1)
      BY <2>4
    <3>. HIDE DEF First
    <3>. QED  BY <2>1, <3>2, <3>3
  <2>5. CASE n # 0
    <3>1. PICK k \in 1..n : First(n, k)
      BY <1>5, <2>5
    <3>2. k \in 1..N /\ Span(modes[k]) \in Nat /\ b[n].dist = Span(modes[k])
      BY <1>1, <1>3, <3>1
    <3>3. CASE new < Span(modes[k])
      <4>1. b[n + 1] = next
        BY <2>2, <2>3, <3>2, <3>3
      <4>2. \A j \in 1..n : Span(modes[j]) \in Nat /\ new < Span(modes[j])
        <5>1. \A j \in 1..n : j \in 1..N
          BY <1>1, <2>1
        <5>2. \A j \in 1..n : Span(modes[j]) \in Nat /\ Span(modes[k]) <= Span(modes[j])
          BY <1>3, <3>1, <5>1
        <5>. HIDE DEF new
        <5>. QED  BY <2>2, <3>2, <3>3, <5>2
      <4>3. First(n + 1, n + 1)
        <5>1. \A j \in 1..(n + 1) : j \in 1..n \/ j = n + 1
          OBVIOUS
        <5>2. \A j \in 1..((n + 1) - 1) : j \in 1..n
          OBVIOUS
        <5>. QED  BY <2>2, <4>1, <4>2, <5>1, <5>2
      <4>4. n + 1 \in 1..(n + 1)
        OBVIOUS
      <4>. HIDE DEF First
      <4>. QED  BY <2>1, <4>3, <4>4
    <3>4. CASE ~(new < Span(modes[k]))
      <4>1. b[n + 1] = b[n]
        BY <2>3, <3>2, <3>4
      <4>2. \A j \in 1..(n + 1) : Span(modes[k]) <= Span(modes[j])
        <5>1. \A j \in 1..(n + 1) : j \in 1..n \/ j = n + 1
          OBVIOUS
        <5>2. Span(modes[k]) <= Span(modes[n + 1])
          BY <2>2, <3>2, <3>4
        <5>. QED  BY <3>1, <5>1, <5>2
      <4>3. First(n + 1, k)
        BY <3>1, <4>1, <4>2
      <4>4. k \in 1..(n + 1)
        OBVIOUS
      <4>. HIDE DEF First
      <4>. QED  BY <2>1, <4>3, <4>4
    <3>. QED  BY <3>3, <3>4
  <2>. QED  BY <2>4, <2>5
<1>. HIDE DEF S
<1>6. N \in S
  <2>1. \A n \in 0..N : n \in S
    BY <1>1, <1>4, <1>5, BoundedInduction
  <2>. QED  BY <1>1, <2>1
<1>7. PICK k \in 1..N : First(N, k)
  BY <1>1, <1>6 DEF S
<1>. QED  BY <1>1, <1>7 DEF N, b

-----------------------------------------------------------------------------
(* The inductive invariant.                                                *)

Types ==
  /\ \E n \in 0..MaxConnectors : connectors \in [1..n -> ConnectorType]
  /\ connection \in [Connectors -> States]
  /\ Requests
  /\ active \in BOOLEAN /\ active0 \in BOOLEAN
  /\ output \in Outputs \cup {NoOutput}
  /\ used_crtcs \subseteq 1..CrtcCount + 1
  /\ lastValidConnectorIndex \in {0} \cup Connectors
  /\ i \in 1..Len(connectors) + 1
  /\ pc \in {"fetch", "scan", "enforce", "ready", "done", "failed", "crashed", "lost"}
  /\ fps \in Int
  /\ plugs \in 0..MaxPlugs

Kernel == \A c \in Connectors : MayBe(connectors[c], connection[c])

\* Until a connector is set up nothing is assigned, and the only CRTC in use is
\* the one that does not exist.
Unassigned ==
  /\ pc \in {"fetch", "scan", "enforce"} => output = NoOutput /\ used_crtcs \subseteq {CrtcCount + 1}
  /\ pc = "fetch" => active = active0 /\ used_crtcs = {} /\ lastValidConnectorIndex = 0
  /\ pc \in {"scan", "enforce"} => ~active0

\* The last connector that was probed with success.
LastProbed ==
  pc \in {"scan", "enforce"} =>
    /\ \A c \in Connectors : c < i /\ connectors[c].probe => c <= lastValidConnectorIndex
    /\ lastValidConnectorIndex # 0 => connectors[lastValidConnectorIndex].probe
    /\ pc = "enforce" => i = Len(connectors) + 1 /\ lastValidConnectorIndex # 0

\* The connectors passed over, if no monitor came or went.
PassedOver ==
  plugs = 0 =>
    /\ pc = "fetch" => \A c \in Connected : c < i => ~connectors[c].hdmi
    /\ pc \in {"scan", "enforce"} =>
         \A c \in Connected : ~connectors[c].hdmi /\ (c < i => ~Drivable(c))

\* The rate that a forced mode ends up with.
ForcedRate == IF forceMode.rate < 0 THEN 0 ELSE forceMode.rate

\* What mode is to be among the modes of a connector: the first of the nearest if a
\* size is asked for, unless a square overflows, and else the first preferred one.
Fits(mode, modes) ==
  LET preferred == {n \in DOMAIN modes : modes[n].preferred}
  IN /\ Forced => mode.refresh = ForcedRate
     /\ ~Forced => \E n \in DOMAIN modes : mode = modes[n]
     /\ ~Forced /\ Sized /\ (\A n \in DOMAIN modes : Span(modes[n]) < IntMax) =>
            \E n \in DOMAIN modes :
                /\ mode = modes[n]
                /\ \A k \in DOMAIN modes : Span(modes[n]) <= Span(modes[k])
                /\ \A k \in 1..(n - 1) : Span(modes[n]) < Span(modes[k])
     /\ ~Forced /\ ~Sized => mode = modes[IF preferred = {} THEN 1 ELSE Min(preferred)]

\* An output has a mode that fits the list of its connector.
Established ==
  pc \in {"ready", "done"} /\ output # NoOutput =>
    /\ output.connector \in Connectors
    /\ Fits(output.mode, connectors[output.connector].modes)
    /\ pc = "done" => fps = output.mode.refresh

Inv == Types /\ Kernel /\ Unassigned /\ LastProbed /\ PassedOver /\ Established
         /\ ConnectorChoice /\ CrashOnlyEnforced

-----------------------------------------------------------------------------
(* The parts of the steps.                                                 *)

LEMMA ConnectorFacts ==
  ASSUME Types
  PROVE  /\ Len(connectors) \in Nat /\ Connectors = 1..Len(connectors)
         /\ Len(connectors) <= MaxConnectors
         /\ \A c \in Connectors : /\ connectors[c] \in ConnectorType
                                  /\ connectors[c].modes \in Lists
                                  /\ Modes(c) \in Lists
                                  /\ connectors[c].encoder \in Encoders
<1>1. PICK n \in 0..MaxConnectors : connectors \in [1..n -> ConnectorType]
  BY DEF Types
<1>2. n \in Nat /\ n <= MaxConnectors
  BY CrtcAssumption
<1>3. connectors \in Seq(ConnectorType) /\ Len(connectors) = n
  BY <1>1, <1>2, SeqDef, LenProperties
<1>4. Connectors = 1..n
  BY <1>1 DEF Connectors
<1>. QED  BY <1>1, <1>2, <1>3, <1>4 DEF ConnectorType, Modes, Lists

\* The CRTC found while none that exists is in use.
LEMMA FreeCrtcFacts ==
  ASSUME Types, used_crtcs \subseteq {CrtcCount + 1}, NEW c \in Connectors
  PROVE  /\ Works(c) <=> Drivable(c)
         /\ Works(c) => FreeCrtc(c) \in 1..CrtcCount /\ FreeCrtc(c) = Min(connectors[c].encoder)
         /\ connectors[c].encoder # NoEncoder /\ ~Works(c) => FreeCrtc(c) = CrtcCount + 1
<1>. DEFINE e == connectors[c].encoder
            free == {n \in 1..CrtcCount : n \in e \ used_crtcs}
<1>1. CrtcCount \in Nat
  BY CrtcAssumption
<1>2. FreeCrtc(c) = IF free = {} THEN CrtcCount + 1 ELSE Min(free)
  BY DEF FreeCrtc
<1>3. CASE e = NoEncoder
  BY <1>3 DEF Works, Drivable
<1>4. CASE e # NoEncoder
  <2>1. e \subseteq 1..CrtcCount
    BY <1>4, ConnectorFacts, EncoderAssumption
  <2>2. free = e
    BY <1>1, <2>1
  <2>. HIDE DEF free, e
  <2>3. e # {} => Min(e) \in e
    <3>1. e \subseteq Nat
      BY <2>1
    <3>. QED  BY <3>1, LeastNumber
  <2>4. e # {} => FreeCrtc(c) = Min(e) /\ Min(e) \in 1..CrtcCount
    BY <1>2, <2>1, <2>2, <2>3
  <2>5. e = {} => FreeCrtc(c) = CrtcCount + 1
    BY <1>2, <2>2
  <2>6. Works(c) <=> e # {}
    BY <1>1, <1>4, <2>4, <2>5 DEF Works, e
  <2>. QED  BY <1>4, <2>4, <2>5, <2>6 DEF Drivable, e
<1>. QED  BY <1>3, <1>4

LEMMA FindModeFits ==
  ASSUME Requests, NEW modes \in Lists
  PROVE  /\ FindMode(modes) \in ModeType
         /\ FindMode(modes) = NoMode <=> ~Forced /\ modes = <<>>
         /\ Forced \/ modes # <<>> => Fits(FindMode(modes), modes)
<1>. DEFINE N == Len(modes)
            best == Best(modes)[N]
            P == {n \in DOMAIN modes : modes[n].preferred}
            forced == GenerateMode(Resolution.x, Resolution.y, forceMode.rate)
<1>1. /\ N \in Nat /\ DOMAIN modes = 1..N
      /\ modes \in Seq([h : Nat, v : Nat, preferred : BOOLEAN, refresh : Nat])
      /\ \A n \in 1..N : modes[n] \in ModeType /\ modes[n].h # -1
  BY ListType
<1>2. modes = <<>> <=> N = 0
  BY <1>1
<1>3. NoMode \in ModeType /\ \A n \in 1..N : modes[n] # NoMode
  BY <1>1 DEF NoMode, ModeType
<1>4. best = Start \/ \E n \in 1..N : best.mode = modes[n]
  <2>1. N \in 0..Len(modes)
    BY <1>1
  <2>. HIDE DEF N
  <2>. QED  BY <2>1, BestRange DEF N
<1>5. Start.mode = NoMode
  BY DEF Start
<1>6. CASE Forced
  <2>1. FindMode(modes) = forced
    BY <1>6 DEF FindMode
  <2>2. /\ forced \in ModeType /\ forced.h # -1
        /\ forced.refresh = ForcedRate
    <3>1. Resolution.x \in Int /\ Resolution.y \in Int /\ forceMode.rate \in Int \ {0}
      BY <1>6, ResolutionType
    <3>2. RoundToCell(Resolution.x) \in Int
      BY <3>1 DEF RoundToCell
    <3>3. \A n \in Int : StoreShort(n) \in Nat
      BY WidthAssumption DEF StoreShort
    <3>. QED  BY <3>1, <3>2, <3>3 DEF GenerateMode, ModeType, ForcedRate
  <2>3. forced # NoMode
    BY <2>2 DEF NoMode
  <2>. QED  BY <1>6, <2>1, <2>2, <2>3 DEF Fits
<1>7. CASE ~Forced /\ modes = <<>>
  <2>1. best.mode = NoMode
    BY <1>2, <1>4, <1>5, <1>7
  <2>2. FindMode(modes) = best.mode
    BY <1>7 DEF FindMode, ClosestMode
  <2>. QED  BY <1>3, <1>7, <2>1, <2>2
<1>8. CASE ~Forced /\ modes # <<>>
  <2>1. 1 \in 1..N
    BY <1>1, <1>2, <1>8
  <2>2. FindMode(modes) = IF best.mode = NoMode THEN modes[1] ELSE best.mode
    BY <1>8 DEF FindMode, ClosestMode
  <2>. HIDE DEF N, best, P
  <2>3. \E n \in 1..N : FindMode(modes) = modes[n]
    BY <1>4, <1>5, <2>1, <2>2
  <2>4. FindMode(modes) \in ModeType /\ FindMode(modes) # NoMode
    BY <1>1, <1>3, <2>3
  <2>5. ASSUME Sized, \A n \in DOMAIN modes : Span(modes[n]) < IntMax
        PROVE  \E n \in DOMAIN modes :
                  /\ FindMode(modes) = modes[n]
                  /\ \A k \in DOMAIN modes : Span(modes[n]) <= Span(modes[k])
                  /\ \A k \in 1..(n - 1) : Span(modes[n]) < Span(modes[k])
    <3>1. PICK n \in DOMAIN modes :
                  /\ best.mode = modes[n]
                  /\ \A k \in DOMAIN modes : Span(modes[n]) <= Span(modes[k])
                  /\ \A k \in 1..(n - 1) : Span(modes[n]) < Span(modes[k])
      BY <1>8, <2>5, BestNearest DEF best, N
    <3>2. FindMode(modes) = modes[n]
      BY <1>1, <1>3, <2>2, <3>1
    <3>. QED  BY <3>1, <3>2, Zenon
  <2>6. ASSUME ~Sized
        PROVE  FindMode(modes) = modes[IF P = {} THEN 1 ELSE Min(P)]
    <3>1. best = IF P = {} THEN Start ELSE [mode |-> modes[Min(P)], dist |-> 0]
      BY <2>6, BestPreferred DEF best, N, P
    <3>2. CASE P = {}
      BY <1>5, <2>2, <3>1, <3>2
    <3>3. CASE P # {}
      <4>1. P \subseteq Nat /\ P \subseteq 1..N
        BY <1>1 DEF P
      <4>2. Min(P) \in 1..N
        BY <3>3, <4>1, LeastNumber
      <4>. QED  BY <1>3, <2>2, <3>1, <3>3, <4>2
    <3>. QED  BY <3>2, <3>3
  <2>7. Fits(FindMode(modes), modes)
    BY <1>1, <1>8, <2>3, <2>5, <2>6 DEF Fits, P
  <2>. QED  BY <1>8, <2>4, <2>7
<1>. QED  BY <1>6, <1>7, <1>8

\* What is set up, when nothing was yet, for a connector that has modes or not.
LEMMA SetUp ==
  ASSUME Types, output = NoOutput, used_crtcs \subseteq {CrtcCount + 1},
         NEW c \in Connectors, InitWithConnector(c)
  PROVE  /\ output' \in Outputs \cup {NoOutput}
         /\ used_crtcs' \subseteq 1..CrtcCount + 1
         /\ Works(c) <=> Drivable(c)
         /\ Drivable(c) => /\ output' # NoOutput
                           /\ output'.connector = c
                           /\ output'.crtc = Min(connectors[c].encoder)
                           /\ output'.mode = FindMode(Modes(c))
         /\ ~Drivable(c) => output' = NoOutput /\ used_crtcs' \subseteq {CrtcCount + 1}
         /\ ~NullMode(c) /\ Drivable(c) => Fits(output'.mode, connectors[c].modes)
         /\ NullMode(c) => ~Forced /\ Modes(c) = <<>>
<1>1. CrtcCount \in Nat /\ c \in 1..MaxConnectors
  BY CrtcAssumption, ConnectorFacts
<1>2. /\ Works(c) <=> Drivable(c)
      /\ Works(c) => FreeCrtc(c) \in 1..CrtcCount /\ FreeCrtc(c) = Min(connectors[c].encoder)
      /\ connectors[c].encoder # NoEncoder /\ ~Works(c) => FreeCrtc(c) = CrtcCount + 1
  BY FreeCrtcFacts
<1>3. Modes(c) \in Lists /\ connectors[c].modes \in Lists /\ Modes(c) \in {<<>>, connectors[c].modes}
  BY ConnectorFacts DEF Modes
<1>4. Requests
  BY DEF Types
<1>5. /\ FindMode(Modes(c)) \in ModeType
      /\ FindMode(Modes(c)) = NoMode <=> ~Forced /\ Modes(c) = <<>>
      /\ Forced \/ Modes(c) # <<>> => Fits(FindMode(Modes(c)), Modes(c))
  BY <1>3, <1>4, FindModeFits
<1>6. /\ used_crtcs' = IF connectors[c].encoder = NoEncoder THEN used_crtcs
                       ELSE used_crtcs \cup {FreeCrtc(c)}
      /\ output' = IF Works(c)
                   THEN [connector |-> c, crtc |-> FreeCrtc(c), mode |-> FindMode(Modes(c))]
                   ELSE output
  BY DEF InitWithConnector
<1>7. NullMode(c) <=> Works(c) /\ FindMode(Modes(c)) = NoMode
  BY DEF NullMode
<1>8. ASSUME FindMode(Modes(c)) # NoMode
      PROVE  Fits(FindMode(Modes(c)), connectors[c].modes)
  <2>1. CASE Modes(c) = connectors[c].modes
    BY <1>5, <1>8, <2>1
  <2>2. CASE Forced
    BY <1>5, <2>2 DEF Fits
  <2>. QED  BY <1>3, <1>5, <1>8, <2>1, <2>2
<1>. HIDE DEF Fits
<1>9. ASSUME Drivable(c)
      PROVE  output' = [connector |-> c, crtc |-> Min(connectors[c].encoder), mode |-> FindMode(Modes(c))]
             /\ output' \in Outputs /\ output' # NoOutput
             /\ used_crtcs' \subseteq 1..CrtcCount + 1
  <2>1. output' = [connector |-> c, crtc |-> Min(connectors[c].encoder), mode |-> FindMode(Modes(c))]
    BY <1>2, <1>6, <1>9
  <2>2. output' \in Outputs
    BY <1>1, <1>2, <1>5, <1>9, <2>1 DEF Outputs
  <2>3. used_crtcs' \subseteq 1..CrtcCount + 1
    <3>1. used_crtcs' = used_crtcs \cup {FreeCrtc(c)}
      BY <1>6, <1>9 DEF Drivable
    <3>2. FreeCrtc(c) \in 1..CrtcCount + 1
      BY <1>1, <1>2, <1>9
    <3>3. {CrtcCount + 1} \subseteq 1..CrtcCount + 1
      BY <1>1
    <3>. QED  BY <3>1, <3>2, <3>3
  <2>. QED  BY <2>1, <2>2, <2>3, OutputAssumption
<1>10. ASSUME ~Drivable(c)
       PROVE  output' = NoOutput /\ used_crtcs' \subseteq {CrtcCount + 1}
  BY <1>2, <1>6, <1>10
<1>11. {CrtcCount + 1} \subseteq 1..CrtcCount + 1
  BY <1>1
<1>. QED  BY <1>2, <1>5, <1>7, <1>8, <1>9, <1>10, <1>11

-----------------------------------------------------------------------------
(* The initial states and the steps.                                       *)

LEMMA InitInv == Init => Inv
<1>. SUFFICES ASSUME Init PROVE Inv
  OBVIOUS
<1>1. PICK n \in 0..MaxConnectors : connectors \in [1..n -> ConnectorType]
  <2>1. connectors \in UNION {[1..n -> ConnectorType] : n \in 0..MaxConnectors}
    BY DEF Init
  <2>. QED  BY <2>1
<1>2. Len(connectors) = n /\ n \in Nat
  <2>1. n \in Nat
    BY CrtcAssumption
  <2>. QED  BY <1>1, <2>1, SeqDef, LenProperties
<1>3. Types
  BY <1>1, <1>2, CrtcAssumption, RateAssumption, WidthAssumption DEF Init, Types, Requests
<1>4. Connectors = 1..n
  BY <1>1 DEF Connectors
<1>5. Kernel /\ Unassigned /\ LastProbed /\ Established /\ ConnectorChoice /\ CrashOnlyEnforced
  BY DEF Init, Kernel, Unassigned, LastProbed, Established, ConnectorChoice, CrashOnlyEnforced
<1>6. PassedOver
  <2>1. \A c \in Connectors : ~(c < i)
    BY <1>2, <1>4 DEF Init
  <2>. QED  BY <2>1 DEF Init, PassedOver, Connected
<1>. QED  BY <1>3, <1>5, <1>6 DEF Inv

\* Before the steps that set up an output, the connector to set up is the reference choice.
LEMMA ReferenceFound ==
  ASSUME Types, NEW c \in Connectors, connectors[c].probe
  PROVE  /\ (/\ connection[c] = "connected" /\ connectors[c].hdmi
             /\ \A k \in Connected : k < c => ~connectors[k].hdmi) => Reference = c
         /\ (/\ ~active0 /\ connection[c] = "connected" /\ Drivable(c)
             /\ \A k \in Connected : ~connectors[k].hdmi /\ (k < c => ~Drivable(k))) => Reference = c
         /\ (/\ ~active0
             /\ \A k \in Connected : ~connectors[k].hdmi /\ ~Drivable(k)
             /\ \A k \in Connectors : connectors[k].probe => k <= c) => Reference = c
<1>. DEFINE hdmi == {k \in Connected : connectors[k].hdmi}
            good == {k \in Connected : Drivable(k)}
            all == {k \in Connectors : connectors[k].probe}
<1>1. Connectors \subseteq Nat /\ c \in Nat /\ c # 0
  BY ConnectorFacts
<1>2. hdmi \subseteq Nat /\ good \subseteq Nat /\ all \subseteq Nat
  BY <1>1 DEF Connected
<1>3. Reference = IF hdmi # {} THEN Min(hdmi)
                  ELSE IF active0 \/ all = {} THEN 0
                  ELSE IF good # {} THEN Min(good) ELSE Max(all)
  BY DEF Reference
<1>4. ASSUME NEW T \in SUBSET Nat, c \in T, \A k \in T : ~(k < c)
      PROVE  Min(T) = c
  <2>1. Min(T) \in T /\ \A k \in T : Min(T) <= k
    BY <1>4, LeastNumber
  <2>2. Min(T) \in Nat /\ Min(T) <= c /\ ~(Min(T) < c)
    BY <1>4, <2>1
  <2>. QED  BY <1>1, <2>2
<1>5. c \in all
  OBVIOUS
<1>6. (/\ connection[c] = "connected" /\ connectors[c].hdmi
       /\ \A k \in Connected : k < c => ~connectors[k].hdmi) => Reference = c
  <2>. HAVE /\ connection[c] = "connected" /\ connectors[c].hdmi
            /\ \A k \in Connected : k < c => ~connectors[k].hdmi
  <2>1. c \in hdmi /\ \A k \in hdmi : ~(k < c)
    BY DEF Connected
  <2>. HIDE DEF hdmi
  <2>. QED  BY <1>2, <1>3, <1>4, <2>1
<1>7. (/\ ~active0 /\ connection[c] = "connected" /\ Drivable(c)
       /\ \A k \in Connected : ~connectors[k].hdmi /\ (k < c => ~Drivable(k))) => Reference = c
  <2>. HAVE /\ ~active0 /\ connection[c] = "connected" /\ Drivable(c)
            /\ \A k \in Connected : ~connectors[k].hdmi /\ (k < c => ~Drivable(k))
  <2>1. c \in good /\ \A k \in good : ~(k < c)
    BY DEF Connected
  <2>2. hdmi = {}
    OBVIOUS
  <2>. HIDE DEF hdmi, good, all
  <2>. QED  BY <1>2, <1>3, <1>4, <1>5, <2>1, <2>2
<1>8. (/\ ~active0
       /\ \A k \in Connected : ~connectors[k].hdmi /\ ~Drivable(k)
       /\ \A k \in Connectors : connectors[k].probe => k <= c) => Reference = c
  <2>. HAVE /\ ~active0
            /\ \A k \in Connected : ~connectors[k].hdmi /\ ~Drivable(k)
            /\ \A k \in Connectors : connectors[k].probe => k <= c
  <2>1. hdmi = {} /\ good = {}
    OBVIOUS
  <2>2. \A k \in all : k \in Nat /\ k <= c
    BY <1>2
  <2>. HIDE DEF hdmi, good, all
  <2>3. Max(all) = c
    <3>1. c \in all /\ \A k \in all : c >= k
      BY <1>1, <1>5, <2>2
    <3>2. Max(all) \in all /\ \A k \in all : Max(all) >= k
      BY <3>1 DEF Max
    <3>3. Max(all) \in Nat /\ Max(all) <= c /\ Max(all) >= c
      BY <2>2, <3>1, <3>2
    <3>. QED  BY <1>1, <3>3
  <2>. QED  BY <1>3, <1>5, <2>1, <2>3
<1>. QED  BY <1>6, <1>7, <1>8

LEMMA PlugInv ==
  ASSUME Inv, Plug
  PROVE  Inv'
<1>. USE DEF Inv, Plug, config
<1>1. PICK c \in Connectors, state \in States :
          MayBe(connectors[c], state) /\ connection' = [connection EXCEPT ![c] = state]
  OBVIOUS
<1>2. Types'
  <2>1. connection' \in [Connectors -> States]
    BY <1>1 DEF Types
  <2>2. plugs' \in 0..MaxPlugs
    BY WidthAssumption DEF Types
  <2>. QED  BY <2>1, <2>2 DEF Types, Requests, Connectors
<1>3. Kernel'
  BY <1>1 DEF Kernel, MayBe, Connectors, Types
<1>4. plugs' # 0 /\ pc' \notin {"ready", "crashed", "done"}
  BY DEF Types
<1>5. (Unassigned /\ LastProbed)'
  BY DEF Unassigned, LastProbed, Connectors
<1>6. (PassedOver /\ Established /\ ConnectorChoice /\ CrashOnlyEnforced)'
  BY <1>4 DEF PassedOver, Established, ConnectorChoice, CrashOnlyEnforced
<1>. QED  BY <1>2, <1>3, <1>5, <1>6

LEMMA SetupFailsInv ==
  ASSUME Inv, SetupFails
  PROVE  Inv'
<1>. USE DEF Inv, SetupFails, config
<1>1. Types' /\ Kernel'
  BY DEF Types, Kernel, Requests, Connectors, MayBe
<1>2. (Unassigned /\ LastProbed /\ PassedOver /\ Established /\ ConnectorChoice /\ CrashOnlyEnforced)'
  BY DEF Unassigned, LastProbed, PassedOver, Established, ConnectorChoice, CrashOnlyEnforced
<1>. QED  BY <1>1, <1>2

LEMMA ConstructInv ==
  ASSUME Inv, Construct
  PROVE  Inv'
<1>. USE DEF Inv, Construct, config
<1>1. fps' \in Int
  <2>1. CASE output = NoOutput
    BY <2>1, RateAssumption
  <2>2. CASE output # NoOutput
    BY <2>2 DEF Types, Outputs, ModeType
  <2>. QED  BY <2>1, <2>2
<1>2. Types' /\ Kernel'
  BY <1>1 DEF Types, Kernel, Requests, Connectors, MayBe
<1>3. (Unassigned /\ LastProbed /\ PassedOver /\ ConnectorChoice /\ CrashOnlyEnforced)'
  BY DEF Unassigned, LastProbed, PassedOver, ConnectorChoice, CrashOnlyEnforced
<1>4. Established'
  <2>1. output # NoOutput => fps' = output.mode.refresh
    OBVIOUS
  <2>2. output # NoOutput => output.connector \in Connectors
                               /\ Fits(output.mode, connectors[output.connector].modes)
    BY DEF Established
  <2>3. output # NoOutput => Fits(output.mode, connectors[output.connector].modes)'
    <3>1. ForcedRate' = ForcedRate /\ Forced' = Forced /\ Sized' = Sized /\ Resolution' = Resolution
      BY DEF ForcedRate, Forced, Sized, Resolution
    <3>. QED  BY <2>2, <3>1 DEF Fits, Span
  <2>. QED  BY <2>1, <2>2, <2>3 DEF Established, Connectors
<1>. QED  BY <1>2, <1>3, <1>4

\* What the steps that probe connectors have in common.
LEMMA ProbeFrame ==
  ASSUME Inv, UNCHANGED <<config, connection, fps, plugs>>,
         active' \in BOOLEAN,
         output' \in Outputs \cup {NoOutput},
         used_crtcs' \subseteq 1..CrtcCount + 1,
         lastValidConnectorIndex' \in {0} \cup Connectors,
         i' \in 1..Len(connectors) + 1,
         pc' \in {"fetch", "scan", "enforce", "ready", "failed", "crashed", "lost"}
  PROVE  /\ Types' /\ Kernel'
         /\ Connectors' = Connectors /\ Connected' = Connected /\ Reference' = Reference
         /\ \A c \in Connectors : Drivable(c)' = Drivable(c)
         /\ Forced' = Forced
<1>1. Types' /\ Kernel'
  BY DEF Inv, Types, Kernel, Requests, Connectors, MayBe, config
<1>2. Connectors' = Connectors /\ Connected' = Connected /\ Forced' = Forced
  BY DEF Connectors, Connected, Forced, config
<1>3. \A c \in Connectors : Drivable(c)' = Drivable(c)
  BY DEF Drivable, config
<1>4. Reference' = Reference
  BY DEF Reference, Connected, Connectors, Drivable, config
<1>. QED  BY <1>1, <1>2, <1>3, <1>4

\* A step that sets up the connector c ends the search, or passes c over.
LEMMA SetUpInv ==
  ASSUME Inv, NEW c \in Connectors,
         pc \in {"fetch", "scan", "enforce"},
         InitWithConnector(c),
         UNCHANGED <<config, connection, fps, plugs>>,
         pc' = IF NullMode(c) THEN "crashed" ELSE "ready",
         active' \in BOOLEAN,
         lastValidConnectorIndex' \in {0} \cup Connectors,
         i' \in 1..Len(connectors) + 1,
         plugs = 0 => Reference = c,
         connection[c] = "connected" \/ \A k \in Connected : plugs = 0 => ~Drivable(k)
  PROVE  Inv'
<1>. USE DEF Inv
<1>1. /\ output = NoOutput /\ used_crtcs \subseteq {CrtcCount + 1}
      /\ Connectors = 1..Len(connectors)
  BY ConnectorFacts DEF Unassigned
<1>2. /\ output' \in Outputs \cup {NoOutput}
      /\ used_crtcs' \subseteq 1..CrtcCount + 1
      /\ Works(c) <=> Drivable(c)
      /\ Drivable(c) => /\ output' # NoOutput
                        /\ output'.connector = c
                        /\ output'.crtc = Min(connectors[c].encoder)
                        /\ output'.mode = FindMode(Modes(c))
      /\ ~Drivable(c) => output' = NoOutput /\ used_crtcs' \subseteq {CrtcCount + 1}
      /\ ~NullMode(c) /\ Drivable(c) => Fits(output'.mode, connectors[c].modes)
      /\ NullMode(c) => ~Forced /\ Modes(c) = <<>>
  BY <1>1, SetUp
<1>3. pc' \in {"ready", "crashed"} /\ pc' \in {"fetch", "scan", "enforce", "ready", "failed", "crashed", "lost"}
  OBVIOUS
<1>. HIDE DEF Inv
<1>4. /\ Types' /\ Kernel'
      /\ Connectors' = Connectors /\ Connected' = Connected /\ Reference' = Reference
      /\ \A k \in Connectors : Drivable(k)' = Drivable(k)
      /\ Forced' = Forced
  BY <1>2, <1>3, ProbeFrame
<1>5. connectors' = connectors /\ plugs' = plugs
  BY DEF config
<1>6. (Unassigned /\ LastProbed /\ PassedOver)'
  BY <1>3 DEF Unassigned, LastProbed, PassedOver
<1>7. Established'
  <2>1. pc' # "done"
    BY <1>3
  <2>2. SUFFICES ASSUME pc' = "ready", output' # NoOutput
                 PROVE  output'.connector \in Connectors'
                        /\ Fits(output.mode, connectors[output.connector].modes)'
    BY <2>1 DEF Established
  <2>3. Drivable(c)
    BY <1>2, <2>2
  <2>4. ~NullMode(c)
    BY <2>2
  <2>5. output'.connector = c /\ Fits(output'.mode, connectors[c].modes)
    BY <1>2, <2>3, <2>4, Zenon
  <2>6. connectors'[output'.connector].modes = connectors[c].modes
    BY <1>5, <2>5
  <2>7. Fits(output.mode, connectors[output.connector].modes)'
    <3>1. ForcedRate' = ForcedRate /\ Forced' = Forced /\ Sized' = Sized /\ Resolution' = Resolution
      BY DEF ForcedRate, Forced, Sized, Resolution, config
    <3>. QED  BY <2>5, <2>6, <3>1 DEF Fits, Span
  <2>. QED  BY <1>4, <2>5, <2>7
<1>8. ConnectorChoice'
  <2>1. CASE plugs' # 0
    BY <2>1 DEF ConnectorChoice
  <2>2. CASE plugs' = 0
    <3>1. Reference' = c /\ c # 0
      BY <1>1, <1>4, <1>5, <2>2, ConnectorFacts DEF Inv
    <3>2. CASE Drivable(c)
      <4>1. /\ Drivable(Reference)'
            /\ output' # NoOutput
            /\ output'.connector = Reference'
            /\ output'.crtc = Min(connectors[Reference].encoder)'
        BY <1>2, <1>4, <1>5, <3>1, <3>2 DEF Drivable
      <4>. QED  BY <3>1, <4>1 DEF ConnectorChoice
    <3>3. CASE ~Drivable(c)
      <4>1. ~Drivable(Reference)' /\ output' = NoOutput
        BY <1>2, <1>4, <1>5, <3>1, <3>3 DEF Drivable
      <4>. QED  BY <4>1 DEF ConnectorChoice
    <3>. QED  BY <3>2, <3>3
  <2>. QED  BY <2>1, <2>2
<1>9. CrashOnlyEnforced'
  <2>1. CASE pc' # "crashed"
    BY <1>3, <2>1 DEF CrashOnlyEnforced
  <2>2. CASE NullMode(c)
    <3>1. ~Forced' /\ Modes(c) = <<>>
      BY <1>2, <1>4, <2>2
    <3>2. connection[c] # "connected"
      <4>1. connection[c] = "connected" => Modes(c) # <<>>
        BY DEF Inv, Kernel, MayBe, Modes
      <4>. QED  BY <3>1, <4>1
    <3>3. \A k \in Connected' : plugs' = 0 => ~Drivable(k)'
      BY <1>4, <1>5, <3>2 DEF Connected
    <3>. QED  BY <3>1, <3>3 DEF CrashOnlyEnforced
  <2>. QED  BY <2>1, <2>2
<1>. QED  BY <1>4, <1>6, <1>7, <1>8, <1>9 DEF Inv

LEMMA FetchConnectorInv ==
  ASSUME Inv, FetchConnector
  PROVE  Inv'
<1>1. /\ pc = "fetch" /\ output = NoOutput /\ used_crtcs = {} /\ active = active0
      /\ lastValidConnectorIndex = 0
      /\ UNCHANGED <<config, connection, lastValidConnectorIndex, fps, plugs>>
  BY DEF Inv, FetchConnector, Unassigned
<1>2. /\ Len(connectors) \in Nat /\ Connectors = 1..Len(connectors) /\ i \in 1..Len(connectors) + 1
      /\ active \in BOOLEAN
  BY ConnectorFacts DEF Inv, Types
<1>3. CASE i \notin Connectors
  <2>1. /\ i = Len(connectors) + 1
        /\ pc' = (IF active THEN "ready" ELSE "scan") /\ i' = 1
        /\ UNCHANGED <<active, output, used_crtcs>>
    BY <1>2, <1>3 DEF FetchConnector
  <2>2. plugs = 0 => \A c \in Connected : ~connectors[c].hdmi
    BY <1>1, <1>2, <2>1 DEF Inv, PassedOver, Connected
  <2>3. plugs = 0 /\ active => Reference = 0
    BY <1>1, <2>2 DEF Reference
  <2>4. /\ Types' /\ Kernel'
        /\ Connectors' = Connectors /\ Connected' = Connected /\ Reference' = Reference
    <3>1. /\ i' \in 1..Len(connectors) + 1
          /\ pc' \in {"fetch", "scan", "enforce", "ready", "failed", "crashed", "lost"}
      BY <1>2, <2>1
    <3>2. /\ output' \in Outputs \cup {NoOutput} /\ used_crtcs' \subseteq 1..CrtcCount + 1
          /\ lastValidConnectorIndex' \in {0} \cup Connectors /\ active' \in BOOLEAN
      BY <1>1, <1>2, <2>1
    <3>. QED  BY <1>1, <3>1, <3>2, ProbeFrame
  <2>5. (Unassigned /\ Established /\ CrashOnlyEnforced)'
    BY <1>1, <1>2, <2>1 DEF Unassigned, Established, CrashOnlyEnforced, config
  <2>6. (LastProbed /\ PassedOver)'
    <3>1. connectors' = connectors /\ plugs' = plugs /\ lastValidConnectorIndex' = 0
      BY <1>1 DEF config
    <3>2. \A c \in Connectors : ~(c < i')
      BY <1>2, <2>1
    <3>3. pc' # "enforce" /\ pc' # "fetch"
      BY <2>1
    <3>4. LastProbed'
      BY <2>4, <3>1, <3>2, <3>3 DEF LastProbed
    <3>5. \A c \in Connected : c \in Connectors
      BY DEF Connected
    <3>6. PassedOver'
      BY <2>2, <2>4, <3>1, <3>2, <3>3, <3>5 DEF PassedOver
    <3>. QED  BY <3>4, <3>6
  <2>7. ConnectorChoice'
    <3>1. CASE pc' # "ready"
      BY <2>1, <3>1 DEF ConnectorChoice
    <3>2. CASE pc' = "ready"
      <4>1. active /\ output' = NoOutput /\ plugs' = plugs
        BY <1>1, <2>1, <3>2
      <4>2. plugs' = 0 => Reference' = 0
        BY <2>3, <2>4, <4>1
      <4>. QED  BY <4>1, <4>2 DEF ConnectorChoice
    <3>. QED  BY <3>1, <3>2
  <2>. QED  BY <2>4, <2>5, <2>6, <2>7 DEF Inv
<1>4. CASE i \in Connectors /\ connectors[i].probe /\ connectors[i].hdmi /\ connection[i] = "connected"
  <2>1. /\ InitWithConnector(i) /\ active' = TRUE /\ i' = i
        /\ pc' = IF NullMode(i) THEN "crashed" ELSE "ready"
    BY <1>4 DEF FetchConnector
  <2>2. plugs = 0 => \A k \in Connected : k < i => ~connectors[k].hdmi
    BY <1>1 DEF Inv, PassedOver
  <2>3. plugs = 0 => Reference = i
    BY <1>4, <2>2, ReferenceFound DEF Inv
  <2>4. lastValidConnectorIndex' \in {0} \cup Connectors
    BY <1>1
  <2>. QED  BY <1>1, <1>2, <1>4, <2>1, <2>3, <2>4, SetUpInv
<1>5. CASE i \in Connectors /\ ~(connectors[i].probe /\ connectors[i].hdmi /\ connection[i] = "connected")
  <2>1. i' = i + 1 /\ UNCHANGED <<active, output, used_crtcs, pc>>
    BY <1>5 DEF FetchConnector
  <2>2. i' \in 1..Len(connectors) + 1
    BY <1>2, <1>5, <2>1
  <2>3. Types' /\ Kernel' /\ Connectors' = Connectors /\ Connected' = Connected
    <3>1. /\ output' \in Outputs \cup {NoOutput} /\ used_crtcs' \subseteq 1..CrtcCount + 1
          /\ lastValidConnectorIndex' \in {0} \cup Connectors /\ active' \in BOOLEAN
          /\ pc' \in {"fetch", "scan", "enforce", "ready", "failed", "crashed", "lost"}
      BY <1>1, <1>2, <2>1
    <3>. QED  BY <1>1, <2>2, <3>1, ProbeFrame
  <2>4. (Unassigned /\ LastProbed /\ Established /\ ConnectorChoice /\ CrashOnlyEnforced)'
    BY <1>1, <2>1 DEF Unassigned, LastProbed, Established, ConnectorChoice, CrashOnlyEnforced, config
  <2>5. PassedOver'
    <3>1. \A c \in Connected : c < i + 1 => c < i \/ c = i
      BY <1>2 DEF Connected
    <3>2. \A c \in Connected : c = i => ~connectors[c].hdmi
      BY <1>5 DEF Connected
    <3>3. plugs = 0 => \A c \in Connected : c < i + 1 => ~connectors[c].hdmi
      BY <1>1, <3>1, <3>2 DEF Inv, PassedOver
    <3>. QED  BY <1>1, <2>1, <2>3, <3>3 DEF PassedOver, config
  <2>. QED  BY <2>3, <2>4, <2>5 DEF Inv
<1>. QED  BY <1>3, <1>4, <1>5

LEMMA EnforceInv ==
  ASSUME Inv, Enforce
  PROVE  Inv'
<1>. DEFINE c == lastValidConnectorIndex
<1>1. /\ pc = "enforce" /\ ~active0 /\ output = NoOutput
      /\ UNCHANGED <<config, connection, active, lastValidConnectorIndex, i, fps, plugs>>
      /\ \/ InitWithConnector(c) /\ pc' = IF NullMode(c) THEN "crashed" ELSE "ready"
         \/ pc' = "lost" /\ UNCHANGED <<output, used_crtcs>>
  BY DEF Inv, Enforce, Unassigned
<1>2. /\ Len(connectors) \in Nat /\ Connectors = 1..Len(connectors) /\ i \in 1..Len(connectors) + 1
      /\ active \in BOOLEAN /\ c \in {0} \cup Connectors
  BY ConnectorFacts DEF Inv, Types
<1>3. /\ i = Len(connectors) + 1 /\ c \in Connectors /\ connectors[c].probe
      /\ \A k \in Connectors : connectors[k].probe => k <= c
  <2>1. i = Len(connectors) + 1 /\ c \in Connectors
    BY <1>1, <1>2 DEF Inv, LastProbed
  <2>2. \A k \in Connectors : k < i
    BY <1>2, <2>1
  <2>. QED  BY <1>1, <1>2, <2>1, <2>2 DEF Inv, LastProbed
<1>4. plugs = 0 => \A k \in Connected : ~connectors[k].hdmi /\ ~Drivable(k)
  BY <1>1, <1>2, <1>3 DEF Inv, PassedOver, Connected
<1>. HIDE DEF c
<1>5. plugs = 0 => Reference = c
  BY <1>1, <1>3, <1>4, ReferenceFound DEF Inv
<1>6. \A k \in Connected : plugs = 0 => ~Drivable(k)
  BY <1>4
<1>7. active' \in BOOLEAN /\ lastValidConnectorIndex' \in {0} \cup Connectors /\ i' \in 1..Len(connectors) + 1
  BY <1>1, <1>2 DEF c
<1>8. CASE pc' = "lost" /\ UNCHANGED <<output, used_crtcs>>
  <2>1. /\ Types' /\ Kernel' /\ Connected' = Connected
        /\ \A k \in Connectors : Drivable(k)' = Drivable(k)
    BY <1>1, <1>7, <1>8, ProbeFrame DEF Inv, Types
  <2>2. (Unassigned /\ LastProbed /\ PassedOver /\ Established /\ ConnectorChoice)'
    BY <1>8 DEF Unassigned, LastProbed, PassedOver, Established, ConnectorChoice
  <2>3. CrashOnlyEnforced'
    BY <1>1, <1>6, <1>8, <2>1 DEF CrashOnlyEnforced, Connected
  <2>. QED  BY <2>1, <2>2, <2>3 DEF Inv
<1>. QED  BY <1>1, <1>3, <1>5, <1>6, <1>7, <1>8, SetUpInv

LEMMA ScanConnectorInv ==
  ASSUME Inv, ScanConnector
  PROVE  Inv'
<1>1. /\ pc = "scan" /\ output = NoOutput /\ used_crtcs \subseteq {CrtcCount + 1} /\ ~active0
      /\ UNCHANGED <<config, connection, active, fps, plugs>>
  BY DEF Inv, ScanConnector, Unassigned
<1>2. /\ Len(connectors) \in Nat /\ Connectors = 1..Len(connectors) /\ i \in 1..Len(connectors) + 1
      /\ active \in BOOLEAN /\ lastValidConnectorIndex \in {0} \cup Connectors
      /\ used_crtcs \subseteq 1..CrtcCount + 1
  BY ConnectorFacts DEF Inv, Types
<1>3. CASE i \notin Connectors
  <2>1. /\ i = Len(connectors) + 1 /\ i' = i
        /\ pc' = (IF lastValidConnectorIndex > 0 THEN "enforce" ELSE "failed")
        /\ UNCHANGED <<output, used_crtcs, lastValidConnectorIndex>>
    BY <1>2, <1>3 DEF ScanConnector
  <2>2. Types' /\ Kernel' /\ Connectors' = Connectors /\ Connected' = Connected
        /\ \A c \in Connectors : Drivable(c)' = Drivable(c)
    <3>1. /\ i' \in 1..Len(connectors) + 1
          /\ pc' \in {"fetch", "scan", "enforce", "ready", "failed", "crashed", "lost"}
          /\ output' \in Outputs \cup {NoOutput} /\ used_crtcs' \subseteq 1..CrtcCount + 1
          /\ lastValidConnectorIndex' \in {0} \cup Connectors /\ active' \in BOOLEAN
      BY <1>1, <1>2, <2>1
    <3>. QED  BY <1>1, <3>1, ProbeFrame
  <2>3. (Unassigned /\ LastProbed)'
    BY <1>1, <1>2, <2>1, <2>2 DEF Inv, Unassigned, LastProbed, config
  <2>4. PassedOver'
    <3>1. \A c \in Connected : c \in Connectors
      BY DEF Connected
    <3>. QED  BY <1>1, <2>1, <2>2, <3>1 DEF Inv, PassedOver, config
  <2>5. (Established /\ ConnectorChoice /\ CrashOnlyEnforced)'
    BY <2>1 DEF Established, ConnectorChoice, CrashOnlyEnforced
  <2>. QED  BY <2>2, <2>3, <2>4, <2>5 DEF Inv
<1>4. CASE i \in Connectors
  <2>1. /\ lastValidConnectorIndex' = (IF connectors[i].probe THEN i ELSE lastValidConnectorIndex)
        /\ i' = i + 1
        /\ IF connectors[i].probe /\ connection[i] = "connected"
           THEN /\ InitWithConnector(i)
                /\ pc' = (IF NullMode(i) THEN "crashed" ELSE IF Works(i) THEN "ready" ELSE pc)
           ELSE UNCHANGED <<output, used_crtcs, pc>>
    BY <1>4 DEF ScanConnector
  <2>2. /\ i' \in 1..Len(connectors) + 1 /\ active' \in BOOLEAN
        /\ lastValidConnectorIndex' \in {0} \cup Connectors
    BY <1>1, <1>2, <1>4, <2>1
  <2>3. Works(i) <=> Drivable(i)
    BY <1>1, <1>4, FreeCrtcFacts DEF Inv
  <2>4. CASE connectors[i].probe /\ connection[i] = "connected" /\ Drivable(i)
    <3>1. InitWithConnector(i) /\ pc' = IF NullMode(i) THEN "crashed" ELSE "ready"
      BY <2>1, <2>3, <2>4
    <3>2. plugs = 0 => \A k \in Connected : ~connectors[k].hdmi /\ (k < i => ~Drivable(k))
      BY <1>1 DEF Inv, PassedOver
    <3>3. plugs = 0 => Reference = i
      BY <1>1, <1>4, <2>4, <3>2, ReferenceFound DEF Inv
    <3>. QED  BY <1>1, <1>4, <2>2, <2>4, <3>1, <3>3, SetUpInv
  <2>5. CASE ~(connectors[i].probe /\ connection[i] = "connected" /\ Drivable(i))
    <3>1. output' = NoOutput /\ used_crtcs' \subseteq {CrtcCount + 1} /\ pc' = "scan"
      <4>1. CASE connectors[i].probe /\ connection[i] = "connected"
        <5>1. InitWithConnector(i) /\ ~Works(i)
          BY <2>1, <2>3, <2>5, <4>1
        <5>2. output' = NoOutput /\ used_crtcs' \subseteq {CrtcCount + 1}
          BY <1>1, <1>4, <2>3, <5>1, SetUp DEF Inv
        <5>. QED  BY <1>1, <2>1, <4>1, <5>1, <5>2 DEF NullMode
      <4>2. CASE ~(connectors[i].probe /\ connection[i] = "connected")
        BY <1>1, <2>1, <4>2
      <4>. QED  BY <4>1, <4>2
    <3>2. used_crtcs' \subseteq 1..CrtcCount + 1
      BY <3>1, CrtcAssumption
    <3>3. Types' /\ Kernel' /\ Connectors' = Connectors /\ Connected' = Connected
          /\ \A c \in Connectors : Drivable(c)' = Drivable(c)
      <4>1. pc' \in {"fetch", "scan", "enforce", "ready", "failed", "crashed", "lost"}
            /\ output' \in Outputs \cup {NoOutput}
        BY <3>1
      <4>. QED  BY <1>1, <2>2, <3>2, <4>1, ProbeFrame
    <3>4. (Unassigned /\ Established /\ ConnectorChoice /\ CrashOnlyEnforced)'
      BY <1>1, <3>1 DEF Unassigned, Established, ConnectorChoice, CrashOnlyEnforced, config
    <3>5. LastProbed'
      <4>1. \A c \in Connectors : c < i + 1 => c < i \/ c = i
        BY <1>2
      <4>2. \A c \in Connectors : c < i /\ connectors[c].probe => c <= lastValidConnectorIndex
        BY <1>1 DEF Inv, LastProbed
      <4>3. \A c \in Connectors : c < i + 1 /\ connectors[c].probe => c <= lastValidConnectorIndex'
        BY <1>2, <2>1, <4>1, <4>2
      <4>4. lastValidConnectorIndex' # 0 => connectors[lastValidConnectorIndex'].probe
        BY <1>1, <2>1 DEF Inv, LastProbed
      <4>. QED  BY <1>1, <2>1, <3>1, <3>3, <4>3, <4>4 DEF LastProbed, config
    <3>6. PassedOver'
      <4>1. \A c \in Connected : c \in Connectors /\ (c < i + 1 => c < i \/ c = i)
        BY <1>2 DEF Connected
      <4>2. \A c \in Connected : c = i => ~Drivable(c)
        BY <2>5 DEF Connected
      <4>3. plugs = 0 => \A c \in Connected : ~connectors[c].hdmi /\ (c < i + 1 => ~Drivable(c))
        BY <1>1, <4>1, <4>2 DEF Inv, PassedOver
      <4>. QED  BY <1>1, <2>1, <3>1, <3>3, <4>1, <4>3 DEF PassedOver, config
    <3>. QED  BY <3>3, <3>4, <3>5, <3>6 DEF Inv
  <2>. QED  BY <2>4, <2>5
<1>. QED  BY <1>3, <1>4

LEMMA StutterInv ==
  ASSUME Inv, UNCHANGED vars
  PROVE  Inv'
<1>1. Types' /\ Kernel'
  BY DEF Inv, Types, Kernel, Requests, Connectors, MayBe, vars, config
<1>2. (Unassigned /\ LastProbed /\ PassedOver)'
  BY DEF Inv, Unassigned, LastProbed, PassedOver, Connectors, Connected, Drivable, vars, config
<1>3. Established'
  <2>1. ForcedRate' = ForcedRate /\ Forced' = Forced /\ Sized' = Sized /\ Resolution' = Resolution
    BY DEF ForcedRate, Forced, Sized, Resolution, vars, config
  <2>. QED  BY <2>1 DEF Inv, Established, Connectors, Fits, Span, vars, config
<1>4. ConnectorChoice'
  <2>1. Reference' = Reference
    BY DEF Reference, Connectors, Connected, Drivable, vars, config
  <2>2. /\ Drivable(Reference)' <=> Drivable(Reference)
        /\ connectors' = connectors /\ output' = output /\ pc' = pc /\ plugs' = plugs
    BY <2>1 DEF Drivable, vars, config
  <2>. QED  BY <2>1, <2>2 DEF Inv, ConnectorChoice
<1>5. CrashOnlyEnforced'
  BY DEF Inv, CrashOnlyEnforced, Connectors, Connected, Drivable, Forced, vars, config
<1>. QED  BY <1>1, <1>2, <1>3, <1>4, <1>5 DEF Inv

\* The inductive invariant: what the probes, the choices and the loops over connectors have
\* established at each point of init_kms.
THEOREM Invariant == Spec => []Inv
<1>1. Inv /\ [Next]_vars => Inv'
  BY PlugInv, SetupFailsInv, FetchConnectorInv, ScanConnectorInv, EnforceInv, ConstructInv, StutterInv
     DEF Next
<1>. QED  BY InitInv, <1>1, PTL DEF Spec

-----------------------------------------------------------------------------
(* The properties.                                                         *)

\* The variables keep their types, for any number of connectors and modes.
THEOREM TypeCorrect == Spec => []TypeOK
<1>1. Inv => TypeOK
  BY DEF Inv, Types, TypeOK, Requests, Connectors
<1>. QED  BY <1>1, Invariant, PTL

\* Whatever init_kms goes through, without plugging it settles for the connector of the
\* reference choice and the first CRTC of its encoder, or for none if it cannot be driven.
THEOREM ConnectorIsChosen == Spec => []ConnectorChoice
<1>1. Inv => ConnectorChoice
  BY DEF Inv
<1>. QED  BY <1>1, Invariant, PTL

\* A rate between 1 Hz and 1 GHz makes a period between 1 ns and a second.
LEMMA UsableRate ==
  ASSUME NEW rate \in 1..Second
  PROVE  VsyncPeriod(rate) \in 1..Second
<1>. DEFINE q == Second \div rate
<1>1. Second \in Nat /\ rate \in Nat /\ 1 <= rate /\ rate <= Second
  BY WidthAssumption
<1>2. q \in Int /\ rate * q <= Second /\ Second < rate * (q + 1)
  BY <1>1
<1>3. 1 <= q
  BY <1>1, <1>2
<1>4. q <= rate * q
  BY <1>1, <1>2, <1>3
<1>. QED  BY <1>1, <1>2, <1>3, <1>4 DEF VsyncPeriod

\* The mode that find_mode settles for is the first of the nearest, or the first
\* preferred one, or the first, for lists of any length and any plugging; and its
\* rate makes a usable period if the kernel or the forced mode gave a usable rate.
THEOREM ModeIsNearest == Spec => []NearestMode
<1>1. ASSUME Inv PROVE NearestMode
  <2>. DEFINE modes == connectors[output.connector].modes
  <2>1. ASSUME pc \in {"ready", "done"}, output # NoOutput
        PROVE  Fits(output.mode, modes) /\ (pc = "done" => fps = output.mode.refresh)
    BY <1>1, <2>1 DEF Inv, Established
  <2>2. ASSUME pc = "done", output # NoOutput, VsyncPeriod(fps) \notin 1..Second
        PROVE  \/ Forced /\ forceMode.rate \notin 1..Second
               \/ ~Forced /\ \E n \in DOMAIN modes :
                                output.mode = modes[n] /\ modes[n].refresh \notin 1..Second
    <3>1. output.mode.refresh \notin 1..Second
      BY <2>1, <2>2, UsableRate
    <3>. QED  BY <2>1, <2>2, <3>1 DEF Fits, ForcedRate
  <2>3. ASSUME pc = "ready", output # NoOutput, ~Forced, Sized,
               \A n \in DOMAIN modes : Span(modes[n]) < IntMax
        PROVE  \E n \in DOMAIN modes :
                  /\ output.mode = modes[n]
                  /\ \A k \in DOMAIN modes : Span(modes[n]) <= Span(modes[k])
                  /\ \A k \in 1..(n - 1) : Span(modes[n]) < Span(modes[k])
    BY <2>1, <2>3 DEF Fits
  <2>4. ASSUME pc = "ready", output # NoOutput, ~Forced, ~Sized
        PROVE  LET preferred == {n \in DOMAIN modes : modes[n].preferred}
               IN  output.mode = modes[IF preferred = {} THEN 1 ELSE Min(preferred)]
    BY <2>1, <2>4 DEF Fits
  <2>. QED  BY <2>2, <2>3, <2>4 DEF NearestMode, Span
<1>. QED  BY <1>1, Invariant, PTL

\* find_mode reads through a null pointer only for a connector that was enforced.
THEOREM CrashesOnlyEnforced == Spec => []CrashOnlyEnforced
<1>1. Inv => CrashOnlyEnforced
  BY DEF Inv
<1>. QED  BY <1>1, Invariant, PTL
=============================================================================
