----------------------------- MODULE GridProofs -----------------------------
(***************************************************************************)
(* What a move does to a board, for boards of any size: the lemmas about   *)
(* Grid2048 that the proofs about the game need.  The move visits the      *)
(* cells one after the other, so its facts are proved by induction over    *)
(* the cells visited.  The induction is stated for a set of numbers, and   *)
(* not for a predicate, which the provers could not instantiate.  The last *)
(* sections relate the move to the push of each line that it is meant to   *)
(* be: the order of the visits takes a line's cells one after the other,   *)
(* whatever happens to the other lines in between.                         *)
(***************************************************************************)
EXTENDS Grid2048, TLAPS, FiniteSetTheorems, FunctionTheorems, WellFoundedInduction

-----------------------------------------------------------------------------
(* Induction *)

(* A set of numbers with 0 and with the successor of each member has them all. *)
LEMMA SetInduction ==
  ASSUME NEW P \in SUBSET Nat, 0 \in P, \A n \in P : n + 1 \in P
  PROVE  P = Nat
  <1> DEFINE R == OpToRel(<, Nat)
             T == Nat \ P
  <1>1. IsWellFoundedOn(R, Nat)
    BY NatLessThanWellFounded, Zenon
  <1>2. \A x, y \in Nat : y < x => <<y, x>> \in R
    BY DEF OpToRel
  <1> HIDE DEF R
  <1>3. SUFFICES ASSUME T # {} PROVE FALSE
    OBVIOUS
  <1>4. PICK x \in T : \A y \in T : ~ (<<y, x>> \in R)
    BY <1>1, <1>3, WFMin
  <1>5. x # 0 /\ x - 1 \in Nat /\ x - 1 < x
    OBVIOUS
  <1>6. x - 1 \notin T
    BY <1>2, <1>4, <1>5
  <1>7. x - 1 + 1 \in P
    BY <1>5, <1>6
  <1> QED BY <1>4, <1>7

(* The same up to a bound. *)
LEMMA BoundedInduction ==
  ASSUME NEW n \in Nat, NEW P, 0 \in P, \A k \in 0 .. n - 1 : k \in P => k + 1 \in P
  PROVE  0 .. n \subseteq P
  <1> DEFINE Q == {k \in Nat : k <= n => k \in P}
  <1>1. 0 \in Q
    OBVIOUS
  <1>2. ASSUME NEW k \in Q PROVE k + 1 \in Q
    BY <1>2
  <1>3. Q = Nat
    <2> HIDE DEF Q
    <2>1. Q \subseteq Nat
      BY DEF Q
    <2> QED BY <1>1, <1>2, <2>1, SetInduction
  <1> QED BY <1>3

(* A stretch of numbers that begins in a set and ends outside leaves it
   somewhere. *)
LEMMA LeavesSomewhere ==
  ASSUME NEW a \in Int, NEW b \in Int, NEW P, a < b, (a \in P) # (b \in P)
  PROVE  \E k \in a .. b - 1 : (k \in P) # (k + 1 \in P)
  <1> SUFFICES ASSUME \A k \in a .. b - 1 : (k \in P) = (k + 1 \in P) PROVE FALSE
    OBVIOUS
  <1> DEFINE Q == {k \in Nat : (a + k \in P) = (a \in P)}
  <1>1. 0 \in Q
    OBVIOUS
  <1>2. ASSUME NEW k \in 0 .. b - a - 1, k \in Q PROVE k + 1 \in Q
    <2>1. a + k \in a .. b - 1 /\ a + (k + 1) = (a + k) + 1
      OBVIOUS
    <2> QED BY <1>2, <2>1
  <1>3. b - a \in Nat /\ b - a \in 0 .. b - a /\ a + (b - a) = b
    OBVIOUS
  <1>4. b - a \in Q
    <2> HIDE DEF Q
    <2> QED BY <1>1, <1>2, <1>3, BoundedInduction
  <1> QED BY <1>3, <1>4

-----------------------------------------------------------------------------
(* Powers of two *)

(* There are 2^n sets of the first n numbers. *)
LEMMA SubsetsOfNumbers ==
  ASSUME NEW n \in Nat
  PROVE  2^n \in Nat /\ IsFiniteSet(SUBSET (1 .. n)) /\ Cardinality(SUBSET (1 .. n)) = 2^n
  <1>1. IsFiniteSet(1 .. n) /\ Cardinality(1 .. n) = n
    BY FS_Interval
  <1>2. IsFiniteSet(SUBSET (1 .. n)) /\ Cardinality(SUBSET (1 .. n)) = 2^Cardinality(1 .. n)
    BY <1>1, FS_SUBSET
  <1>3. Cardinality(SUBSET (1 .. n)) \in Nat
    BY <1>2, FS_CardinalityType
  <1> QED BY <1>1, <1>2, <1>3

(* Each power is twice the one before: half of the sets have the new number. *)
LEMMA PowerDoubles ==
  ASSUME NEW n \in Nat
  PROVE  2^n \in Nat /\ 2^(n + 1) = 2 * 2^n
  <1> DEFINE A == SUBSET (1 .. n)
             B == {T \cup {n + 1} : T \in A}
             f == [T \in A |-> T \cup {n + 1}]
  <1>1. IsFiniteSet(A) /\ Cardinality(A) = 2^n /\ 2^n \in Nat
    BY SubsetsOfNumbers
  <1>2. Cardinality(SUBSET (1 .. n + 1)) = 2^(n + 1)
    <2>1. n + 1 \in Nat
      OBVIOUS
    <2> QED BY <2>1, SubsetsOfNumbers
  <1>3. f \in Bijection(A, B)
    <2>1. \A T \in A : f[T] = T \cup {n + 1} /\ n + 1 \notin T
      OBVIOUS
    <2>2. f \in [A -> B]
      OBVIOUS
    <2>3. \A S, T \in A : f[S] = f[T] => S = T
      <3> TAKE S, T \in A
      <3> HAVE f[S] = f[T]
      <3>1. S \cup {n + 1} = T \cup {n + 1} /\ n + 1 \notin S /\ n + 1 \notin T
        BY <2>1
      <3> QED BY <3>1
    <2>4. \A U \in B : \E T \in A : f[T] = U
      BY <2>1
    <2> HIDE DEF f, B, A
    <2> QED BY <2>2, <2>3, <2>4, Fun_IsBij
  <1>4. IsFiniteSet(B) /\ Cardinality(B) = Cardinality(A)
    BY <1>1, <1>3, FS_Bijection DEF ExistsBijection
  <1>5. SUBSET (1 .. n + 1) = A \cup B
    <2>1. ASSUME NEW T \in SUBSET (1 .. n + 1), n + 1 \in T PROVE T \in B
      <3>1. T \ {n + 1} \in A /\ T = (T \ {n + 1}) \cup {n + 1}
        BY <2>1
      <3> QED BY <3>1
    <2>2. ASSUME NEW T \in SUBSET (1 .. n + 1), n + 1 \notin T PROVE T \in A
      BY <2>2
    <2>3. A \subseteq SUBSET (1 .. n + 1)
      OBVIOUS
    <2>4. ASSUME NEW T \in A PROVE T \cup {n + 1} \in SUBSET (1 .. n + 1)
      OBVIOUS
    <2>5. B \subseteq SUBSET (1 .. n + 1)
      BY <2>4
    <2> HIDE DEF A, B
    <2> QED BY <2>1, <2>2, <2>3, <2>5
  <1>6. A \cap B = {}
    OBVIOUS
  <1> HIDE DEF A, B
  <1>7. Cardinality(A \cup B) = 2^n + 2^n
    BY <1>1, <1>4, <1>6, FS_Union, FS_EmptySet
  <1>8. 2^(n + 1) = 2^n + 2^n
    BY <1>2, <1>5, <1>7
  <1> QED BY <1>1, <1>8

(* No power of two is zero. *)
LEMMA PowerPositive == \A n \in Nat : 2^n \in Nat \ {0}
  <1> DEFINE P == {n \in Nat : 2^n # 0}
  <1>1. 0 \in P
    OBVIOUS
  <1>2. ASSUME NEW n \in P PROVE n + 1 \in P
    BY PowerDoubles
  <1>3. P = Nat
    <2> HIDE DEF P
    <2>1. P \subseteq Nat
      BY DEF P
    <2> QED BY <1>1, <1>2, <2>1, SetInduction
  <1> QED BY <1>3, PowerDoubles

(* The powers of two grow. *)
LEMMA PowersGrow ==
  ASSUME NEW i \in Nat, NEW j \in Nat, i < j
  PROVE  2^i < 2^j
  <1> DEFINE Q == {d \in Nat : 2^i < 2^(i + d + 1)}
  <1>1. 2^i \in Nat \ {0}
    BY PowerPositive
  <1>2. 0 \in Q
    <2>1. 2^(i + 1) = 2 * 2^i
      BY PowerDoubles
    <2>2. i + 0 + 1 = i + 1
      OBVIOUS
    <2> QED BY <1>1, <2>1, <2>2
  <1>3. ASSUME NEW d \in Q PROVE d + 1 \in Q
    <2>1. i + d + 1 \in Nat /\ i + (d + 1) + 1 = (i + d + 1) + 1
      OBVIOUS
    <2>2. 2^(i + d + 1) \in Nat /\ 2^((i + d + 1) + 1) = 2 * 2^(i + d + 1)
      BY <2>1, PowerDoubles
    <2>3. 2^i < 2^(i + d + 1)
      OBVIOUS
    <2> QED BY <1>1, <2>1, <2>2, <2>3
  <1>4. Q = Nat
    <2> HIDE DEF Q
    <2>1. Q \subseteq Nat
      BY DEF Q
    <2> QED BY <1>2, <1>3, <2>1, SetInduction
  <1>5. j - i - 1 \in Nat /\ i + (j - i - 1) + 1 = j
    OBVIOUS
  <1> QED BY <1>4, <1>5

(* And so are compared as their exponents. *)
LEMMA PowersCompare ==
  ASSUME NEW i \in Nat, NEW j \in Nat
  PROVE  2^i >= 2^j <=> i >= j
  <1>1. 2^i \in Nat /\ 2^j \in Nat
    BY PowerPositive
  <1>2. CASE i < j
    BY <1>1, <1>2, PowersGrow
  <1>3. CASE j < i
    BY <1>1, <1>3, PowersGrow
  <1>4. CASE i = j
    BY <1>1, <1>4
  <1> QED BY <1>2, <1>3, <1>4

-----------------------------------------------------------------------------
(* One cell is visited *)

(* A bounded set of numbers has a largest one. *)
LEMMA LargestOfSet ==
  ASSUME NEW n \in Nat, NEW S \in SUBSET (0 .. n), S # {}
  PROVE  Max(S) \in S /\ \A y \in S : Max(S) >= y
  <1> DEFINE Q == {k \in 0 .. n : \E x \in S : x >= k}
  <1>1. \E x \in S : \A y \in S : x >= y
    <2> SUFFICES ASSUME \A x \in S : \E y \in S : ~(x >= y) PROVE FALSE
      OBVIOUS
    <2> DEFINE P == {k \in Nat : \E x \in S : x >= k}
    <2>1. 0 \in P
      <3>1. PICK x \in S : x \in 0 .. n
        OBVIOUS
      <3> QED BY <3>1
    <2>2. ASSUME NEW k \in P PROVE k + 1 \in P
      OBVIOUS
    <2>3. P = Nat
      <3> HIDE DEF P
      <3>1. P \subseteq Nat
        BY DEF P
      <3> QED BY <2>1, <2>2, <3>1, SetInduction
    <2>4. n + 1 \in P
      BY <2>3
    <2> QED BY <2>4
  <1> QED BY <1>1 DEF Max

(* The four vectors. *)
LEMMA VectorUnit ==
  ASSUME NEW direction \in Directions
  PROVE  \E dx, dy \in -1 .. 1 : /\ Vector(direction) = <<dx, dy>>
                                 /\ (dx = 0) # (dy = 0)
  <1>1. direction = 0 \/ direction = 1 \/ direction = 2 \/ direction = 3
    BY DEF Directions
  <1> QED BY <1>1 DEF Vector

(* The farthest position: every cell on the way is free, and the next one is
   an obstacle or beyond the border. *)
LEMMA Farthest ==
  ASSUME NEW board, NEW cell \in Cells, NEW direction \in Directions
  PROVE  LET vector == Vector(direction)
             k == findFarthestPosition(board, cell, vector)
         IN  /\ k \in 0 .. Size - 1
             /\ \A j \in 1 .. k : /\ Shifted(cell, vector, j) \in Cells
                                  /\ board[Shifted(cell, vector, j)] = Empty
             /\ Shifted(cell, vector, k) \in Cells
             /\ \A j \in 1 .. k + 1 : Shifted(cell, vector, j) # cell
             /\ Shifted(cell, vector, k) = cell <=> k = 0
             /\ ~ /\ Shifted(cell, vector, k + 1) \in Cells
                  /\ board[Shifted(cell, vector, k + 1)] = Empty
  <1> DEFINE vector == Vector(direction)
             S == {k \in 0 .. Size - 1 : \A j \in 1 .. k :
                      /\ withinBounds(Shifted(cell, vector, j))
                      /\ board[Shifted(cell, vector, j)] = Empty}
             k == Max(S)
  <1>1. Size \in Nat /\ Size >= 1
    BY SizeAssumption
  <1>2. PICK x \in 0 .. Size - 1, y \in 0 .. Size - 1 : cell = <<x, y>>
    BY DEF Cells
  <1>3. PICK dx \in -1 .. 1, dy \in -1 .. 1 : vector = <<dx, dy>> /\ (dx = 0) # (dy = 0)
    BY VectorUnit
  <1>4. \A j \in Int : Shifted(cell, vector, j) = <<x + j * dx, y + j * dy>>
    BY <1>2, <1>3 DEF Shifted
  <1>5. ASSUME NEW j \in Int PROVE Shifted(cell, vector, j) = cell <=> j = 0
    <2>1. dx = -1 \/ dx = 0 \/ dx = 1
      BY <1>3
    <2>2. dy = -1 \/ dy = 0 \/ dy = 1
      BY <1>3
    <2>3. (dx = 0) # (dy = 0)
      BY <1>3
    <2>4. Shifted(cell, vector, j) = <<x + j * dx, y + j * dy>>
      BY <1>4
    <2>5. x + j * dx = x /\ y + j * dy = y <=> j = 0
      BY <1>2, <2>1, <2>2, <2>3
    <2> HIDE DEF vector
    <2> QED BY <1>2, <2>4, <2>5
  <1>6. \A j \in Int : (j >= Size => <<x + j * dx, y + j * dy>> \notin Cells)
    <2>1. dx = -1 \/ dx = 0 \/ dx = 1
      BY <1>3
    <2>2. dy = -1 \/ dy = 0 \/ dy = 1
      BY <1>3
    <2>3. (dx = 0) # (dy = 0)
      BY <1>3
    <2> QED BY <1>1, <1>2, <2>1, <2>2, <2>3 DEF Cells
  <1>7. 0 \in S /\ S \in SUBSET (0 .. Size - 1) /\ Size - 1 \in Nat
    BY <1>1
  <1>8. k \in S /\ \A j \in S : k >= j
    <2> HIDE DEF S
    <2> QED BY <1>7, LargestOfSet
  <1>9. findFarthestPosition(board, cell, vector) = k
    BY DEF findFarthestPosition
  <1>10. /\ k \in 0 .. Size - 1
         /\ \A j \in 1 .. k : /\ Shifted(cell, vector, j) \in Cells
                              /\ board[Shifted(cell, vector, j)] = Empty
    BY <1>8 DEF withinBounds
  <1> HIDE DEF k, vector
  <1>11. \A j \in 1 .. k + 1 : Shifted(cell, vector, j) # cell
    BY <1>5, <1>10
  <1>12. Shifted(cell, vector, 0) = cell
    BY <1>5
  <1>13. Shifted(cell, vector, k) \in Cells
    BY <1>10, <1>12
  <1>14. Shifted(cell, vector, k) = cell <=> k = 0
    BY <1>10, <1>11, <1>12
  <1>15. ASSUME Shifted(cell, vector, k + 1) \in Cells, board[Shifted(cell, vector, k + 1)] = Empty
         PROVE  FALSE
    <2>1. k + 1 <= Size - 1
      BY <1>1, <1>4, <1>6, <1>10, <1>15
    <2>2. k + 1 \in S
      BY <1>10, <1>15, <2>1 DEF withinBounds, vector
    <2> QED BY <1>8, <1>10, <2>2
  <1> QED BY <1>9, <1>10, <1>11, <1>13, <1>14, <1>15 DEF vector

-----------------------------------------------------------------------------
(* All cells are visited *)

(* A move before its first cell. *)
Started(board) == [board |-> board, merged |-> {}, score |-> 0, made |-> {}, moved |-> FALSE]

CellCount == Size * Size
Visited(direction, k) == buildTraversals(Vector(direction))[k]

(* There are cells. *)
LEMMA CellCountNat == Size \in Nat \ {0} /\ CellCount \in Nat \ {0}
  BY SizeAssumption DEF CellCount

(* The function that gives the move after k cells exists, so that each of its
   values comes from the one before by visiting a cell. *)
LEMMA VisitsSteps ==
  ASSUME NEW board, NEW direction
  PROVE  /\ Visits(board, direction)[0] = Started(board)
         /\ \A k \in 1 .. CellCount :
               Visits(board, direction)[k] =
                   VisitCell(Visits(board, direction)[k - 1], Visited(direction, k), Vector(direction))
  <1> DEFINE Step(f, k) == IF k = 0 THEN Started(board)
                           ELSE VisitCell(f[k - 1], Visited(direction, k), Vector(direction))
             Trace(f, n) == f = [k \in 0 .. n |-> Step(f, k)]
             P == {n \in Nat : \E f : Trace(f, n)}
  <1>1. 0 \in P
    <2> DEFINE f == [k \in 0 .. 0 |-> Started(board)]
    <2>1. Trace(f, 0)
      OBVIOUS
    <2> QED BY <2>1
  <1>2. ASSUME NEW n \in P PROVE n + 1 \in P
    <2>1. PICK f : Trace(f, n)
      OBVIOUS
    <2> DEFINE g == [k \in 0 .. n + 1 |-> IF k = n + 1 THEN Step(f, n + 1) ELSE f[k]]
    <2>2. n \in Nat
      OBVIOUS
    <2>3. \A k \in 0 .. n + 1 : Step(g, k) = Step(f, k)
      <3>1. ASSUME NEW k \in 0 .. n + 1, k # 0 PROVE g[k - 1] = f[k - 1]
        BY <2>2, <3>1
      <3> HIDE DEF g
      <3> QED BY <3>1
    <2>4. \A k \in 0 .. n : f[k] = Step(f, k)
      <3> HIDE DEF Step
      <3> QED BY <2>1
    <2>5. \A k \in 0 .. n + 1 : g[k] = Step(f, k)
      <3> HIDE DEF Step
      <3> QED BY <2>2, <2>4
    <2>6. g = [k \in 0 .. n + 1 |-> Step(g, k)]
      <3>1. g = [k \in 0 .. n + 1 |-> g[k]]
        OBVIOUS
      <3> HIDE DEF g, Step
      <3> QED BY <2>3, <2>5, <3>1
    <2> HIDE DEF g, Step
    <2> QED BY <2>2, <2>6
  <1>3. P = Nat
    <2> HIDE DEF P
    <2>1. P \subseteq Nat
      BY DEF P
    <2> QED BY <1>1, <1>2, <2>1, SetInduction
  <1>4. CellCount \in Nat
    BY CellCountNat
  <1>5. Trace(Visits(board, direction), CellCount)
    <2>1. \E f : Trace(f, CellCount)
      BY <1>3, <1>4
    <2>2. Visits(board, direction) = CHOOSE f : Trace(f, CellCount)
      BY DEF Visits, CellCount, Started, Visited
    <2> HIDE DEF Trace
    <2> QED BY <2>1, <2>2
  <1>6. \A k \in 0 .. CellCount : Visits(board, direction)[k] = Step(Visits(board, direction), k)
    <2> HIDE DEF Step
    <2> QED BY <1>5
  <1> QED BY <1>4, <1>6

(* Division of a number below Size * Size by Size. *)
LEMMA RowAndColumn ==
  ASSUME NEW a \in 0 .. CellCount - 1
  PROVE  a \div Size \in 0 .. Size - 1 /\ a % Size \in 0 .. Size - 1
  <1>1. \A n \in Nat : n > 0 /\ a < n * n => a \div n \in 0 .. n - 1
    OBVIOUS
  <1>2. \A n \in Nat : n > 0 => a % n \in 0 .. n - 1
    OBVIOUS
  <1> QED BY <1>1, <1>2, CellCountNat DEF CellCount

(* Every row and column comes from such a number. *)
LEMMA NumberOfRowAndColumn ==
  ASSUME NEW x \in 0 .. Size - 1, NEW y \in 0 .. Size - 1
  PROVE  \E a \in 0 .. CellCount - 1 : a \div Size = x /\ a % Size = y
  <1> DEFINE a == Size * x + y
  <1>1. Size \in Nat /\ Size > 0
    BY CellCountNat
  <1>2. a \in 0 .. CellCount - 1
    <2>1. Size * x <= Size * (Size - 1) /\ Size * x >= 0
      BY <1>1
    <2>2. Size * (Size - 1) = Size * Size - Size
      BY <1>1
    <2>3. Size * x \in Int /\ Size * Size \in Int
      BY <1>1
    <2> QED BY <1>1, <2>1, <2>2, <2>3 DEF CellCount
  <1>3. a \div Size = x /\ a % Size = y
    BY <1>1
  <1> QED BY <1>2, <1>3

(* What is visited is a cell, and every cell is visited. *)
LEMMA VisitedCells ==
  ASSUME NEW direction \in Directions
  PROVE  /\ \A k \in 1 .. CellCount : Visited(direction, k) \in Cells
         /\ \A cell \in Cells : \E k \in 1 .. CellCount : Visited(direction, k) = cell
  <1> DEFINE Along(v, pos) == IF v = 1 THEN Size - 1 - pos ELSE pos
             vector == Vector(direction)
  <1>1. Size \in Nat /\ Size > 0 /\ CellCount \in Nat
    BY CellCountNat
  <1>2. \A k \in 1 .. CellCount :
           Visited(direction, k) = <<Along(vector[1], (k - 1) \div Size), Along(vector[2], (k - 1) % Size)>>
    BY DEF Visited, buildTraversals, CellCount
  <1>3. \A v, pos : pos \in 0 .. Size - 1 => Along(v, pos) \in 0 .. Size - 1 /\ Along(v, Along(v, pos)) = pos
    BY <1>1
  <1> HIDE DEF Along, vector
  <1>4. ASSUME NEW k \in 1 .. CellCount PROVE Visited(direction, k) \in Cells
    <2>1. k - 1 \in 0 .. CellCount - 1
      BY <1>1
    <2>2. (k - 1) \div Size \in 0 .. Size - 1 /\ (k - 1) % Size \in 0 .. Size - 1
      BY <2>1, RowAndColumn
    <2> QED BY <1>2, <1>3, <2>2 DEF Cells
  <1>5. ASSUME NEW cell \in Cells PROVE \E k \in 1 .. CellCount : Visited(direction, k) = cell
    <2>1. PICK x \in 0 .. Size - 1, y \in 0 .. Size - 1 : cell = <<x, y>>
      BY DEF Cells
    <2>2. Along(vector[1], x) \in 0 .. Size - 1 /\ Along(vector[2], y) \in 0 .. Size - 1
      BY <1>3
    <2>3. PICK a \in 0 .. CellCount - 1 : a \div Size = Along(vector[1], x) /\ a % Size = Along(vector[2], y)
      BY <2>2, NumberOfRowAndColumn
    <2>4. a + 1 \in 1 .. CellCount /\ (a + 1) - 1 = a
      BY <1>1
    <2>5. Visited(direction, a + 1) = <<x, y>>
      BY <1>2, <1>3, <2>3, <2>4
    <2> QED BY <2>1, <2>4, <2>5
  <1> QED BY <1>4, <1>5

(* The three things a visit can do. *)
LEMMA VisitCases ==
  ASSUME NEW m, NEW cell \in Cells, NEW direction \in Directions
  PROVE  LET result == VisitCell(m, cell, Vector(direction))
         IN  \/ m.board[cell] = Empty /\ result = m
             \/ /\ m.board[cell] # Empty
                /\ \E next \in Cells \ {cell} : CanMerge(m, cell, next) /\ result = Merged(m, cell, next)
             \/ /\ m.board[cell] # Empty
                /\ \E farthest \in Cells : /\ farthest = cell \/ m.board[farthest] = Empty
                                           /\ result = MovedTo(m, cell, farthest)
  <1> DEFINE vector == Vector(direction)
             k == findFarthestPosition(m.board, cell, vector)
             farthest == Shifted(cell, vector, k)
             next == Shifted(cell, vector, k + 1)
  <1>1. /\ k \in 0 .. Size - 1
        /\ \A j \in 1 .. k : m.board[Shifted(cell, vector, j)] = Empty
        /\ farthest \in Cells
        /\ \A j \in 1 .. k + 1 : Shifted(cell, vector, j) # cell
        /\ farthest = cell <=> k = 0
    <2>1. /\ k \in 0 .. Size - 1
          /\ \A j \in 1 .. k : /\ Shifted(cell, vector, j) \in Cells
                               /\ m.board[Shifted(cell, vector, j)] = Empty
          /\ farthest \in Cells
          /\ \A j \in 1 .. k + 1 : Shifted(cell, vector, j) # cell
          /\ farthest = cell <=> k = 0
          /\ ~(next \in Cells /\ m.board[next] = Empty)
      BY Farthest
    <2> HIDE DEF k, farthest, next, vector
    <2> QED BY <2>1
  <1>2. VisitCell(m, cell, vector) =
           IF m.board[cell] = Empty THEN m
           ELSE IF CanMerge(m, cell, next) THEN Merged(m, cell, next) ELSE MovedTo(m, cell, farthest)
    BY DEF VisitCell
  <1>3. next # cell
    <2> HIDE DEF k, vector
    <2> QED BY <1>1
  <1>4. farthest = cell \/ m.board[farthest] = Empty
    <2> HIDE DEF k, vector
    <2> QED BY <1>1
  <1>5. CanMerge(m, cell, next) => next \in Cells
    BY DEF CanMerge, withinBounds
  <1> HIDE DEF k, vector, next, farthest
  <1> QED BY <1>1, <1>2, <1>3, <1>4, <1>5 DEF vector

-----------------------------------------------------------------------------
(* Sums over cells *)

(* What the elements of S add up to, w giving the worth of the value that b
   gives each of them. *)
Total(w, b, S) == MapThenSumSet(LAMBDA x : w[b[x]], S)

SumStep(g, w, b, T) == IF T = {} THEN 0
                       ELSE LET x == CHOOSE x \in T : TRUE IN w[b[x]] + g[T \ {x}]
IsSum(g, w, b, D) == g = [T \in D |-> SumStep(g, w, b, T)]

(* The function that adds up every subset of a finite set exists. *)
LEMMA SumExists ==
  ASSUME NEW S, IsFiniteSet(S), NEW w, NEW b
  PROVE  \E g : IsSum(g, w, b, SUBSET S)
  <1> DEFINE Upto(n) == {T \in SUBSET S : Cardinality(T) <= n}
             P == {n \in Nat : \E g : IsSum(g, w, b, Upto(n))}
  <1>1. \A T \in SUBSET S : IsFiniteSet(T) /\ Cardinality(T) \in Nat /\ Cardinality(T) <= Cardinality(S)
    BY FS_Subset, FS_CardinalityType
  <1>2. \A T \in SUBSET S : Cardinality(T) = 0 <=> T = {}
    BY <1>1, FS_EmptySet
  <1>3. ASSUME NEW T \in SUBSET S, T # {}
        PROVE  LET x == CHOOSE x \in T : TRUE
               IN  x \in T /\ T \ {x} \in SUBSET S /\ Cardinality(T \ {x}) = Cardinality(T) - 1
    BY <1>1, <1>3, FS_RemoveElement
  <1>4. 0 \in P
    <2> DEFINE g == [T \in Upto(0) |-> 0]
    <2>1. \A T \in Upto(0) : SumStep(g, w, b, T) = 0
      BY <1>1, <1>2 DEF SumStep
    <2>2. g = [T \in Upto(0) |-> SumStep(g, w, b, T)]
      <3>1. \A T \in Upto(0) : g[T] = 0
        OBVIOUS
      <3>2. g = [T \in Upto(0) |-> g[T]]
        OBVIOUS
      <3> HIDE DEF g, Upto
      <3> QED BY <2>1, <3>1, <3>2
    <2> HIDE DEF g, Upto
    <2> QED BY <2>2 DEF IsSum
  <1>5. ASSUME NEW n \in P PROVE n + 1 \in P
    <2>1. PICK g : IsSum(g, w, b, Upto(n))
      OBVIOUS
    <2>2. n \in Nat
      OBVIOUS
    <2> DEFINE h == [T \in Upto(n + 1) |-> SumStep(g, w, b, T)]
    <2>3. \A T \in Upto(n) : T \in Upto(n + 1) /\ g[T] = SumStep(g, w, b, T)
      <3>1. \A T \in Upto(n) : T \in Upto(n + 1)
        BY <1>1, <2>2
      <3> HIDE DEF Upto
      <3> QED BY <2>1, <3>1 DEF IsSum
    <2>4. \A T \in Upto(n) : h[T] = g[T]
      <3> HIDE DEF Upto
      <3> QED BY <2>3
    <2>5. ASSUME NEW T \in Upto(n + 1) PROVE SumStep(h, w, b, T) = SumStep(g, w, b, T)
      <3>1. CASE T = {}
        BY <3>1 DEF SumStep
      <3>2. CASE T # {}
        <4> DEFINE x == CHOOSE x \in T : TRUE
        <4>1. T \in SUBSET S /\ Cardinality(T) <= n + 1
          OBVIOUS
        <4>2. T \ {x} \in SUBSET S /\ Cardinality(T \ {x}) = Cardinality(T) - 1
          BY <1>3, <3>2, <4>1
        <4>3. T \ {x} \in Upto(n)
          BY <1>1, <2>2, <4>1, <4>2
        <4>4. h[T \ {x}] = g[T \ {x}]
          <5> HIDE DEF h, Upto, x
          <5> QED BY <2>4, <4>3
        <4> HIDE DEF h, Upto
        <4> QED BY <3>2, <4>4 DEF SumStep
      <3> QED BY <3>1, <3>2
    <2>6. h = [T \in Upto(n + 1) |-> SumStep(h, w, b, T)]
      <3> HIDE DEF Upto
      <3>1. \A T \in Upto(n + 1) : h[T] = SumStep(g, w, b, T)
        OBVIOUS
      <3>2. h = [T \in Upto(n + 1) |-> h[T]]
        OBVIOUS
      <3> HIDE DEF h
      <3> QED BY <2>5, <3>1, <3>2
    <2> HIDE DEF h, Upto
    <2> QED BY <2>2, <2>6 DEF IsSum
  <1>6. P = Nat
    <2> HIDE DEF P
    <2>1. P \subseteq Nat
      BY DEF P
    <2> QED BY <1>4, <1>5, <2>1, SetInduction
  <1>7. Cardinality(S) \in P
    BY <1>6, FS_CardinalityType
  <1>8. Upto(Cardinality(S)) = SUBSET S
    BY <1>1
  <1> HIDE DEF Upto
  <1> QED BY <1>7, <1>8

(* A function that has the total of each subset of S. *)
Sums(g, w, b, S) == /\ Total(w, b, S) = g[S]
                    /\ \A T \in SUBSET S : g[T] = SumStep(g, w, b, T)

(* So that a total is such a sum. *)
LEMMA TotalIsSum ==
  ASSUME NEW S, IsFiniteSet(S), NEW w, NEW b
  PROVE  \E g : Sums(g, w, b, S)
  <1> DEFINE g == CHOOSE g : IsSum(g, w, b, SUBSET S)
  <1>1. IsSum(g, w, b, SUBSET S)
    BY SumExists
  <1>2. Total(w, b, S) = g[S]
    BY DEF Total, MapThenSumSet, MapThenFoldSet, IsSum, SumStep
  <1> HIDE DEF g
  <1>3. \A T \in SUBSET S : g[T] = SumStep(g, w, b, T)
    BY <1>1 DEF IsSum
  <1> QED BY <1>2, <1>3 DEF Sums

(* Where one element changes its value, the total changes by the difference. *)
LEMMA TotalChanges ==
  ASSUME NEW S, IsFiniteSet(S), NEW w, NEW b, NEW c, NEW x \in S,
         \A y \in S : w[b[y]] \in Int /\ w[c[y]] \in Int,
         \A y \in S \ {x} : c[y] = b[y]
  PROVE  Total(w, b, S) \in Int /\ Total(w, c, S) = Total(w, b, S) + w[c[x]] - w[b[x]]
  <1>1. PICK g : Sums(g, w, b, S)
    BY TotalIsSum, Zenon
  <1>2. PICK h : Sums(h, w, c, S)
    BY TotalIsSum, Zenon
  <1> DEFINE Holds(T) == g[T] \in Int /\ h[T] = g[T] + IF x \in T THEN w[c[x]] - w[b[x]] ELSE 0
             P == {n \in Nat : \A T \in SUBSET S : Cardinality(T) = n => Holds(T)}
  <1>3. \A T \in SUBSET S : IsFiniteSet(T) /\ Cardinality(T) \in Nat
    BY FS_Subset, FS_CardinalityType
  <1>4. Holds({})
    <2>1. g[{}] = 0 /\ h[{}] = 0
      BY <1>1, <1>2 DEF Sums, SumStep
    <2> QED BY <2>1
  <1>5. 0 \in P
    <2>1. \A T \in SUBSET S : Cardinality(T) = 0 => T = {}
      BY <1>3, FS_EmptySet
    <2> HIDE DEF Holds
    <2> QED BY <1>4, <2>1
  <1>6. ASSUME NEW n \in P PROVE n + 1 \in P
    <2>1. n \in Nat /\ \A T \in SUBSET S : Cardinality(T) = n => Holds(T)
      OBVIOUS
    <2>2. ASSUME NEW T \in SUBSET S, Cardinality(T) = n + 1 PROVE Holds(T)
      <3> DEFINE z == CHOOSE z \in T : TRUE
                 U == T \ {z}
      <3>1. T # {}
        <4> HIDE DEF P, Holds
        <4>1. Cardinality(T) # 0
          BY <2>1, <2>2
        <4> QED BY <4>1, FS_EmptySet
      <3>2. z \in T /\ U \in SUBSET S
        BY <3>1
      <3>3. Cardinality(U) = n
        <4>1. Cardinality(U) = Cardinality(T) - 1
          <5> HIDE DEF z, P, Holds
          <5> QED BY <1>3, <3>2, FS_RemoveElement
        <4> HIDE DEF U, P, Holds
        <4> QED BY <2>1, <2>2, <4>1
      <3>4. g[T] = w[b[z]] + g[U] /\ h[T] = w[c[z]] + h[U]
        BY <1>1, <1>2, <3>1 DEF Sums, SumStep
      <3> HIDE DEF z
      <3>5. Holds(U)
        <4> HIDE DEF Holds, U
        <4> QED BY <2>1, <3>2, <3>3
      <3>6. w[b[z]] \in Int /\ w[c[z]] \in Int /\ w[b[x]] \in Int /\ w[c[x]] \in Int
        BY <3>2
      <3>7. CASE z = x
        <4>1. x \notin U /\ x \in T
          BY <3>2, <3>7
        <4> HIDE DEF U
        <4> QED BY <3>4, <3>5, <3>6, <3>7, <4>1
      <3>8. CASE z # x
        <4>1. x \in U <=> x \in T
          BY <3>2, <3>8
        <4>2. c[z] = b[z]
          BY <3>2, <3>8
        <4> HIDE DEF U
        <4> QED BY <3>4, <3>5, <3>6, <4>1, <4>2
      <3> QED BY <3>7, <3>8
    <2> HIDE DEF Holds
    <2> QED BY <2>1, <2>2
  <1>7. P = Nat
    <2> HIDE DEF P
    <2>1. P \subseteq Nat
      BY DEF P
    <2> QED BY <1>5, <1>6, <2>1, SetInduction
  <1>8. Holds(S)
    <2> HIDE DEF Holds
    <2>1. Cardinality(S) \in P
      BY <1>3, <1>7
    <2> QED BY <2>1
  <1>9. w[b[x]] \in Int /\ w[c[x]] \in Int
    OBVIOUS
  <1> QED BY <1>1, <1>2, <1>8, <1>9 DEF Sums

(* Nothing adds up to nothing. *)
LEMMA TotalOfNothing ==
  ASSUME NEW S, IsFiniteSet(S), NEW w, NEW b, \A y \in S : w[b[y]] = 0
  PROVE  Total(w, b, S) = 0
  <1>1. PICK g : Sums(g, w, b, S)
    BY TotalIsSum, Zenon
  <1> DEFINE P == {n \in Nat : \A T \in SUBSET S : Cardinality(T) = n => g[T] = 0}
  <1>2. \A T \in SUBSET S : IsFiniteSet(T) /\ Cardinality(T) \in Nat
    BY FS_Subset, FS_CardinalityType
  <1>3. 0 \in P
    <2>1. \A T \in SUBSET S : Cardinality(T) = 0 => T = {}
      BY <1>2, FS_EmptySet
    <2>2. g[{}] = 0
      BY <1>1 DEF Sums, SumStep
    <2> QED BY <2>1, <2>2
  <1>4. ASSUME NEW n \in P PROVE n + 1 \in P
    <2>1. n \in Nat /\ \A T \in SUBSET S : Cardinality(T) = n => g[T] = 0
      OBVIOUS
    <2>2. ASSUME NEW T \in SUBSET S, Cardinality(T) = n + 1 PROVE g[T] = 0
      <3> DEFINE z == CHOOSE z \in T : TRUE
      <3>1. T # {}
        BY <2>1, <2>2, FS_EmptySet
      <3>2. z \in T /\ T \ {z} \in SUBSET S
        BY <3>1
      <3>3. Cardinality(T \ {z}) = n
        <4>1. Cardinality(T \ {z}) = Cardinality(T) - 1
          <5> HIDE DEF z, P
          <5> QED BY <1>2, <3>2, FS_RemoveElement
        <4> HIDE DEF z, P
        <4> QED BY <2>1, <2>2, <4>1
      <3>4. g[T] = w[b[z]] + g[T \ {z}]
        BY <1>1, <3>1 DEF Sums, SumStep
      <3> HIDE DEF z
      <3> QED BY <2>1, <3>2, <3>3, <3>4
    <2> QED BY <2>1, <2>2
  <1>5. P = Nat
    <2> HIDE DEF P
    <2>1. P \subseteq Nat
      BY DEF P
    <2> QED BY <1>3, <1>4, <2>1, SetInduction
  <1>6. Cardinality(S) \in P
    BY <1>2, <1>5
  <1> QED BY <1>1, <1>6 DEF Sums

-----------------------------------------------------------------------------
(* How large a tile can get *)

(* The tiles of at least 2^j. *)
AtLeast(board, j) == {cell \in Cells : board[cell] >= 2^j}

(* There are the fewer of them the larger j is: this bounds the largest tile,
   and a merge keeps it. *)
Roomy(board) == \A j \in 2 .. CellCount + 1 : Cardinality(AtLeast(board, j)) <= CellCount + 2 - j

(* There are finitely many cells, and as many as there should be. *)
LEMMA CellsFinite == IsFiniteSet(Cells) /\ Cardinality(Cells) = CellCount
  <1>1. IsFiniteSet(0 .. Size - 1) /\ Cardinality(0 .. Size - 1) = Size
    BY FS_Interval, CellCountNat
  <1> QED BY <1>1, FS_Product DEF Cells, CellCount

(* Every set of cells can be counted. *)
LEMMA CellsCounted ==
  ASSUME NEW S \in SUBSET Cells
  PROVE  IsFiniteSet(S) /\ Cardinality(S) \in Nat /\ Cardinality(S) <= CellCount
  BY CellsFinite, FS_Subset, FS_CardinalityType

(* One more cell. *)
LEMMA CellAdded ==
  ASSUME NEW S \in SUBSET Cells, NEW x \in Cells
  PROVE  /\ S \cup {x} \in SUBSET Cells
         /\ IsFiniteSet(S \cup {x})
         /\ Cardinality(S \cup {x}) \in Nat
         /\ Cardinality(S \cup {x}) = Cardinality(S) + IF x \in S THEN 0 ELSE 1
  <1>1. IsFiniteSet(S) /\ Cardinality(S) \in Nat
    BY CellsCounted
  <1>2. Cardinality(S \cup {x}) = IF x \in S THEN Cardinality(S) ELSE Cardinality(S) + 1
    BY <1>1, FS_AddElement
  <1>3. S \cup {x} \in SUBSET Cells
    OBVIOUS
  <1>4. IsFiniteSet(S \cup {x}) /\ Cardinality(S \cup {x}) \in Nat
    BY <1>3, CellsCounted
  <1> QED BY <1>1, <1>2, <1>3, <1>4

(* The values on a board are numbers, and its tiles have values. *)
LEMMA BoardValues ==
  ASSUME NEW board \in Boards
  PROVE  \A cell \in Cells : /\ board[cell] \in Nat
                             /\ board[cell] # Empty => \E k \in 1 .. CellCount + 1 : board[cell] = 2^k
  <1>1. \A k \in 1 .. CellCount + 1 : 2^k \in Nat
    BY PowerPositive, CellCountNat
  <1> QED BY <1>1 DEF Boards, Values, Empty, CellCount

(* Merging two equal tiles: the new tile is one there can be, and the tiles
   of its size were at least two fewer than those of the size below. *)
LEMMA MergeRoomy ==
  ASSUME NEW board \in Boards, Roomy(board), NEW cell \in Cells, NEW next \in Cells \ {cell},
         board[cell] # Empty, board[next] = board[cell]
  PROVE  LET merged == [board EXCEPT ![next] = 2 * board[cell], ![cell] = Empty]
         IN  merged \in Boards /\ Roomy(merged) /\ 2 * board[cell] \in Values
  <1> DEFINE merged == [board EXCEPT ![next] = 2 * board[cell], ![cell] = Empty]
  <1>1. CellCount \in Nat \ {0}
    BY CellCountNat
  <1>2. PICK i \in 1 .. CellCount + 1 : board[cell] = 2^i
    BY BoardValues
  <1>3. i \in Nat /\ 2^(i + 1) = 2 * 2^i
    BY <1>1, <1>2, PowerDoubles
  <1>4. /\ merged[cell] = 0 /\ merged[next] = 2^(i + 1)
        /\ \A c \in Cells \ {cell, next} : merged[c] = board[c]
    BY <1>2, <1>3 DEF Boards, Empty
  <1>5. \A j \in Nat : AtLeast(board, j) \in SUBSET Cells /\ AtLeast(merged, j) \in SUBSET Cells
    BY DEF AtLeast
  <1>6. \A j \in Nat : ~(0 >= 2^j)
    BY PowerPositive
  <1> HIDE DEF merged
  <1>7. \A j \in Nat : cell \notin AtLeast(merged, j)
    BY <1>4, <1>6 DEF AtLeast
  <1>8. \A j \in Nat : j <= i => cell \in AtLeast(board, j) /\ next \in AtLeast(board, j)
    BY <1>2, <1>3, PowersCompare DEF AtLeast
  <1>9. \A j \in Nat : next \in AtLeast(merged, j) => j <= i + 1
    BY <1>3, <1>4, PowersCompare DEF AtLeast
  <1>10. \A j \in Nat : AtLeast(merged, j) \subseteq AtLeast(board, j) \cup {next}
    BY <1>4, <1>7 DEF AtLeast
  <1>11. \A j \in Nat : j # i + 1 => AtLeast(merged, j) \subseteq AtLeast(board, j)
    BY <1>3, <1>8, <1>9, <1>10
  <1>12. \A j \in Nat : /\ IsFiniteSet(AtLeast(board, j)) /\ Cardinality(AtLeast(board, j)) \in Nat
                        /\ IsFiniteSet(AtLeast(merged, j)) /\ Cardinality(AtLeast(merged, j)) \in 0 .. CellCount
    BY <1>5, CellsCounted
  <1>13. ASSUME i >= 2
         PROVE  /\ i <= CellCount
                /\ Cardinality(AtLeast(board, i + 1)) + 2 <= CellCount + 2 - i
    <2>1. Cardinality(AtLeast(board, i)) <= CellCount + 2 - i
      BY <1>1, <1>13 DEF Roomy
    <2>2. cell \notin AtLeast(board, i + 1) /\ next \notin AtLeast(board, i + 1)
      BY <1>2, <1>3, PowersCompare DEF AtLeast
    <2>3. AtLeast(board, i + 1) \cup {cell} \cup {next} \in SUBSET AtLeast(board, i)
      <3>1. 2^(i + 1) >= 2^i /\ 2^(i + 1) \in Nat /\ 2^i \in Nat
        BY <1>3, PowersCompare, PowerPositive
      <3>2. \A c \in AtLeast(board, i + 1) : c \in AtLeast(board, i)
        BY <3>1, BoardValues DEF AtLeast
      <3> QED BY <1>3, <1>8, <3>2
    <2>4. /\ IsFiniteSet(AtLeast(board, i + 1) \cup {cell})
          /\ Cardinality(AtLeast(board, i + 1) \cup {cell}) = Cardinality(AtLeast(board, i + 1)) + 1
      <3>1. AtLeast(board, i + 1) \in SUBSET Cells
        BY <1>3, <1>5
      <3> QED BY <2>2, <3>1, CellAdded
    <2>5. /\ IsFiniteSet(AtLeast(board, i + 1) \cup {cell} \cup {next})
          /\ Cardinality(AtLeast(board, i + 1) \cup {cell} \cup {next}) = Cardinality(AtLeast(board, i + 1)) + 2
      <3>1. next \notin AtLeast(board, i + 1) \cup {cell}
        BY <2>2
      <3>2. Cardinality(AtLeast(board, i + 1) \cup {cell} \cup {next})
               = Cardinality(AtLeast(board, i + 1) \cup {cell}) + 1
        BY <2>4, <3>1, FS_AddElement
      <3>3. Cardinality(AtLeast(board, i + 1)) \in Nat
        BY <1>3, <1>12
      <3> QED BY <2>4, <3>2, <3>3, FS_AddElement
    <2>6. Cardinality(AtLeast(board, i + 1) \cup {cell} \cup {next}) <= Cardinality(AtLeast(board, i))
      BY <1>3, <1>12, <2>3, FS_Subset
    <2>7. Cardinality(AtLeast(board, i + 1)) \in Nat /\ Cardinality(AtLeast(board, i)) \in Nat
      BY <1>3, <1>12
    <2> QED BY <1>1, <1>3, <2>1, <2>5, <2>6, <2>7
  <1>14. i + 1 \in 1 .. CellCount + 1
    BY <1>1, <1>2, <1>13
  <1>15. 2 * board[cell] \in Values
    BY <1>2, <1>3, <1>14 DEF Values, CellCount
  <1>16. merged \in Boards
    BY <1>15 DEF merged, Boards
  <1>17. ASSUME NEW j \in 2 .. CellCount + 1 PROVE Cardinality(AtLeast(merged, j)) <= CellCount + 2 - j
    <2>1. j \in Nat
      OBVIOUS
    <2>2. CASE j # i + 1
      <3>1. Cardinality(AtLeast(merged, j)) <= Cardinality(AtLeast(board, j))
        BY <1>11, <1>12, <2>1, <2>2, FS_Subset
      <3>2. Cardinality(AtLeast(board, j)) <= CellCount + 2 - j
        BY DEF Roomy
      <3> QED BY <1>1, <1>12, <2>1, <3>1, <3>2
    <2>3. CASE j = i + 1 /\ i = 1
      BY <1>1, <1>12, <2>1, <2>3
    <2>4. CASE j = i + 1 /\ i >= 2
      <3>1. /\ IsFiniteSet(AtLeast(board, j) \cup {next})
            /\ Cardinality(AtLeast(board, j) \cup {next}) <= Cardinality(AtLeast(board, j)) + 1
        <4>1. AtLeast(board, j) \in SUBSET Cells
          BY <1>5, <2>1
        <4>2. Cardinality(AtLeast(board, j)) \in Nat
          BY <1>12, <2>1
        <4>3. /\ IsFiniteSet(AtLeast(board, j) \cup {next})
              /\ Cardinality(AtLeast(board, j) \cup {next})
                    = Cardinality(AtLeast(board, j)) + IF next \in AtLeast(board, j) THEN 0 ELSE 1
          BY <4>1, CellAdded
        <4> QED BY <4>2, <4>3
      <3>2. Cardinality(AtLeast(merged, j)) <= Cardinality(AtLeast(board, j) \cup {next})
        BY <1>10, <2>1, <3>1, FS_Subset
      <3>3. Cardinality(AtLeast(board, j) \cup {next}) \in Nat
        BY <3>1, FS_CardinalityType
      <3>4. Cardinality(AtLeast(board, j)) + 2 <= CellCount + 2 - i
        BY <1>13, <2>4
      <3> QED BY <1>1, <1>3, <1>12, <2>1, <2>4, <3>1, <3>2, <3>3, <3>4
    <2> QED BY <1>3, <2>2, <2>3, <2>4
  <1> QED BY <1>15, <1>16, <1>17 DEF Roomy, merged

(* A tile slides to a free cell: there are as many of each size as before. *)
LEMMA SlideRoomy ==
  ASSUME NEW board \in Boards, Roomy(board), NEW cell \in Cells, board[cell] # Empty,
         NEW farthest \in Cells, farthest = cell \/ board[farthest] = Empty
  PROVE  LET slid == [[board EXCEPT ![cell] = Empty] EXCEPT ![farthest] = board[cell]]
         IN  slid \in Boards /\ Roomy(slid)
  <1> DEFINE slid == [[board EXCEPT ![cell] = Empty] EXCEPT ![farthest] = board[cell]]
  <1>1. slid \in Boards
    BY DEF Boards
  <1>2. CASE farthest = cell
    <2>1. slid = board
      BY <1>2 DEF Boards
    <2> HIDE DEF slid
    <2> QED BY <1>1, <2>1 DEF slid
  <1>3. CASE farthest # cell
    <2>1. /\ slid[cell] = 0 /\ slid[farthest] = board[cell] /\ board[farthest] = 0
          /\ \A c \in Cells \ {cell, farthest} : slid[c] = board[c]
      BY <1>3 DEF Boards, Empty
    <2> HIDE DEF slid
    <2>2. ASSUME NEW j \in 2 .. CellCount + 1 PROVE Cardinality(AtLeast(slid, j)) <= CellCount + 2 - j
      <3>1. j \in Nat /\ CellCount \in Nat
        BY CellCountNat
      <3>2. ~(0 >= 2^j)
        BY <3>1, PowerPositive
      <3>3. AtLeast(board, j) \in SUBSET Cells /\ AtLeast(slid, j) \in SUBSET Cells
        BY DEF AtLeast
      <3>4. Cardinality(AtLeast(board, j)) <= CellCount + 2 - j
        BY DEF Roomy
      <3>5. CASE cell \notin AtLeast(board, j)
        <4>1. AtLeast(slid, j) = AtLeast(board, j)
          BY <2>1, <3>2, <3>5 DEF AtLeast
        <4> QED BY <3>4, <4>1
      <3>6. CASE cell \in AtLeast(board, j)
        <4> DEFINE rest == AtLeast(board, j) \ {cell}
        <4>1. AtLeast(slid, j) = rest \cup {farthest} /\ AtLeast(board, j) = rest \cup {cell}
          <5>1. cell \notin AtLeast(slid, j) /\ farthest \notin AtLeast(board, j)
            BY <2>1, <3>2 DEF AtLeast
          <5>2. farthest \in AtLeast(slid, j)
            BY <2>1, <3>6 DEF AtLeast
          <5>3. \A c \in Cells \ {cell, farthest} : c \in AtLeast(slid, j) <=> c \in AtLeast(board, j)
            BY <2>1 DEF AtLeast
          <5> QED BY <3>3, <3>6, <5>1, <5>2, <5>3
        <4>2. farthest \notin rest /\ cell \notin rest /\ rest \in SUBSET Cells
          BY <2>1, <3>2, <3>3 DEF AtLeast
        <4> HIDE DEF rest
        <4>3. Cardinality(rest \cup {farthest}) = Cardinality(rest) + 1
              /\ Cardinality(rest \cup {cell}) = Cardinality(rest) + 1
          BY <4>2, CellAdded
        <4> QED BY <3>4, <4>1, <4>3
      <3> QED BY <3>5, <3>6
    <2> QED BY <1>1, <2>2 DEF Roomy, slid
  <1> QED BY <1>2, <1>3

(* A random tile is a two or a four. *)
LEMMA SpawnRoomy ==
  ASSUME NEW board \in Boards, Roomy(board), NEW cell \in Cells, NEW value \in {2, 4}
  PROVE  LET spawned == [c \in Cells |-> IF c = cell THEN value ELSE board[c]]
         IN  spawned \in Boards /\ Roomy(spawned)
  <1> DEFINE spawned == [c \in Cells |-> IF c = cell THEN value ELSE board[c]]
  <1>1. CellCount \in Nat \ {0}
    BY CellCountNat
  <1>2. value \in Values
    <2>1. 2^1 = 2 /\ 2^2 = 4
      OBVIOUS
    <2>2. 1 \in 1 .. CellCount + 1 /\ 2 \in 1 .. CellCount + 1
      BY <1>1
    <2> QED BY <2>1, <2>2 DEF Values, CellCount
  <1>3. spawned \in Boards
    BY <1>2 DEF Boards
  <1>4. ASSUME NEW j \in 2 .. CellCount + 1 PROVE Cardinality(AtLeast(spawned, j)) <= CellCount + 2 - j
    <2>1. AtLeast(spawned, j) \in SUBSET Cells /\ AtLeast(board, j) \in SUBSET Cells
      BY DEF AtLeast
    <2>2. CASE j = 2
      <3>1. Cardinality(AtLeast(spawned, j)) <= CellCount
        BY <2>1, CellsCounted
      <3> QED BY <1>1, <2>2, <3>1
    <2>3. CASE j >= 3
      <3>1. 2^j >= 2^3 /\ 2^3 = 8 /\ 2^j \in Nat
        <4>1. j \in Nat /\ 3 \in Nat /\ 2^3 = 8
          OBVIOUS
        <4>2. 2^j >= 2^3 /\ 2^j \in Nat
          BY <2>3, <4>1, PowersCompare, PowerPositive
        <4> QED BY <4>1, <4>2
      <3>2. AtLeast(spawned, j) \in SUBSET AtLeast(board, j)
        BY <3>1 DEF AtLeast
      <3>3. Cardinality(AtLeast(spawned, j)) <= Cardinality(AtLeast(board, j))
        BY <2>1, <3>2, CellsCounted, FS_Subset
      <3>4. Cardinality(AtLeast(board, j)) <= CellCount + 2 - j
        BY DEF Roomy
      <3>5. Cardinality(AtLeast(spawned, j)) \in Nat /\ Cardinality(AtLeast(board, j)) \in Nat
        BY <2>1, CellsCounted
      <3> QED BY <1>1, <3>3, <3>4, <3>5
    <2> QED BY <2>2, <2>3
  <1> QED BY <1>3, <1>4 DEF Roomy

(* There is room on an empty board. *)
LEMMA EmptyRoomy ==
  LET empty == [cell \in Cells |-> Empty] IN empty \in Boards /\ Roomy(empty)
  <1> DEFINE empty == [cell \in Cells |-> Empty]
  <1>1. empty \in Boards
    BY DEF Boards
  <1>2. ASSUME NEW j \in 2 .. CellCount + 1 PROVE Cardinality(AtLeast(empty, j)) <= CellCount + 2 - j
    <2>1. j \in Nat /\ CellCount \in Nat
      BY CellCountNat
    <2>2. ~(0 >= 2^j)
      BY <2>1, PowerPositive
    <2>3. AtLeast(empty, j) = {}
      BY <2>2 DEF AtLeast, Empty
    <2> QED BY <2>1, <2>3, FS_EmptySet
  <1> QED BY <1>1, <1>2 DEF Roomy

-----------------------------------------------------------------------------
(* What holds all through a move *)

(* What holds before the first cell and survives the visit of any cell holds
   after all of them. *)
LEMMA MoveInduction ==
  ASSUME NEW board, NEW direction \in Directions, NEW I, Started(board) \in I,
         \A m \in I, cell \in Cells : VisitCell(m, cell, Vector(direction)) \in I
  PROVE  /\ \A k \in 0 .. CellCount : Visits(board, direction)[k] \in I
         /\ move(board, direction) \in I
  <1> DEFINE P == {k \in 0 .. CellCount : Visits(board, direction)[k] \in I}
  <1>1. CellCount \in Nat
    BY CellCountNat
  <1>2. 0 \in P
    BY <1>1, VisitsSteps
  <1>3. ASSUME NEW k \in 0 .. CellCount - 1, k \in P PROVE k + 1 \in P
    <2>1. k + 1 \in 1 .. CellCount /\ (k + 1) - 1 = k /\ k + 1 \in 0 .. CellCount
      BY <1>1
    <2>2. Visits(board, direction)[k + 1]
             = VisitCell(Visits(board, direction)[k], Visited(direction, k + 1), Vector(direction))
      BY <2>1, VisitsSteps
    <2>3. Visited(direction, k + 1) \in Cells
      BY <2>1, VisitedCells
    <2> QED BY <1>3, <2>1, <2>2, <2>3
  <1>4. 0 .. CellCount \subseteq P
    <2> HIDE DEF P
    <2> QED BY <1>1, <1>2, <1>3, BoundedInduction
  <1>5. move(board, direction) = Visits(board, direction)[CellCount] /\ CellCount \in 0 .. CellCount
    BY <1>1 DEF move, CellCount
  <1> QED BY <1>4, <1>5

(* The states of a move. *)
MoveStates == [board : Boards, merged : SUBSET Cells, score : Nat, made : SUBSET Values, moved : BOOLEAN]

(* A merge, field by field. *)
LEMMA MergedFields ==
  ASSUME NEW m \in MoveStates, NEW cell, NEW next
  PROVE  Merged(m, cell, next)
            = [board |-> [m.board EXCEPT ![next] = 2 * m.board[cell], ![cell] = Empty],
               merged |-> m.merged \cup {next}, score |-> m.score + 2 * m.board[cell],
               made |-> m.made \cup {2 * m.board[cell]}, moved |-> TRUE]
  <1> DEFINE b == [m.board EXCEPT ![next] = 2 * m.board[cell], ![cell] = Empty]
             g == m.merged \cup {next}
             s == m.score + 2 * m.board[cell]
             d == m.made \cup {2 * m.board[cell]}
             v == TRUE
             all == [field \in {"board", "merged", "score", "made", "moved"} |->
                        CASE field = "board" -> b [] field = "merged" -> g [] field = "score" -> s
                          [] field = "made" -> d [] field = "moved" -> v]
  <1>1. Merged(m, cell, next) = [m EXCEPT !.board = b, !.merged = g, !.score = s, !.made = d, !.moved = v]
    BY DEF Merged
  <1> HIDE DEF b, g, s, d, v
  <1>2. [m EXCEPT !.board = b, !.merged = g, !.score = s, !.made = d, !.moved = v] = all
    BY DEF MoveStates
  <1>3. [board |-> b, merged |-> g, score |-> s, made |-> d, moved |-> v] = all
    OBVIOUS
  <1> HIDE DEF all
  <1>4. Merged(m, cell, next) = [board |-> b, merged |-> g, score |-> s, made |-> d, moved |-> v]
    BY <1>1, <1>2, <1>3
  <1> QED BY <1>4 DEF b, g, s, d, v

(* The score stays where no tiles merge. *)
LEMMA MovedFields ==
  ASSUME NEW m \in MoveStates, NEW cell, NEW farthest
  PROVE  MovedTo(m, cell, farthest)
            = [board |-> [[m.board EXCEPT ![cell] = Empty] EXCEPT ![farthest] = m.board[cell]],
               merged |-> m.merged, score |-> m.score, made |-> m.made,
               moved |-> (m.moved \/ farthest # cell)]
  <1> DEFINE b == [[m.board EXCEPT ![cell] = Empty] EXCEPT ![farthest] = m.board[cell]]
             v == m.moved \/ farthest # cell
             two == [field \in {"board", "merged", "score", "made", "moved"} |->
                        CASE field = "board" -> b [] field = "moved" -> v [] OTHER -> m[field]]
  <1>1. MovedTo(m, cell, farthest) = [m EXCEPT !.board = b, !.moved = v]
    BY DEF MovedTo
  <1> HIDE DEF b, v
  <1>2. [m EXCEPT !.board = b, !.moved = v] = two
    BY DEF MoveStates
  <1>3. [board |-> b, merged |-> m.merged, score |-> m.score, made |-> m.made, moved |-> v] = two
    OBVIOUS
  <1> HIDE DEF two
  <1>4. MovedTo(m, cell, farthest)
           = [board |-> b, merged |-> m.merged, score |-> m.score, made |-> m.made, moved |-> v]
    BY <1>1, <1>2, <1>3
  <1> QED BY <1>4 DEF b, v

(* The states of a move on boards with room: no visit leaves them. *)
RoomyStates == {m \in MoveStates : Roomy(m.board)}

(* The visit of a cell keeps the types, and the room for larger tiles. *)
LEMMA VisitRoomy ==
  ASSUME NEW m \in RoomyStates, NEW cell \in Cells, NEW direction \in Directions
  PROVE  VisitCell(m, cell, Vector(direction)) \in RoomyStates
  <1> DEFINE result == VisitCell(m, cell, Vector(direction))
  <1>1. /\ m \in MoveStates /\ m.board \in Boards /\ Roomy(m.board)
        /\ m.merged \in SUBSET Cells /\ m.score \in Nat /\ m.made \in SUBSET Values
      BY DEF RoomyStates, MoveStates
  <1> HIDE DEF result
  <1>2. CASE result = m
    BY <1>2 DEF result
  <1>3. ASSUME m.board[cell] # Empty, NEW next \in Cells \ {cell}, CanMerge(m, cell, next),
               result = Merged(m, cell, next)
        PROVE  result \in RoomyStates
    <2> DEFINE merged == [m.board EXCEPT ![next] = 2 * m.board[cell], ![cell] = Empty]
    <2>1. merged \in Boards /\ Roomy(merged) /\ 2 * m.board[cell] \in Values
      BY <1>1, <1>3, MergeRoomy DEF CanMerge
    <2>2. 2 * m.board[cell] \in Nat
      BY <1>1, BoardValues
    <2>3. result = [board |-> merged, merged |-> m.merged \cup {next}, score |-> m.score + 2 * m.board[cell],
                    made |-> m.made \cup {2 * m.board[cell]}, moved |-> TRUE]
      BY <1>1, <1>3, MergedFields
    <2> HIDE DEF merged
    <2> QED BY <1>1, <2>1, <2>2, <2>3 DEF RoomyStates, MoveStates
  <1>4. ASSUME m.board[cell] # Empty, NEW farthest \in Cells,
               farthest = cell \/ m.board[farthest] = Empty, result = MovedTo(m, cell, farthest)
        PROVE  result \in RoomyStates
    <2> DEFINE slid == [[m.board EXCEPT ![cell] = Empty] EXCEPT ![farthest] = m.board[cell]]
    <2>1. slid \in Boards /\ Roomy(slid)
      BY <1>1, <1>4, SlideRoomy
    <2>2. result = [board |-> slid, merged |-> m.merged, score |-> m.score, made |-> m.made,
                    moved |-> (m.moved \/ farthest # cell)]
      BY <1>1, <1>4, MovedFields
    <2> HIDE DEF slid
    <2>3. m.moved \in BOOLEAN
      BY <1>1 DEF MoveStates
    <2> QED BY <1>1, <2>1, <2>2, <2>3 DEF RoomyStates, MoveStates
  <1> QED BY <1>2, <1>3, <1>4, VisitCases DEF result

(* A move on a board with room has its types and leaves a board with room. *)
THEOREM MoveRoomy ==
  ASSUME NEW board \in Boards, Roomy(board), NEW direction \in Directions
  PROVE  move(board, direction) \in MoveStates /\ Roomy(move(board, direction).board)
  <1>1. Started(board) \in RoomyStates
    BY DEF Started, RoomyStates, MoveStates
  <1>2. move(board, direction) \in RoomyStates
    BY <1>1, VisitRoomy, MoveInduction
  <1> QED BY <1>2 DEF RoomyStates

-----------------------------------------------------------------------------
(* What the tiles are worth *)

(* The function that gives the worth of a tile exists. *)
LEMMA WorthSteps ==
  \A v \in Values \cup {Empty} : Worth[v] = IF v <= 2 THEN 0 ELSE 2 * Worth[v \div 2] + v
  <1> DEFINE Step(f, v) == IF v <= 2 THEN 0 ELSE 2 * f[v \div 2] + v
             Upto(n) == {2^k : k \in 1 .. n + 1} \cup {Empty}
             Trace(f, D) == f = [v \in D |-> Step(f, v)]
             P == {n \in Nat : \E f : Trace(f, Upto(n))}
  <1>1. 2^1 = 2 /\ Empty = 0
    BY DEF Empty
  <1>2. ASSUME NEW k \in Nat, k >= 2 PROVE 2^k \in Nat /\ 2^k > 2 /\ 2^k \div 2 = 2^(k - 1)
    <2>1. k - 1 \in Nat /\ (k - 1) + 1 = k
      BY <1>2
    <2>2. 2^(k - 1) \in Nat /\ 2^k = 2 * 2^(k - 1) /\ 2^k \in Nat
      BY <2>1, PowerDoubles, PowerPositive
    <2>3. k - 2 \in Nat /\ (k - 2) + 1 = k - 1
      BY <1>2
    <2>4. 2^(k - 2) \in Nat \ {0} /\ 2^(k - 1) = 2 * 2^(k - 2)
      BY <2>3, PowerDoubles, PowerPositive
    <2> QED BY <2>2, <2>4
  <1>3. 0 \in P
    <2> DEFINE f == [v \in Upto(0) |-> 0]
    <2>1. \A v \in Upto(0) : v = 0 \/ v = 2
      <3>1. 1 .. 0 + 1 = {1}
        OBVIOUS
      <3> QED BY <1>1, <3>1
    <2>2. \A v \in Upto(0) : Step(f, v) = 0 /\ f[v] = 0
      <3> HIDE DEF Upto
      <3> QED BY <2>1
    <2>3. f = [v \in Upto(0) |-> f[v]]
      OBVIOUS
    <2>4. f = [v \in Upto(0) |-> Step(f, v)]
      <3> HIDE DEF f, Upto, Step
      <3> QED BY <2>2, <2>3
    <2> HIDE DEF f, Upto, Step
    <2> QED BY <2>4
  <1>4. ASSUME NEW n \in P PROVE n + 1 \in P
    <2>1. PICK f : Trace(f, Upto(n))
      OBVIOUS
    <2>2. n \in Nat
      OBVIOUS
    <2> DEFINE g == [v \in Upto(n + 1) |-> Step(f, v)]
    <2>3. \A v \in Upto(n) : v \in Upto(n + 1)
      <3>1. \A k \in 1 .. n + 1 : k \in 1 .. (n + 1) + 1
        BY <2>2
      <3> QED BY <3>1
    <2>4. \A v \in Upto(n) : g[v] = f[v]
      <3> HIDE DEF Upto, Step
      <3> QED BY <2>1, <2>3
    <2>5. ASSUME NEW v \in Upto(n + 1) PROVE Step(g, v) = Step(f, v)
      <3>1. CASE v = Empty
        BY <1>1, <3>1
      <3>2. CASE v # Empty
        <4>1. PICK k \in 1 .. (n + 1) + 1 : v = 2^k
          BY <3>2
        <4>2. CASE k = 1
          BY <1>1, <4>1, <4>2
        <4>3. CASE k >= 2
          <5>1. v \div 2 = 2^(k - 1) /\ k - 1 \in 1 .. n + 1
            BY <1>2, <2>2, <4>1, <4>3
          <5>2. v \div 2 \in Upto(n)
            BY <5>1
          <5>3. g[v \div 2] = f[v \div 2]
            <6> HIDE DEF g, Upto
            <6> QED BY <2>4, <5>2
          <5> HIDE DEF g, Upto
          <5> QED BY <5>3
        <4> QED BY <2>2, <4>1, <4>2, <4>3
      <3> QED BY <3>1, <3>2
    <2>6. g = [v \in Upto(n + 1) |-> g[v]] /\ \A v \in Upto(n + 1) : g[v] = Step(f, v)
      <3> HIDE DEF Upto, Step
      <3> QED OBVIOUS
    <2>7. g = [v \in Upto(n + 1) |-> Step(g, v)]
      <3> HIDE DEF g, Upto, Step
      <3> QED BY <2>5, <2>6
    <2> HIDE DEF g, Upto, Step
    <2> QED BY <2>2, <2>7
  <1>5. P = Nat
    <2> HIDE DEF P
    <2>1. P \subseteq Nat
      BY DEF P
    <2> QED BY <1>3, <1>4, <2>1, SetInduction
  <1>6. Values \cup {Empty} = Upto(CellCount)
    BY DEF Values, CellCount
  <1>7. \E f : Trace(f, Values \cup {Empty})
    <2> HIDE DEF Trace, Upto
    <2>1. CellCount \in Nat
      BY CellCountNat
    <2>2. \E f : Trace(f, Upto(CellCount))
      BY <1>5, <2>1
    <2> QED BY <1>6, <2>2
  <1>8. Worth = CHOOSE f : Trace(f, Values \cup {Empty})
    BY DEF Worth
  <1>9. Trace(Worth, Values \cup {Empty})
    <2> HIDE DEF Trace
    <2> QED BY <1>7, <1>8
  <1>10. \A v \in Values \cup {Empty} : Worth[v] = Step(Worth, v)
    <2> HIDE DEF Step
    <2> QED BY <1>9
  <1> QED BY <1>10

(* Every tile is worth a number, a free cell and a two nothing, a four four. *)
LEMMA WorthNumbers ==
  /\ \A v \in Values \cup {Empty} : Worth[v] \in Nat
  /\ Worth[Empty] = 0
  /\ Worth[2] = 0 /\ 2 \in Values
  /\ Worth[4] = 4 /\ 4 \in Values
  <1> DEFINE P == {n \in Nat : n <= CellCount => Worth[2^(n + 1)] \in Nat}
  <1>1. CellCount \in Nat \ {0}
    BY CellCountNat
  <1>2. 2 \in Values /\ 4 \in Values /\ Empty = 0
    <2>1. 2^1 = 2 /\ 2^2 = 4
      OBVIOUS
    <2>2. 1 \in 1 .. CellCount + 1 /\ 2 \in 1 .. CellCount + 1
      BY <1>1
    <2> QED BY <2>1, <2>2 DEF Values, CellCount, Empty
  <1>3. Worth[0] = 0 /\ Worth[2] = 0
    <2>1. 0 \in Values \cup {Empty} /\ 2 \in Values \cup {Empty}
      BY <1>2
    <2> QED BY <2>1, WorthSteps
  <1>4. Worth[4] = 4
    <2>1. 4 \div 2 = 2
      OBVIOUS
    <2>2. Worth[4] = 2 * Worth[4 \div 2] + 4
      BY <1>2, WorthSteps
    <2> QED BY <1>3, <2>1, <2>2
  <1>5. 0 \in P
    BY <1>3
  <1>6. ASSUME NEW n \in P PROVE n + 1 \in P
    <2>1. n \in Nat /\ (n <= CellCount => Worth[2^(n + 1)] \in Nat)
      OBVIOUS
    <2>2. ASSUME n + 1 <= CellCount PROVE Worth[2^((n + 1) + 1)] \in Nat
      <3>1. 2^(n + 1) \in Nat \ {0} /\ 2^((n + 1) + 1) = 2 * 2^(n + 1)
        BY <2>1, PowerPositive, PowerDoubles
      <3>2. (n + 1) + 1 \in 1 .. CellCount + 1
        BY <1>1, <2>1, <2>2
      <3>3. 2^((n + 1) + 1) \in Values
        BY <3>2 DEF Values, CellCount
      <3>4. 2^((n + 1) + 1) \div 2 = 2^(n + 1)
        BY <3>1
      <3>5. Worth[2^(n + 1)] \in Nat
        BY <2>1, <2>2, <1>1
      <3> QED BY <3>1, <3>3, <3>4, <3>5, WorthSteps
    <2> HIDE DEF P
    <2> QED BY <2>1, <2>2 DEF P
  <1>7. P = Nat
    <2> HIDE DEF P
    <2>1. P \subseteq Nat
      BY DEF P
    <2> QED BY <1>5, <1>6, <2>1, SetInduction
  <1>8. ASSUME NEW v \in Values PROVE Worth[v] \in Nat
    <2>1. PICK k \in 1 .. CellCount + 1 : v = 2^k
      BY DEF Values, CellCount
    <2>2. k - 1 \in Nat /\ k - 1 <= CellCount /\ (k - 1) + 1 = k
      BY <1>1
    <2> QED BY <1>7, <2>1, <2>2
  <1> QED BY <1>2, <1>3, <1>4, <1>8

(* Two equal tiles are merged: the new one is worth both and its own value. *)
LEMMA WorthDoubles ==
  ASSUME NEW v \in Values, 2 * v \in Values
  PROVE  v \in Nat /\ v >= 2 /\ Worth[2 * v] = 2 * Worth[v] + 2 * v
  <1>1. CellCount \in Nat
    BY CellCountNat
  <1>2. PICK k \in 1 .. CellCount + 1 : v = 2^k
    BY DEF Values, CellCount
  <1>3. k - 1 \in Nat /\ (k - 1) + 1 = k
    BY <1>1
  <1>4. 2^(k - 1) \in Nat \ {0} /\ 2^k = 2 * 2^(k - 1)
    BY <1>3, PowerPositive, PowerDoubles
  <1>5. v \in Nat /\ v >= 2
    BY <1>2, <1>4
  <1>6. (2 * v) \div 2 = v /\ ~(2 * v <= 2)
    BY <1>5
  <1> QED BY <1>5, <1>6, WorthSteps

(* The worth of a board is a total. *)
LEMMA BoardWorthIsTotal ==
  ASSUME NEW board
  PROVE  BoardWorth(board) = Total(Worth, board, Cells)
  BY DEF BoardWorth, Total

(* One cell of a board changes. *)
LEMMA BoardWorthChanges ==
  ASSUME NEW board \in Boards, NEW changed \in Boards, NEW cell \in Cells,
         \A c \in Cells \ {cell} : changed[c] = board[c]
  PROVE  /\ BoardWorth(board) \in Int
         /\ BoardWorth(changed) = BoardWorth(board) + Worth[changed[cell]] - Worth[board[cell]]
  <1>1. \A c \in Cells : Worth[board[c]] \in Int /\ Worth[changed[c]] \in Int
    BY WorthNumbers DEF Boards
  <1> QED BY <1>1, CellsFinite, TotalChanges, BoardWorthIsTotal

(* A merge adds to the worth of the board what it adds to the score. *)
LEMMA MergeWorth ==
  ASSUME NEW board \in Boards, Roomy(board), NEW cell \in Cells, NEW next \in Cells \ {cell},
         board[cell] # Empty, board[next] = board[cell]
  PROVE  LET merged == [board EXCEPT ![next] = 2 * board[cell], ![cell] = Empty]
         IN  BoardWorth(merged) = BoardWorth(board) + 2 * board[cell]
  <1> DEFINE merged == [board EXCEPT ![next] = 2 * board[cell], ![cell] = Empty]
             without == [board EXCEPT ![cell] = Empty]
  <1>1. merged \in Boards /\ board[cell] \in Values /\ 2 * board[cell] \in Values
    BY MergeRoomy DEF Boards
  <1>2. without \in Boards
    BY DEF Boards
  <1>3. /\ without[cell] = Empty /\ without[next] = board[cell] /\ merged[next] = 2 * board[cell]
        /\ \A c \in Cells \ {cell} : without[c] = board[c]
        /\ \A c \in Cells \ {next} : merged[c] = without[c]
    BY DEF Boards
  <1> HIDE DEF merged, without
  <1>4. /\ BoardWorth(board) \in Int
        /\ BoardWorth(without) = BoardWorth(board) + Worth[without[cell]] - Worth[board[cell]]
    BY <1>2, <1>3, BoardWorthChanges
  <1>5. BoardWorth(merged) = BoardWorth(without) + Worth[merged[next]] - Worth[without[next]]
    BY <1>1, <1>2, <1>3, BoardWorthChanges
  <1>6. /\ board[cell] \in Nat /\ Worth[board[cell]] \in Nat /\ Worth[Empty] = 0
        /\ Worth[2 * board[cell]] = 2 * Worth[board[cell]] + 2 * board[cell]
    BY <1>1, WorthDoubles, WorthNumbers
  <1>7. BoardWorth(merged) = BoardWorth(board) + 2 * board[cell]
    BY <1>3, <1>4, <1>5, <1>6
  <1> QED BY <1>7 DEF merged

(* A tile is worth the same wherever it is. *)
LEMMA SlideWorth ==
  ASSUME NEW board \in Boards, NEW cell \in Cells,
         NEW farthest \in Cells, farthest = cell \/ board[farthest] = Empty
  PROVE  LET slid == [[board EXCEPT ![cell] = Empty] EXCEPT ![farthest] = board[cell]]
         IN  BoardWorth(slid) = BoardWorth(board)
  <1> DEFINE without == [board EXCEPT ![cell] = Empty]
             slid == [without EXCEPT ![farthest] = board[cell]]
  <1>1. slid \in Boards /\ without \in Boards
    BY DEF Boards
  <1>2. /\ without[cell] = Empty /\ without[farthest] = Empty /\ slid[farthest] = board[cell]
        /\ \A c \in Cells \ {cell} : without[c] = board[c]
        /\ \A c \in Cells \ {farthest} : slid[c] = without[c]
    BY DEF Boards
  <1> HIDE DEF slid, without
  <1>3. /\ BoardWorth(board) \in Int
        /\ BoardWorth(without) = BoardWorth(board) + Worth[without[cell]] - Worth[board[cell]]
    BY <1>1, <1>2, BoardWorthChanges
  <1>4. BoardWorth(slid) = BoardWorth(without) + Worth[slid[farthest]] - Worth[without[farthest]]
    BY <1>1, <1>2, BoardWorthChanges
  <1>5. Worth[board[cell]] \in Nat /\ Worth[Empty] = 0
    BY WorthNumbers DEF Boards
  <1>6. BoardWorth(slid) = BoardWorth(board)
    BY <1>2, <1>3, <1>4, <1>5
  <1> QED BY <1>6 DEF slid, without

(* A random tile is worth nothing, or four. *)
LEMMA SpawnWorth ==
  ASSUME NEW board \in Boards, NEW cell \in Cells, board[cell] = Empty, NEW value \in {2, 4}
  PROVE  LET spawned == [c \in Cells |-> IF c = cell THEN value ELSE board[c]]
         IN  BoardWorth(spawned) = BoardWorth(board) + IF value = 4 THEN 4 ELSE 0
  <1> DEFINE spawned == [c \in Cells |-> IF c = cell THEN value ELSE board[c]]
  <1>1. spawned \in Boards
    BY WorthNumbers DEF Boards
  <1>2. spawned[cell] = value /\ \A c \in Cells \ {cell} : spawned[c] = board[c]
    OBVIOUS
  <1> HIDE DEF spawned
  <1>3. /\ BoardWorth(board) \in Int
        /\ BoardWorth(spawned) = BoardWorth(board) + Worth[spawned[cell]] - Worth[board[cell]]
    BY <1>1, <1>2, BoardWorthChanges
  <1>4. Worth[Empty] = 0 /\ Worth[value] = IF value = 4 THEN 4 ELSE 0
    BY WorthNumbers
  <1>5. BoardWorth(spawned) = BoardWorth(board) + IF value = 4 THEN 4 ELSE 0
    BY <1>2, <1>3, <1>4
  <1> QED BY <1>5 DEF spawned

(* An empty board is worth nothing. *)
LEMMA EmptyWorth == BoardWorth([cell \in Cells |-> Empty]) = 0
  <1> DEFINE empty == [cell \in Cells |-> Empty]
  <1>1. \A c \in Cells : Worth[empty[c]] = 0
    BY WorthNumbers
  <1> HIDE DEF empty
  <1>2. BoardWorth(empty) = 0
    BY <1>1, CellsFinite, TotalOfNothing, BoardWorthIsTotal
  <1> QED BY <1>2 DEF empty

(* The score of a move is what the board has gained. *)
THEOREM MoveWorth ==
  ASSUME NEW board \in Boards, Roomy(board), NEW direction \in Directions
  PROVE  /\ BoardWorth(board) \in Int
         /\ BoardWorth(move(board, direction).board) = BoardWorth(board) + move(board, direction).score
  <1> DEFINE States == {m \in RoomyStates : BoardWorth(m.board) = BoardWorth(board) + m.score}
  <1>1. \A b \in Boards : BoardWorth(b) \in Int
    <2>1. \E cell : cell \in Cells
      <3>1. 0 \in 0 .. Size - 1
        BY CellCountNat
      <3>2. <<0, 0>> \in Cells
        BY <3>1 DEF Cells
      <3> QED BY <3>2
    <2> QED BY <2>1, BoardWorthChanges
  <1>2. Started(board) \in States
    BY <1>1 DEF Started, RoomyStates, MoveStates
  <1>3. ASSUME NEW m \in States, NEW cell \in Cells PROVE VisitCell(m, cell, Vector(direction)) \in States
    <2> DEFINE result == VisitCell(m, cell, Vector(direction))
    <2>1. /\ m \in RoomyStates /\ m \in MoveStates /\ m.board \in Boards /\ Roomy(m.board) /\ m.score \in Nat
          /\ BoardWorth(m.board) = BoardWorth(board) + m.score
      BY DEF RoomyStates, MoveStates
    <2>2. result \in RoomyStates
      BY <2>1, VisitRoomy
    <2> HIDE DEF result
    <2>3. CASE result = m
      BY <2>3 DEF result
    <2>4. ASSUME m.board[cell] # Empty, NEW next \in Cells \ {cell}, CanMerge(m, cell, next),
                 result = Merged(m, cell, next)
          PROVE  BoardWorth(result.board) = BoardWorth(board) + result.score
      <3> DEFINE merged == [m.board EXCEPT ![next] = 2 * m.board[cell], ![cell] = Empty]
      <3>1. BoardWorth(merged) = BoardWorth(m.board) + 2 * m.board[cell]
        BY <2>1, <2>4, MergeWorth DEF CanMerge
      <3>2. m.board[cell] \in Nat
        BY <2>1, BoardValues
      <3>3. result.board = merged /\ result.score = m.score + 2 * m.board[cell]
        BY <2>1, <2>4, MergedFields
      <3> HIDE DEF merged
      <3> QED BY <1>1, <2>1, <3>1, <3>2, <3>3
    <2>5. ASSUME m.board[cell] # Empty, NEW farthest \in Cells,
                 farthest = cell \/ m.board[farthest] = Empty, result = MovedTo(m, cell, farthest)
          PROVE  BoardWorth(result.board) = BoardWorth(board) + result.score
      <3> DEFINE slid == [[m.board EXCEPT ![cell] = Empty] EXCEPT ![farthest] = m.board[cell]]
      <3>1. BoardWorth(slid) = BoardWorth(m.board)
        BY <2>1, <2>5, SlideWorth
      <3>2. result.board = slid /\ result.score = m.score
        BY <2>1, <2>5, MovedFields
      <3> HIDE DEF slid
      <3> QED BY <2>1, <3>1, <3>2
    <2>6. result = m \/ BoardWorth(result.board) = BoardWorth(board) + result.score
      BY <2>4, <2>5, VisitCases DEF result
    <2> QED BY <2>2, <2>3, <2>6 DEF result
  <1>4. move(board, direction) \in States
    <2> HIDE DEF States
    <2> QED BY <1>2, <1>3, MoveInduction
  <1> QED BY <1>1, <1>4

-----------------------------------------------------------------------------
(* When a move changes anything *)

(* The tile of a cell has somewhere to go: the next cell is free, or has a tile
   to merge with. *)
CanGo(board, cell, direction) ==
    LET next == Shifted(cell, Vector(direction), 1)
    IN  /\ board[cell] # Empty
        /\ withinBounds(next)
        /\ board[next] = Empty \/ board[next] = board[cell]

(* The first tile that can go goes, and what cannot stays. *)
LEMMA FirstVisit ==
  ASSUME NEW board \in Boards, NEW cell \in Cells, NEW direction \in Directions
  PROVE  LET result == VisitCell(Started(board), cell, Vector(direction))
         IN  IF CanGo(board, cell, direction) THEN result.moved = TRUE ELSE result = Started(board)
  <1> DEFINE m == Started(board)
             vector == Vector(direction)
             k == findFarthestPosition(board, cell, vector)
             farthest == Shifted(cell, vector, k)
             next == Shifted(cell, vector, k + 1)
             result == VisitCell(m, cell, vector)
  <1>1. /\ m \in MoveStates /\ m.board = board /\ m.merged = {} /\ m.moved = FALSE
        /\ m = [board |-> board, merged |-> {}, score |-> 0, made |-> {}, moved |-> FALSE]
    BY DEF Started, MoveStates
  <1>2. /\ k \in 0 .. Size - 1
        /\ \A j \in 1 .. k : /\ Shifted(cell, vector, j) \in Cells
                             /\ board[Shifted(cell, vector, j)] = Empty
        /\ farthest \in Cells
        /\ farthest = cell <=> k = 0
        /\ ~(next \in Cells /\ board[next] = Empty)
    BY Farthest
  <1>3. result = IF board[cell] = Empty THEN m
                 ELSE IF CanMerge(m, cell, next) THEN Merged(m, cell, next) ELSE MovedTo(m, cell, farthest)
    BY <1>1 DEF VisitCell
  <1>4. CanMerge(m, cell, next) <=> next \in Cells /\ board[next] = board[cell]
    BY <1>1 DEF CanMerge, withinBounds
  <1> HIDE DEF m, k, vector, next, farthest, result
  <1>5. Merged(m, cell, next).moved = TRUE
    BY <1>1, MergedFields
  <1>6. MovedTo(m, cell, farthest)
          = [board |-> [[board EXCEPT ![cell] = Empty] EXCEPT ![farthest] = board[cell]],
             merged |-> {}, score |-> 0, made |-> {}, moved |-> (farthest # cell)]
    <2>1. MovedTo(m, cell, farthest)
            = [board |-> [[m.board EXCEPT ![cell] = Empty] EXCEPT ![farthest] = m.board[cell]],
               merged |-> m.merged, score |-> m.score, made |-> m.made,
               moved |-> (m.moved \/ farthest # cell)]
      BY <1>1, MovedFields
    <2>2. m.score = 0 /\ m.made = {}
      BY <1>1
    <2>3. (m.moved \/ farthest # cell) = (farthest # cell)
      BY <1>1
    <2> QED BY <1>1, <2>1, <2>2, <2>3
  <1>7. CASE k = 0
    <2>1. farthest = cell /\ next = Shifted(cell, vector, 1)
      BY <1>2, <1>7 DEF next
    <2>2. CanGo(board, cell, direction)
             <=> board[cell] # Empty /\ next \in Cells /\ board[next] = board[cell]
      BY <1>2, <2>1 DEF CanGo, vector, withinBounds
    <2>3. [[board EXCEPT ![cell] = Empty] EXCEPT ![farthest] = board[cell]] = board
      BY <2>1 DEF Boards
    <2>4. (farthest # cell) = FALSE
      BY <2>1
    <2>5. MovedTo(m, cell, farthest) = m
      BY <1>1, <1>6, <2>3, <2>4
    <2> QED BY <1>3, <1>4, <1>5, <2>2, <2>5 DEF result, m, vector
  <1>8. CASE k >= 1
    <2>1. Shifted(cell, vector, 1) \in Cells /\ board[Shifted(cell, vector, 1)] = Empty
      BY <1>2, <1>8
    <2>2. CanGo(board, cell, direction) <=> board[cell] # Empty
      BY <2>1 DEF CanGo, vector, withinBounds
    <2>3. farthest # cell
      BY <1>2, <1>8
    <2>4. MovedTo(m, cell, farthest).moved = TRUE
      <3>1. (farthest # cell) = TRUE
        BY <2>3
      <3>2. MovedTo(m, cell, farthest).moved = (farthest # cell)
        BY <1>6
      <3> QED BY <3>1, <3>2
    <2>5. board[cell] # Empty => result.moved = TRUE
      BY <1>3, <1>5, <2>4
    <2>6. board[cell] = Empty => result = m
      BY <1>3
    <2> QED BY <2>2, <2>5, <2>6 DEF result, m, vector
  <1>9. k = 0 \/ k >= 1
    BY <1>2, CellCountNat
  <1> QED BY <1>7, <1>8, <1>9, Zenon

(* What has moved stays moved. *)
LEMMA MovedStays ==
  ASSUME NEW m \in MoveStates, m.moved, NEW cell \in Cells, NEW direction \in Directions
  PROVE  VisitCell(m, cell, Vector(direction)).moved
  <1>1. \A next : Merged(m, cell, next).moved = TRUE
    BY MergedFields
  <1>2. \A farthest : MovedTo(m, cell, farthest).moved = TRUE
    <2> TAKE farthest
    <2>1. (m.moved \/ farthest # cell) = TRUE
      OBVIOUS
    <2>2. MovedTo(m, cell, farthest).moved = (m.moved \/ farthest # cell)
      BY MovedFields
    <2> QED BY <2>1, <2>2
  <1> DEFINE result == VisitCell(m, cell, Vector(direction))
  <1>3. \/ result = m
        \/ \E next : result = Merged(m, cell, next)
        \/ \E farthest : result = MovedTo(m, cell, farthest)
    <2>1. \/ m.board[cell] = Empty /\ result = m
          \/ /\ m.board[cell] # Empty
             /\ \E next \in Cells \ {cell} : CanMerge(m, cell, next) /\ result = Merged(m, cell, next)
          \/ /\ m.board[cell] # Empty
             /\ \E farthest \in Cells : /\ farthest = cell \/ m.board[farthest] = Empty
                                        /\ result = MovedTo(m, cell, farthest)
      BY VisitCases
    <2> HIDE DEF result
    <2> QED BY <2>1
  <1> HIDE DEF result
  <1>4. result.moved
    BY <1>1, <1>2, <1>3
  <1> QED BY <1>4 DEF result

(* A move moves something exactly when some tile has somewhere to go on the
   board before it: no tile gets its chance by the move of another one alone.
   Otherwise it does nothing at all. *)
THEOREM MovesExactlyWhen ==
  ASSUME NEW board \in Boards, Roomy(board), NEW direction \in Directions
  PROVE  /\ move(board, direction).moved <=> \E cell \in Cells : CanGo(board, cell, direction)
         /\ ~move(board, direction).moved => move(board, direction) = Started(board)
  <1> DEFINE goes == \E cell \in Cells : CanGo(board, cell, direction)
             States == {m \in RoomyStates : (m.moved => goes) /\ (~m.moved => m = Started(board))}
             visits == Visits(board, direction)
  <1>1. CellCount \in Nat
    BY CellCountNat
  <1>2. Started(board) \in States
    BY DEF Started, RoomyStates, MoveStates
  <1>3. ASSUME NEW m \in States, NEW cell \in Cells PROVE VisitCell(m, cell, Vector(direction)) \in States
    <2>1. m \in RoomyStates /\ m \in MoveStates /\ m.moved \in BOOLEAN
      BY DEF RoomyStates, MoveStates
    <2>2. VisitCell(m, cell, Vector(direction)) \in RoomyStates
      BY <2>1, VisitRoomy
    <2>3. CASE m.moved
      BY <2>1, <2>2, <2>3, MovedStays
    <2>4. CASE ~m.moved
      <3>1. m = Started(board)
        BY <2>4
      <3>2. CASE CanGo(board, cell, direction)
        BY <2>2, <3>1, <3>2, FirstVisit
      <3>3. CASE ~CanGo(board, cell, direction)
        BY <3>1, <3>3, FirstVisit
      <3> QED BY <3>2, <3>3
    <2> QED BY <2>3, <2>4
  <1>4. (\A k \in 0 .. CellCount : visits[k] \in States) /\ move(board, direction) \in States
    <2> HIDE DEF States
    <2> QED BY <1>2, <1>3, MoveInduction
  <1>5. ASSUME NEW cell \in Cells, CanGo(board, cell, direction) PROVE move(board, direction).moved
    <2>1. PICK n \in 1 .. CellCount : Visited(direction, n) = cell
      BY VisitedCells
    <2> DEFINE P == {k \in 0 .. CellCount : k >= n => visits[k].moved}
    <2>2. 0 \in P
      BY <1>1
    <2>3. ASSUME NEW k \in 0 .. CellCount - 1, k \in P PROVE k + 1 \in P
      <3>1. k + 1 \in 1 .. CellCount /\ (k + 1) - 1 = k /\ k \in 0 .. CellCount /\ k + 1 \in 0 .. CellCount
        BY <1>1
      <3>2. /\ visits[k + 1] = VisitCell(visits[k], Visited(direction, k + 1), Vector(direction))
            /\ Visited(direction, k + 1) \in Cells
        BY <3>1, VisitsSteps, VisitedCells
      <3>3. visits[k] \in States
        BY <1>4, <3>1
      <3>4. visits[k] \in MoveStates /\ (~visits[k].moved => visits[k] = Started(board))
        BY <3>3 DEF RoomyStates
      <3>5. CASE visits[k].moved
        BY <3>1, <3>2, <3>4, <3>5, MovedStays
      <3>6. CASE ~visits[k].moved /\ k + 1 = n
        <4>1. visits[k + 1] = VisitCell(Started(board), cell, Vector(direction))
          BY <2>1, <3>2, <3>4, <3>6
        <4> QED BY <1>5, <3>1, <4>1, FirstVisit
      <3>7. CASE ~visits[k].moved /\ k + 1 # n
        <4>1. ~(k >= n)
          BY <2>3, <3>7
        <4> QED BY <3>1, <3>7, <4>1
      <3> QED BY <3>5, <3>6, <3>7
    <2>4. 0 .. CellCount \subseteq P
      <3> HIDE DEF P
      <3> QED BY <1>1, <2>2, <2>3, BoundedInduction
    <2>5. CellCount \in P
      BY <1>1, <2>4
    <2> QED BY <2>5 DEF move, CellCount
  <1>6. /\ move(board, direction).moved => goes
        /\ ~move(board, direction).moved => move(board, direction) = Started(board)
    BY <1>4
  <1> QED BY <1>5, <1>6

(* Where a row has a tile and a free cell, a tile has a free cell beside it. *)
LEMMA FreeInRow ==
  ASSUME NEW board, NEW a \in 0 .. Size - 1, NEW b \in 0 .. Size - 1, NEW y \in 0 .. Size - 1, a < b,
         (board[<<a, y>>] = Empty) # (board[<<b, y>>] = Empty)
  PROVE  \E cell \in Cells, direction \in Directions : CanGo(board, cell, direction)
  <1> DEFINE P == {x \in Int : board[<<x, y>>] = Empty}
  <1>1. Size \in Nat /\ a \in Int /\ b \in Int /\ (a \in P) # (b \in P)
    BY CellCountNat
  <1>2. PICK k \in a .. b - 1 : (k \in P) # (k + 1 \in P)
    <2> HIDE DEF P
    <2> QED BY <1>1, LeavesSomewhere
  <1>3. k \in Int /\ <<k, y>> \in Cells /\ <<k + 1, y>> \in Cells
    BY <1>1, <1>2 DEF Cells
  <1>4. (board[<<k, y>>] = Empty) # (board[<<k + 1, y>>] = Empty)
    BY <1>2, <1>3
  <1>5. 1 \in Directions /\ 3 \in Directions /\ Vector(1) = <<1, 0>> /\ Vector(3) = <<-1, 0>>
    BY DEF Directions, Vector
  <1>6. Shifted(<<k, y>>, <<1, 0>>, 1) = <<k + 1, y>> /\ Shifted(<<k + 1, y>>, <<-1, 0>>, 1) = <<k, y>>
    BY <1>1, <1>3 DEF Shifted
  <1>7. CASE board[<<k, y>>] # Empty
    BY <1>3, <1>4, <1>5, <1>6, <1>7 DEF CanGo, withinBounds
  <1>8. CASE board[<<k, y>>] = Empty
    BY <1>3, <1>4, <1>5, <1>6, <1>8 DEF CanGo, withinBounds
  <1> QED BY <1>7, <1>8

(* And the same in a column. *)
LEMMA FreeInColumn ==
  ASSUME NEW board, NEW x \in 0 .. Size - 1, NEW a \in 0 .. Size - 1, NEW b \in 0 .. Size - 1, a < b,
         (board[<<x, a>>] = Empty) # (board[<<x, b>>] = Empty)
  PROVE  \E cell \in Cells, direction \in Directions : CanGo(board, cell, direction)
  <1> DEFINE P == {y \in Int : board[<<x, y>>] = Empty}
  <1>1. Size \in Nat /\ a \in Int /\ b \in Int /\ (a \in P) # (b \in P)
    BY CellCountNat
  <1>2. PICK k \in a .. b - 1 : (k \in P) # (k + 1 \in P)
    <2> HIDE DEF P
    <2> QED BY <1>1, LeavesSomewhere
  <1>3. k \in Int /\ <<x, k>> \in Cells /\ <<x, k + 1>> \in Cells
    BY <1>1, <1>2 DEF Cells
  <1>4. (board[<<x, k>>] = Empty) # (board[<<x, k + 1>>] = Empty)
    BY <1>2, <1>3
  <1>5. 0 \in Directions /\ 2 \in Directions /\ Vector(0) = <<0, -1>> /\ Vector(2) = <<0, 1>>
    BY DEF Directions, Vector
  <1>6. Shifted(<<x, k>>, <<0, 1>>, 1) = <<x, k + 1>> /\ Shifted(<<x, k + 1>>, <<0, -1>>, 1) = <<x, k>>
    BY <1>1, <1>3 DEF Shifted
  <1>7. CASE board[<<x, k>>] # Empty
    BY <1>3, <1>4, <1>5, <1>6, <1>7 DEF CanGo, withinBounds
  <1>8. CASE board[<<x, k>>] = Empty
    BY <1>3, <1>4, <1>5, <1>6, <1>8 DEF CanGo, withinBounds
  <1> QED BY <1>7, <1>8

(* On a board with a tile and a free cell some tile can go: along the row of
   one of them, or else along the column of the other. *)
LEMMA FreeMeansGo ==
  ASSUME NEW board, NEW tile \in Cells, board[tile] # Empty, NEW free \in Cells, board[free] = Empty
  PROVE  \E cell \in Cells, direction \in Directions : CanGo(board, cell, direction)
  <1>1. PICK a \in 0 .. Size - 1, b \in 0 .. Size - 1 : tile = <<a, b>>
    BY DEF Cells
  <1>2. PICK c \in 0 .. Size - 1, d \in 0 .. Size - 1 : free = <<c, d>>
    BY DEF Cells
  <1>3. Size \in Nat
    BY CellCountNat
  <1>4. CASE board[<<a, d>>] = Empty
    <2>1. board[<<a, b>>] # Empty /\ (b < d \/ d < b)
      BY <1>1, <1>3, <1>4
    <2>2. CASE b < d
      BY <1>4, <2>1, <2>2, FreeInColumn
    <2>3. CASE d < b
      BY <1>4, <2>1, <2>3, FreeInColumn
    <2> QED BY <2>1, <2>2, <2>3
  <1>5. CASE board[<<a, d>>] # Empty
    <2>1. board[<<c, d>>] = Empty /\ (a < c \/ c < a)
      BY <1>2, <1>3, <1>5
    <2>2. CASE a < c
      BY <1>5, <2>1, <2>2, FreeInRow
    <2>3. CASE c < a
      BY <1>5, <2>1, <2>3, FreeInRow
    <2> QED BY <2>1, <2>2, <2>3
  <1> QED BY <1>4, <1>5

(* The test of the code for a lost game is right on every board with a tile. *)
THEOREM StuckExactlyWhen ==
  ASSUME NEW board \in Boards, Roomy(board), \E cell \in Cells : board[cell] # Empty
  PROVE  Stuck(board) <=> ~movesAvailable(board)
  <1>1. Stuck(board) <=> ~ \E cell \in Cells, direction \in Directions : CanGo(board, cell, direction)
    BY MovesExactlyWhen DEF Stuck
  <1>2. ASSUME tileMatchesAvailable(board) PROVE \E cell \in Cells, direction \in Directions : CanGo(board, cell, direction)
    BY <1>2 DEF tileMatchesAvailable, CanGo
  <1>3. ASSUME availableCells(board) # {} PROVE \E cell \in Cells, direction \in Directions : CanGo(board, cell, direction)
    <2>1. PICK free \in Cells : board[free] = Empty
      BY <1>3 DEF availableCells
    <2> QED BY <2>1, FreeMeansGo
  <1>4. ASSUME NEW cell \in Cells, NEW direction \in Directions, CanGo(board, cell, direction)
        PROVE  movesAvailable(board)
    BY <1>4 DEF CanGo, movesAvailable, availableCells, tileMatchesAvailable, withinBounds
  <1> QED BY <1>1, <1>2, <1>3, <1>4 DEF movesAvailable

-----------------------------------------------------------------------------
(* How a line is pushed *)

Lines == [1 .. Size -> Nat]

(* What is sent, made and joined when the first j cells of the line have been
   pushed. *)
SentBy(line, k, j) == {i \in 1 .. j : line[i] # Empty /\ Target(line, i) = k}
PushedBy(line, k, j) == IF SentBy(line, k, j) = {} THEN Empty
                        ELSE Cardinality(SentBy(line, k, j)) * line[CHOOSE i \in SentBy(line, k, j) : TRUE]
JoinedBy(line, k, j) == Cardinality(SentBy(line, k, j)) = 2

(* Places are taken one after the other, by the tiles that lead. *)
LEMMA TargetSteps ==
  ASSUME NEW line, NEW j \in Nat
  PROVE  /\ Target(line, 0) = 0
         /\ Target(line, j) \in 0 .. j
         /\ Target(line, j + 1) = Target(line, j) + IF Leads(line, j + 1) THEN 1 ELSE 0
  <1> DEFINE S(n) == {h \in 1 .. n : Leads(line, h)}
  <1>1. Target(line, 0) = 0
    <2>1. S(0) = {}
      OBVIOUS
    <2> QED BY <2>1, FS_EmptySet DEF Target
  <1>2. IsFiniteSet(S(j)) /\ Cardinality(S(j)) \in 0 .. j
    <2>1. IsFiniteSet(1 .. j) /\ Cardinality(1 .. j) = j
      BY FS_Interval
    <2>2. S(j) \subseteq 1 .. j
      OBVIOUS
    <2> HIDE DEF S
    <2>3. IsFiniteSet(S(j)) /\ Cardinality(S(j)) <= Cardinality(1 .. j) /\ Cardinality(S(j)) \in Nat
      BY <2>1, <2>2, FS_Subset, FS_CardinalityType
    <2> QED BY <2>1, <2>3
  <1>3. CASE Leads(line, j + 1)
    <2>1. S(j + 1) = S(j) \cup {j + 1} /\ j + 1 \notin S(j)
      BY <1>3
    <2> HIDE DEF S
    <2>2. Cardinality(S(j + 1)) = Cardinality(S(j)) + 1
      BY <1>2, <2>1, FS_AddElement
    <2> QED BY <1>1, <1>2, <1>3, <2>2 DEF Target, S
  <1>4. CASE ~Leads(line, j + 1)
    <2>1. S(j + 1) = S(j)
      BY <1>4
    <2>2. Target(line, j) = Cardinality(S(j)) /\ Target(line, j + 1) = Cardinality(S(j + 1))
      BY DEF Target
    <2> HIDE DEF S
    <2> QED BY <1>1, <1>2, <1>4, <2>1, <2>2
  <1> QED BY <1>3, <1>4

(* The next tile is sent to its place. *)
LEMMA SentSteps ==
  ASSUME NEW line, NEW k, NEW j \in Nat
  PROVE  SentBy(line, k, j + 1) = SentBy(line, k, j) \cup
            IF line[j + 1] # Empty /\ Target(line, j + 1) = k THEN {j + 1} ELSE {}
  <1>1. 1 .. j + 1 = (1 .. j) \cup {j + 1}
    OBVIOUS
  <1> QED BY <1>1 DEF SentBy

(* Runs are finite. *)
LEMMA RunFinite ==
  ASSUME NEW line, NEW i \in Nat
  PROVE  IsFiniteSet(Run(line, i)) /\ Cardinality(Run(line, i)) \in Nat /\ Run(line, i) \subseteq 1 .. i
  <1>1. Run(line, i) \subseteq 1 .. i
    BY DEF Run
  <1>2. IsFiniteSet(1 .. i)
    BY FS_Interval
  <1>3. IsFiniteSet(Run(line, i))
    BY <1>1, <1>2, FS_Subset
  <1> QED BY <1>1, <1>3, FS_CardinalityType

(* A tile without one before it leads. *)
LEMMA FirstLeads ==
  ASSUME NEW line, NEW i \in Nat \ {0}, line[i] # Empty, \A h \in 1 .. i - 1 : line[h] = Empty
  PROVE  Leads(line, i)
  <1>1. Run(line, i) = {i}
    BY DEF Run
  <1>2. Cardinality(Run(line, i)) = 1
    BY <1>1, FS_Singleton
  <1>3. 1 % 2 = 1
    OBVIOUS
  <1> QED BY <1>2, <1>3 DEF Leads

(* After another one of its kind a tile leads if that one does not; after one of
   another kind it leads. *)
LEMMA NextLeads ==
  ASSUME NEW line, NEW i \in Nat, NEW q \in 1 .. i - 1, line[i] # Empty, line[q] # Empty,
         \A h \in q + 1 .. i - 1 : line[h] = Empty
  PROVE  Leads(line, i) <=> ~(line[q] = line[i] /\ Leads(line, q))
  <1>1. CASE line[q] = line[i]
    <2>1. Run(line, i) = Run(line, q) \cup {i}
      <3>1. ASSUME NEW x \in 1 .. q PROVE x \in Run(line, i) <=> x \in Run(line, q)
        <4>1. \A h : h \in x .. i <=> (h \in x .. q \/ h \in q + 1 .. i - 1 \/ h = i)
          OBVIOUS
        <4> QED BY <1>1, <4>1 DEF Run
      <3>2. \A x \in q + 1 .. i - 1 : x \notin Run(line, i)
        BY DEF Run
      <3>3. i \in Run(line, i)
        BY DEF Run
      <3>4. \A x : x \in 1 .. i <=> (x \in 1 .. q \/ x \in q + 1 .. i - 1 \/ x = i)
        OBVIOUS
      <3>5. Run(line, i) \subseteq 1 .. i /\ Run(line, q) \subseteq 1 .. q
        BY DEF Run
      <3> QED BY <3>1, <3>2, <3>3, <3>4, <3>5
    <2>2. i \notin Run(line, q)
      BY DEF Run
    <2>3. IsFiniteSet(Run(line, q)) /\ Cardinality(Run(line, q)) \in Nat
      BY RunFinite
    <2>4. Cardinality(Run(line, i)) = Cardinality(Run(line, q)) + 1
      BY <2>1, <2>2, <2>3, FS_AddElement
    <2>5. \A c \in Nat : (c + 1) % 2 = 1 <=> ~(c % 2 = 1)
      OBVIOUS
    <2> QED BY <1>1, <2>3, <2>4, <2>5 DEF Leads
  <1>2. CASE line[q] # line[i]
    <2>1. \A x \in 1 .. q : x \notin Run(line, i)
      BY <1>2 DEF Run
    <2>2. Run(line, i) = {i}
      BY <2>1 DEF Run
    <2>3. Cardinality(Run(line, i)) = 1
      BY <2>2, FS_Singleton
    <2>4. 1 % 2 = 1
      OBVIOUS
    <2> QED BY <1>2, <2>3, <2>4 DEF Leads
  <1> QED BY <1>1, <1>2

(* After j cells the places up to the target of the last one are taken, each by
   one tile or two of a kind, and the last place has two exactly when the last
   tile does not lead. *)
Taken(line, j) ==
  LET t == Target(line, j)
  IN  /\ \A k : k \notin 1 .. t => SentBy(line, k, j) = {}
      /\ \A k \in 1 .. t : \E a, b \in 1 .. j : /\ SentBy(line, k, j) = {a, b}
                                                /\ line[a] # Empty /\ line[b] = line[a]
      /\ \/ t = 0 /\ \A h \in 1 .. j : line[h] = Empty
         \/ \E q \in 1 .. j : /\ line[q] # Empty /\ \A h \in q + 1 .. j : line[h] = Empty
                              /\ t >= 1 /\ q \in SentBy(line, t, j)
                              /\ Leads(line, q) <=> SentBy(line, t, j) = {q}

(* What the next tile does: it leads to a new place, or it joins the only tile
   of the last place. *)
LEMMA NextTile ==
  ASSUME NEW line, NEW j \in Nat, Taken(line, j), line[j + 1] # Empty
  PROVE  LET t == Target(line, j)
         IN  Leads(line, j + 1) <=> ~ \E a \in 1 .. j : /\ t >= 1 /\ SentBy(line, t, j) = {a}
                                                        /\ line[a] = line[j + 1]
  <1> DEFINE t == Target(line, j)
             i == j + 1
  <1>1. CASE t = 0 /\ \A h \in 1 .. j : line[h] = Empty
    <2>1. Leads(line, i)
      BY <1>1, FirstLeads
    <2> QED BY <1>1, <2>1
  <1>2. ASSUME NEW q \in 1 .. j, line[q] # Empty, \A h \in q + 1 .. j : line[h] = Empty,
               t >= 1, q \in SentBy(line, t, j), Leads(line, q) <=> SentBy(line, t, j) = {q}
        PROVE  Leads(line, i) <=> ~ \E a \in 1 .. j : t >= 1 /\ SentBy(line, t, j) = {a} /\ line[a] = line[i]
    <2>1. Leads(line, i) <=> ~(line[q] = line[i] /\ Leads(line, q))
      <3>1. i \in Nat /\ q \in 1 .. i - 1 /\ i - 1 = j
        OBVIOUS
      <3> HIDE DEF i
      <3>2. line[i] # Empty
        BY DEF i
      <3> QED BY <1>2, <3>1, <3>2, NextLeads
    <2> HIDE DEF t, i
    <2>2. \A a : SentBy(line, t, j) = {a} => a = q
      BY <1>2
    <2> QED BY <1>2, <2>1, <2>2
  <1> QED BY <1>1, <1>2 DEF Taken

(* Pushing one more cell. *)
LEMMA TakenSteps ==
  ASSUME NEW line, NEW j \in Nat, Taken(line, j)
  PROVE  Taken(line, j + 1)
  <1> DEFINE t == Target(line, j)
             i == j + 1
             u == Target(line, i)
  <1>1. t \in 0 .. j /\ u = t + IF Leads(line, i) THEN 1 ELSE 0
    BY TargetSteps
  <1>2. \A k : SentBy(line, k, i) = SentBy(line, k, j) \cup IF line[i] # Empty /\ u = k THEN {i} ELSE {}
    BY SentSteps
  <1>3. /\ \A k : k \notin 1 .. t => SentBy(line, k, j) = {}
        /\ \A k \in 1 .. t : \E a, b \in 1 .. j : /\ SentBy(line, k, j) = {a, b}
                                                  /\ line[a] # Empty /\ line[b] = line[a]
    BY DEF Taken
  <1>4. \/ t = 0 /\ \A h \in 1 .. j : line[h] = Empty
        \/ \E q \in 1 .. j : /\ line[q] # Empty /\ \A h \in q + 1 .. j : line[h] = Empty
                             /\ t >= 1 /\ q \in SentBy(line, t, j)
                             /\ Leads(line, q) <=> SentBy(line, t, j) = {q}
    BY DEF Taken
  <1>5. 1 .. j \subseteq 1 .. i /\ i \in 1 .. i /\ i \notin 1 .. j /\ \A x \in 1 .. i : x \in 1 .. j \/ x = i
    OBVIOUS
  <1>10. CASE line[i] = Empty
    <2>1. u = t /\ \A k : SentBy(line, k, i) = SentBy(line, k, j)
      BY <1>1, <1>2, <1>10 DEF Leads
    <2>2. \/ u = 0 /\ \A h \in 1 .. i : line[h] = Empty
          \/ \E q \in 1 .. i : /\ line[q] # Empty /\ \A h \in q + 1 .. i : line[h] = Empty
                               /\ u >= 1 /\ q \in SentBy(line, u, i)
                               /\ Leads(line, q) <=> SentBy(line, u, i) = {q}
      <3>1. CASE t = 0 /\ \A h \in 1 .. j : line[h] = Empty
        BY <1>5, <1>10, <2>1, <3>1
      <3>2. ASSUME NEW q \in 1 .. j, line[q] # Empty, \A h \in q + 1 .. j : line[h] = Empty,
                   t >= 1, q \in SentBy(line, t, j), Leads(line, q) <=> SentBy(line, t, j) = {q}
            PROVE  \E p \in 1 .. i : /\ line[p] # Empty /\ \A h \in p + 1 .. i : line[h] = Empty
                                     /\ u >= 1 /\ p \in SentBy(line, u, i)
                                     /\ Leads(line, p) <=> SentBy(line, u, i) = {p}
        <4>1. q \in 1 .. i
          BY <1>5
        <4>2. \A h \in q + 1 .. i : line[h] = Empty
          <5>1. \A h \in q + 1 .. i : h \in q + 1 .. j \/ h = i
            OBVIOUS
          <5> QED BY <1>10, <3>2, <5>1
        <4> HIDE DEF t, u, i
        <4> QED BY <2>1, <3>2, <4>1, <4>2
      <3> QED BY <1>4, <3>1, <3>2
    <2>3. \A k \in 1 .. u : \E a, b \in 1 .. i : /\ SentBy(line, k, i) = {a, b}
                                                 /\ line[a] # Empty /\ line[b] = line[a]
      <3> HIDE DEF t, u, i
      <3> QED BY <1>3, <1>5, <2>1
    <2>4. \A k : k \notin 1 .. u => SentBy(line, k, i) = {}
      <3> HIDE DEF t, u, i
      <3> QED BY <1>3, <2>1
    <2> QED BY <2>2, <2>3, <2>4 DEF Taken
  <1>11. CASE line[i] # Empty /\ Leads(line, i)
    <2>1. u = t + 1
      BY <1>1, <1>11
    <2> HIDE DEF t, u
    <2>2. SentBy(line, u, i) = {i}
      <3>1. u \notin 1 .. t
        BY <1>1, <2>1
      <3> QED BY <1>2, <1>3, <1>11, <3>1
    <2>3. \A k : k # u => SentBy(line, k, i) = SentBy(line, k, j)
      BY <1>2
    <2>4. \A k : k \in 1 .. u <=> k \in 1 .. t \/ k = u
      BY <1>1, <2>1
    <2>5. \A k \in 1 .. u : \E a, b \in 1 .. i : /\ SentBy(line, k, i) = {a, b}
                                                 /\ line[a] # Empty /\ line[b] = line[a]
      <3> SUFFICES ASSUME NEW k \in 1 .. u
                   PROVE  \E a, b \in 1 .. i : /\ SentBy(line, k, i) = {a, b}
                                               /\ line[a] # Empty /\ line[b] = line[a]
        OBVIOUS
      <3>1. CASE k = u
        <4>1. {i} = {i, i}
          OBVIOUS
        <4> HIDE DEF i
        <4> QED BY <1>5, <1>11, <2>2, <3>1, <4>1
      <3>2. CASE k # u
        <4>1. k \in 1 .. t
          BY <2>4, <3>2
        <4> HIDE DEF i
        <4> QED BY <1>3, <1>5, <2>3, <3>2, <4>1
      <3> QED BY <3>1, <3>2
    <2>6. \A k : k \notin 1 .. u => SentBy(line, k, i) = {}
      <3> HIDE DEF i
      <3> QED BY <1>1, <1>3, <2>1, <2>3, <2>4
    <2>7. u >= 1 /\ i \in SentBy(line, u, i) /\ \A h \in i + 1 .. i : line[h] = Empty
      BY <1>1, <2>1, <2>2
    <2> QED BY <1>5, <1>11, <2>2, <2>5, <2>6, <2>7 DEF Taken, u
  <1>12. CASE line[i] # Empty /\ ~Leads(line, i)
    <2>1. u = t
      BY <1>1, <1>12
    <2>2. PICK a \in 1 .. j : t >= 1 /\ SentBy(line, t, j) = {a} /\ line[a] = line[i]
      BY <1>12, NextTile
    <2> HIDE DEF t, u
    <2>3. SentBy(line, u, i) = {a, i}
      BY <1>2, <1>12, <2>1, <2>2
    <2>4. \A k : k # u => SentBy(line, k, i) = SentBy(line, k, j)
      BY <1>2
    <2> HIDE DEF i
    <2>5. \A k \in 1 .. u : \E x, y \in 1 .. i : /\ SentBy(line, k, i) = {x, y}
                                                 /\ line[x] # Empty /\ line[y] = line[x]
      <3> SUFFICES ASSUME NEW k \in 1 .. u
                   PROVE  \E x, y \in 1 .. i : /\ SentBy(line, k, i) = {x, y}
                                               /\ line[x] # Empty /\ line[y] = line[x]
        OBVIOUS
      <3>1. CASE k = u
        BY <1>5, <1>12, <2>2, <2>3, <3>1
      <3>2. CASE k # u
        BY <1>3, <1>5, <2>1, <2>4, <3>2
      <3> QED BY <3>1, <3>2
    <2>6. \A k : k \notin 1 .. u => SentBy(line, k, i) = {}
      <3> SUFFICES ASSUME NEW k, k \notin 1 .. u PROVE SentBy(line, k, i) = {}
        OBVIOUS
      <3>1. k # u
        BY <1>1, <2>1, <2>2
      <3> QED BY <1>3, <2>1, <2>4, <3>1
    <2>7. u >= 1 /\ i \in SentBy(line, u, i) /\ SentBy(line, u, i) # {i}
      BY <1>5, <2>1, <2>2, <2>3
    <2>8. \A h \in i + 1 .. i : line[h] = Empty
      BY DEF i
    <2> QED BY <1>5, <1>12, <2>5, <2>6, <2>7, <2>8 DEF Taken, u, i
  <1> QED BY <1>10, <1>11, <1>12

(* So it is after any number of cells. *)
LEMMA AlwaysTaken ==
  ASSUME NEW line, NEW j \in Nat
  PROVE  Taken(line, j)
  <1> DEFINE P == {n \in Nat : Taken(line, n)}
  <1>1. 0 \in P
    <2>1. Target(line, 0) = 0
      BY TargetSteps
    <2>2. \A k : SentBy(line, k, 0) = {}
      BY DEF SentBy
    <2> QED BY <2>1, <2>2 DEF Taken
  <1>2. ASSUME NEW n \in P PROVE n + 1 \in P
    BY <1>2, TakenSteps
  <1>3. P = Nat
    <2> HIDE DEF P
    <2>1. P \subseteq Nat
      BY DEF P
    <2> QED BY <1>1, <1>2, <2>1, SetInduction
  <1> QED BY <1>3

(* What is at a place nothing is sent to. *)
LEMMA NothingPushed ==
  ASSUME NEW line, NEW k, NEW j, SentBy(line, k, j) = {}
  PROVE  PushedBy(line, k, j) = Empty /\ ~JoinedBy(line, k, j)
  <1>1. Cardinality({}) = 0
    BY FS_EmptySet
  <1> QED BY <1>1 DEF PushedBy, JoinedBy

(* What is at a place one tile is sent to, or two of a kind. *)
LEMMA TilesPushed ==
  ASSUME NEW line, NEW k, NEW j, NEW a, NEW b, SentBy(line, k, j) = {a, b}, line[a] \in Nat, line[b] = line[a]
  PROVE  /\ PushedBy(line, k, j) = IF a = b THEN line[a] ELSE 2 * line[a]
         /\ JoinedBy(line, k, j) <=> a # b
  <1> DEFINE c == CHOOSE i \in {a, b} : TRUE
  <1>1. line[c] = line[a]
    <2>1. c = a \/ c = b
      OBVIOUS
    <2> HIDE DEF c
    <2> QED BY <2>1
  <1>2. PushedBy(line, k, j) = Cardinality({a, b}) * line[c]
    BY DEF PushedBy
  <1> HIDE DEF c
  <1>3. Cardinality({a, b}) = IF a = b THEN 1 ELSE 2
    <2>1. CASE a = b
      <3>1. {a, b} = {a}
        BY <2>1
      <3>2. Cardinality({a}) = 1
        BY FS_Singleton
      <3> QED BY <2>1, <3>1, <3>2
    <2>2. CASE a # b
      <3>1. {a, b} = {a} \cup {b} /\ b \notin {a}
        BY <2>2
      <3>2. IsFiniteSet({a}) /\ Cardinality({a}) = 1
        BY FS_Singleton
      <3>3. Cardinality({a} \cup {b}) = Cardinality({a}) + 1
        BY <3>1, <3>2, FS_AddElement
      <3> QED BY <2>2, <3>1, <3>2, <3>3
    <2> QED BY <2>1, <2>2
  <1>4. JoinedBy(line, k, j) <=> Cardinality({a, b}) = 2
    BY DEF JoinedBy
  <1> QED BY <1>1, <1>2, <1>3, <1>4

(* The tile of the next cell joins the one at the last place taken: it is the
   same, and did not come of two. *)
Joins(line, j) == LET t == Target(line, j)
                  IN  t >= 1 /\ PushedBy(line, t, j) = line[j + 1] /\ ~JoinedBy(line, t, j)

(* The places that are taken after j cells. *)
LEMMA PlacesTaken ==
  ASSUME NEW line \in Lines, NEW j \in 0 .. Size
  PROVE  LET t == Target(line, j)
         IN  /\ t \in 0 .. j
             /\ \A k \in Int : PushedBy(line, k, j) # Empty <=> k \in 1 .. t
             /\ \A k : k \notin 1 .. t => SentBy(line, k, j) = {} /\ ~JoinedBy(line, k, j)
             /\ \A k : PushedBy(line, k, j) \in Nat
  <1> DEFINE t == Target(line, j)
  <1>1. j \in Nat /\ 1 .. j \subseteq 1 .. Size
    BY CellCountNat
  <1>2. t \in 0 .. j
    BY <1>1, TargetSteps
  <1>3. /\ \A k : k \notin 1 .. t => SentBy(line, k, j) = {}
        /\ \A k \in 1 .. t : \E a, b \in 1 .. j : /\ SentBy(line, k, j) = {a, b}
                                                  /\ line[a] # Empty /\ line[b] = line[a]
    BY <1>1, AlwaysTaken DEF Taken
  <1> HIDE DEF t
  <1>4. ASSUME NEW k, k \notin 1 .. t
        PROVE  PushedBy(line, k, j) = Empty /\ SentBy(line, k, j) = {} /\ ~JoinedBy(line, k, j)
    BY <1>3, <1>4, NothingPushed
  <1>5. ASSUME NEW k \in 1 .. t PROVE PushedBy(line, k, j) # Empty /\ PushedBy(line, k, j) \in Nat
    <2>1. PICK a \in 1 .. j, b \in 1 .. j : /\ SentBy(line, k, j) = {a, b}
                                            /\ line[a] # Empty /\ line[b] = line[a]
      BY <1>3
    <2>2. line[a] \in Nat
      BY <1>1 DEF Lines
    <2>3. PushedBy(line, k, j) = IF a = b THEN line[a] ELSE 2 * line[a]
      BY <2>1, <2>2, TilesPushed
    <2> QED BY <2>1, <2>2, <2>3 DEF Empty
  <1>6. Empty \in Nat
    BY DEF Empty
  <1> QED BY <1>2, <1>4, <1>5, <1>6 DEF t

(* Pushing the next cell: a free one changes nothing. *)
LEMMA PushFree ==
  ASSUME NEW line \in Lines, NEW j \in 0 .. Size - 1, line[j + 1] = Empty
  PROVE  /\ Target(line, j + 1) = Target(line, j)
         /\ \A k : SentBy(line, k, j + 1) = SentBy(line, k, j)
         /\ \A k : PushedBy(line, k, j + 1) = PushedBy(line, k, j)
         /\ \A k : JoinedBy(line, k, j + 1) <=> JoinedBy(line, k, j)
  <1>1. j \in Nat
    OBVIOUS
  <1>2. Target(line, j + 1) = Target(line, j)
    BY <1>1, TargetSteps DEF Leads
  <1>3. ASSUME NEW k
        PROVE  /\ SentBy(line, k, j + 1) = SentBy(line, k, j)
               /\ PushedBy(line, k, j + 1) = PushedBy(line, k, j)
               /\ JoinedBy(line, k, j + 1) <=> JoinedBy(line, k, j)
    <2>1. SentBy(line, k, j + 1) = SentBy(line, k, j) \cup
             IF line[j + 1] # Empty /\ Target(line, j + 1) = k THEN {j + 1} ELSE {}
      BY <1>1, SentSteps
    <2>2. SentBy(line, k, j + 1) = SentBy(line, k, j)
      BY <2>1
    <2> DEFINE i == j + 1
    <2> HIDE DEF i
    <2>3. SentBy(line, k, i) = SentBy(line, k, j)
      BY <2>2 DEF i
    <2>4. PushedBy(line, k, i) = PushedBy(line, k, j) /\ (JoinedBy(line, k, i) <=> JoinedBy(line, k, j))
      BY <2>3 DEF PushedBy, JoinedBy
    <2> QED BY <2>2, <2>4 DEF i
  <1> QED BY <1>2, <1>3

(* And a tile joins the one at the last place or takes the next one. *)
LEMMA PushTile ==
  ASSUME NEW line \in Lines, NEW j \in 0 .. Size - 1, line[j + 1] # Empty
  PROVE  LET t == Target(line, j)
             place == IF Joins(line, j) THEN t ELSE t + 1
         IN  /\ Target(line, j + 1) = place
             /\ PushedBy(line, place, j + 1) = IF Joins(line, j) THEN 2 * line[j + 1] ELSE line[j + 1]
             /\ JoinedBy(line, place, j + 1) <=> Joins(line, j)
             /\ \A k : k # place => /\ PushedBy(line, k, j + 1) = PushedBy(line, k, j)
                                    /\ JoinedBy(line, k, j + 1) <=> JoinedBy(line, k, j)
  <1> DEFINE t == Target(line, j)
             i == j + 1
             place == IF Joins(line, j) THEN t ELSE t + 1
  <1>1. /\ j \in Nat /\ i \in 1 .. Size /\ j \in 0 .. Size /\ 1 .. j \subseteq 1 .. Size /\ i \notin 1 .. j
        /\ t \in 0 .. j
    BY CellCountNat, TargetSteps
  <1>2. /\ \A k : k \notin 1 .. t => SentBy(line, k, j) = {}
        /\ \A k \in 1 .. t : \E a, b \in 1 .. j : /\ SentBy(line, k, j) = {a, b}
                                                  /\ line[a] # Empty /\ line[b] = line[a]
    BY <1>1, AlwaysTaken DEF Taken
  <1>3. Leads(line, i) <=> ~ \E a \in 1 .. j : t >= 1 /\ SentBy(line, t, j) = {a} /\ line[a] = line[i]
    BY <1>1, AlwaysTaken, NextTile
  <1>4. Target(line, i) = t + IF Leads(line, i) THEN 1 ELSE 0
    BY <1>1, TargetSteps
  <1>5. \A k : SentBy(line, k, i) = SentBy(line, k, j) \cup IF Target(line, i) = k THEN {i} ELSE {}
    BY <1>1, SentSteps
  <1>6. \A h \in 1 .. Size : line[h] \in Nat
    BY DEF Lines
  <1> HIDE DEF t, i
  <1>7. ASSUME t >= 1
        PROVE  Joins(line, j) <=> \E a \in 1 .. j : SentBy(line, t, j) = {a} /\ line[a] = line[i]
    <2>1. PICK a \in 1 .. j, b \in 1 .. j : /\ SentBy(line, t, j) = {a, b}
                                            /\ line[a] # Empty /\ line[b] = line[a]
      BY <1>1, <1>2, <1>7
    <2>2. line[a] \in Nat
      BY <1>1, <1>6
    <2>3. /\ PushedBy(line, t, j) = IF a = b THEN line[a] ELSE 2 * line[a]
          /\ JoinedBy(line, t, j) <=> a # b
      BY <2>1, <2>2, TilesPushed
    <2>4. Joins(line, j) <=> a = b /\ line[a] = line[i]
      BY <1>7, <2>3 DEF Joins, t, i
    <2> QED BY <2>1, <2>4
  <1>8. Joins(line, j) => t >= 1
    BY DEF Joins, t
  <1>9. Leads(line, i) <=> ~Joins(line, j)
    BY <1>3, <1>7, <1>8
  <1>10. Target(line, i) = place
    BY <1>1, <1>4, <1>9
  <1>11. ASSUME NEW k, k # place
         PROVE  /\ PushedBy(line, k, i) = PushedBy(line, k, j)
                /\ JoinedBy(line, k, i) <=> JoinedBy(line, k, j)
    <2>1. SentBy(line, k, i) = SentBy(line, k, j)
      BY <1>5, <1>10, <1>11
    <2> QED BY <2>1 DEF PushedBy, JoinedBy
  <1>12. CASE Joins(line, j)
    <2>1. PICK a \in 1 .. j : SentBy(line, t, j) = {a} /\ line[a] = line[i]
      BY <1>7, <1>8, <1>12
    <2>2. SentBy(line, place, i) = {i, a} /\ a # i
      BY <1>1, <1>5, <1>10, <1>12, <2>1
    <2>3. /\ PushedBy(line, place, i) = IF i = a THEN line[i] ELSE 2 * line[i]
          /\ JoinedBy(line, place, i) <=> i # a
      <3> HIDE DEF place
      <3> QED BY <1>1, <1>6, <2>1, <2>2, TilesPushed
    <2> HIDE DEF place
    <2> QED BY <1>10, <1>11, <1>12, <2>2, <2>3 DEF t, i, place
  <1>13. CASE ~Joins(line, j)
    <2>1. SentBy(line, place, i) = {i, i}
      <3>1. place \notin 1 .. t
        BY <1>1, <1>13
      <3>2. SentBy(line, place, j) = {}
        BY <1>2, <3>1
      <3> HIDE DEF place
      <3> QED BY <1>5, <1>10, <3>2
    <2>2. PushedBy(line, place, i) = line[i] /\ ~JoinedBy(line, place, i)
      <3> HIDE DEF place
      <3> QED BY <1>1, <1>6, <2>1, TilesPushed
    <2> HIDE DEF place
    <2> QED BY <1>10, <1>11, <1>13, <2>2 DEF t, i, place
  <1> QED BY <1>12, <1>13

(* A line that the push leaves as it is has its tiles at its first cells, no two
   alike beside each other: every tile leads. *)
LEMMA Settled ==
  ASSUME NEW line \in Lines, \A k \in 1 .. Size : PushedBy(line, k, Size) = line[k],
         NEW i \in 2 .. Size, line[i] # Empty
  PROVE  line[i - 1] # Empty /\ line[i - 1] # line[i]
  <1> DEFINE t == Target(line, Size)
             leaders == {h \in 1 .. Size : Leads(line, h)}
  <1>1. Size \in Nat /\ Size \in 0 .. Size
    BY CellCountNat
  <1>2. t \in 0 .. Size /\ \A k \in 1 .. Size : PushedBy(line, k, Size) # Empty <=> k \in 1 .. t
    BY <1>1, PlacesTaken
  <1>3. t = Cardinality(leaders)
    BY DEF Target
  <1> HIDE DEF t
  <1>4. \A k \in 1 .. Size : line[k] # Empty <=> k \in 1 .. t
    BY <1>2
  <1>5. leaders \subseteq 1 .. t
    BY <1>4 DEF Leads
  <1>6. IsFiniteSet(1 .. t) /\ Cardinality(1 .. t) = t
    BY <1>2, FS_Interval
  <1> HIDE DEF leaders
  <1>7. leaders = 1 .. t
    BY <1>3, <1>5, <1>6, FS_Subset
  <1>8. i - 1 \in 1 .. Size /\ i \in 1 .. Size /\ i \in Nat
    BY <1>1
  <1>9. i \in 1 .. t /\ i - 1 \in 1 .. t
    BY <1>2, <1>4, <1>8
  <1>10. Leads(line, i) /\ Leads(line, i - 1)
    BY <1>7, <1>9 DEF leaders
  <1>11. line[i - 1] # Empty
    BY <1>10 DEF Leads
  <1>12. Leads(line, i) <=> ~(line[i - 1] = line[i] /\ Leads(line, i - 1))
    <2>1. \A h \in (i - 1) + 1 .. i - 1 : line[h] = Empty
      BY <1>8
    <2>2. i - 1 \in 1 .. i - 1
      BY <1>8
    <2> DEFINE q == i - 1
    <2>3. q \in 1 .. i - 1 /\ line[q] # Empty /\ \A h \in q + 1 .. i - 1 : line[h] = Empty
      BY <1>11, <2>1, <2>2
    <2> HIDE DEF q
    <2>4. Leads(line, i) <=> ~(line[q] = line[i] /\ Leads(line, q))
      BY <1>8, <2>3, NextLeads
    <2> QED BY <2>4 DEF q
  <1> QED BY <1>10, <1>11, <1>12

-----------------------------------------------------------------------------
(* The lines of a board *)

(* The four ways of a line over the board. *)
LEMMA LineCells ==
  ASSUME NEW direction \in Directions
  PROVE  /\ \A n \in 0 .. Size - 1, i \in Int : LineCell(n, direction, i) \in Cells <=> i \in 1 .. Size
         /\ \A n \in Int, i \in Int, k \in Int :
               Shifted(LineCell(n, direction, i), Vector(direction), k) = LineCell(n, direction, i - k)
         /\ \A n \in Int, i \in Int, p \in Int, h \in Int :
               LineCell(n, direction, i) = LineCell(p, direction, h) <=> n = p /\ i = h
         /\ \A cell \in Cells : \E n \in 0 .. Size - 1, i \in 1 .. Size : cell = LineCell(n, direction, i)
  <1>1. Size \in Nat
    BY CellCountNat
  <1>2. direction = 0 \/ direction = 1 \/ direction = 2 \/ direction = 3
    BY DEF Directions
  <1>3. /\ direction = 0 => Vector(direction) = <<0, -1>>
        /\ direction = 1 => Vector(direction) = <<1, 0>>
        /\ direction = 2 => Vector(direction) = <<0, 1>>
        /\ direction = 3 => Vector(direction) = <<-1, 0>>
    BY DEF Vector
  <1>4. ASSUME NEW n, NEW i
        PROVE  /\ direction = 0 => LineCell(n, direction, i) = <<n, i - 1>>
               /\ direction = 1 => LineCell(n, direction, i) = <<Size - i, n>>
               /\ direction = 2 => LineCell(n, direction, i) = <<n, Size - i>>
               /\ direction = 3 => LineCell(n, direction, i) = <<i - 1, n>>
    BY DEF LineCell
  <1>5. ASSUME NEW n \in 0 .. Size - 1, NEW i \in Int
        PROVE  LineCell(n, direction, i) \in Cells <=> i \in 1 .. Size
    <2>1. \A x, y \in Int : <<x, y>> \in Cells <=> x \in 0 .. Size - 1 /\ y \in 0 .. Size - 1
      BY DEF Cells
    <2>2. n \in Int /\ i - 1 \in Int /\ Size - i \in Int
      BY <1>1
    <2>3. i \in 1 .. Size <=> i - 1 \in 0 .. Size - 1
      BY <1>1
    <2>4. i \in 1 .. Size <=> Size - i \in 0 .. Size - 1
      BY <1>1
    <2> QED BY <1>2, <1>4, <2>1, <2>2, <2>3, <2>4
  <1>6. ASSUME NEW n \in Int, NEW i \in Int, NEW k \in Int
        PROVE  Shifted(LineCell(n, direction, i), Vector(direction), k) = LineCell(n, direction, i - k)
    <2>1. /\ Shifted(<<n, i - 1>>, <<0, -1>>, k) = <<n, (i - k) - 1>>
          /\ Shifted(<<Size - i, n>>, <<1, 0>>, k) = <<Size - (i - k), n>>
          /\ Shifted(<<n, Size - i>>, <<0, 1>>, k) = <<n, Size - (i - k)>>
          /\ Shifted(<<i - 1, n>>, <<-1, 0>>, k) = <<(i - k) - 1, n>>
      BY <1>1 DEF Shifted
    <2> DEFINE h == i - k
    <2> HIDE DEF h
    <2>2. /\ direction = 0 => LineCell(n, direction, h) = <<n, h - 1>>
          /\ direction = 1 => LineCell(n, direction, h) = <<Size - h, n>>
          /\ direction = 2 => LineCell(n, direction, h) = <<n, Size - h>>
          /\ direction = 3 => LineCell(n, direction, h) = <<h - 1, n>>
      BY <1>4
    <2>3. CASE direction = 0
      BY <1>3, <1>4, <2>1, <2>2, <2>3 DEF h
    <2>4. CASE direction = 1
      BY <1>3, <1>4, <2>1, <2>2, <2>4 DEF h
    <2>5. CASE direction = 2
      BY <1>3, <1>4, <2>1, <2>2, <2>5 DEF h
    <2>6. CASE direction = 3
      BY <1>3, <1>4, <2>1, <2>2, <2>6 DEF h
    <2> QED BY <1>2, <2>3, <2>4, <2>5, <2>6
  <1>7. ASSUME NEW n \in Int, NEW i \in Int, NEW p \in Int, NEW h \in Int
        PROVE  LineCell(n, direction, i) = LineCell(p, direction, h) <=> n = p /\ i = h
    <2>1. (i - 1 = h - 1 <=> i = h) /\ (Size - i = Size - h <=> i = h)
      BY <1>1
    <2> QED BY <1>2, <1>4, <2>1
  <1>8. ASSUME NEW cell \in Cells
        PROVE  \E n \in 0 .. Size - 1, i \in 1 .. Size : cell = LineCell(n, direction, i)
    <2>1. PICK x \in 0 .. Size - 1, y \in 0 .. Size - 1 : cell = <<x, y>>
      BY DEF Cells
    <2>2. CASE direction = 0
      <3>1. y + 1 \in 1 .. Size /\ (y + 1) - 1 = y
        BY <1>1
      <3>2. LineCell(x, direction, y + 1) = cell
        BY <1>4, <2>1, <2>2, <3>1
      <3> QED BY <3>1, <3>2
    <2>3. CASE direction = 1
      <3>1. Size - x \in 1 .. Size /\ Size - (Size - x) = x
        BY <1>1
      <3>2. LineCell(y, direction, Size - x) = cell
        BY <1>4, <2>1, <2>3, <3>1
      <3> QED BY <3>1, <3>2
    <2>4. CASE direction = 2
      <3>1. Size - y \in 1 .. Size /\ Size - (Size - y) = y
        BY <1>1
      <3>2. LineCell(x, direction, Size - y) = cell
        BY <1>4, <2>1, <2>4, <3>1
      <3> QED BY <3>1, <3>2
    <2>5. CASE direction = 3
      <3>1. x + 1 \in 1 .. Size /\ (x + 1) - 1 = x
        BY <1>1
      <3>2. LineCell(y, direction, x + 1) = cell
        BY <1>4, <2>1, <2>5, <3>1
      <3> QED BY <3>1, <3>2
    <2> QED BY <1>2, <2>2, <2>3, <2>4, <2>5
  <1> QED BY <1>5, <1>6, <1>7, <1>8

(* When the i-th cell of line n is visited. *)
Turn(n, direction, i) == IF direction \in {0, 2} THEN Size * n + i ELSE Size * (i - 1) + n + 1

(* Every cell has its turn, along each line one after the other. *)
LEMMA Turns ==
  ASSUME NEW direction \in Directions, NEW n \in 0 .. Size - 1
  PROVE  /\ \A i \in 1 .. Size : /\ Turn(n, direction, i) \in 1 .. CellCount
                                 /\ Visited(direction, Turn(n, direction, i)) = LineCell(n, direction, i)
         /\ \A i, h \in 1 .. Size : i < h => Turn(n, direction, i) < Turn(n, direction, h)
  <1> DEFINE Along(v, pos) == IF v = 1 THEN Size - 1 - pos ELSE pos
  <1>1. Size \in Nat /\ Size > 0 /\ CellCount \in Nat
    BY CellCountNat
  <1>2. \A k \in 1 .. CellCount :
           Visited(direction, k) = <<Along(Vector(direction)[1], (k - 1) \div Size),
                                     Along(Vector(direction)[2], (k - 1) % Size)>>
    BY DEF Visited, buildTraversals, CellCount
  <1>3. ASSUME NEW a \in 0 .. Size - 1, NEW b \in 0 .. Size - 1
        PROVE  /\ Size * a + b + 1 \in 1 .. CellCount
               /\ (Size * a + b + 1 - 1) \div Size = a
               /\ (Size * a + b + 1 - 1) % Size = b
    <2>1. Size * a <= Size * (Size - 1) /\ Size * a >= 0
      BY <1>1
    <2>2. Size * (Size - 1) = Size * Size - Size
      BY <1>1
    <2>3. Size * a \in Int /\ Size * Size \in Int
      BY <1>1
    <2>4. Size * a + b + 1 \in 1 .. CellCount
      BY <1>1, <2>1, <2>2, <2>3 DEF CellCount
    <2>5. (Size * a + b) \div Size = a /\ (Size * a + b) % Size = b
      BY <1>1
    <2>6. Size * a + b + 1 - 1 = Size * a + b
      BY <2>3
    <2> QED BY <2>4, <2>5, <2>6
  <1>4. ASSUME NEW i \in 1 .. Size
        PROVE  /\ Turn(n, direction, i) \in 1 .. CellCount
               /\ Visited(direction, Turn(n, direction, i)) = LineCell(n, direction, i)
    <2>1. i - 1 \in 0 .. Size - 1 /\ Size * n \in Int /\ Size * (i - 1) \in Int
      BY <1>1
    <2>2. CASE direction \in {0, 2}
      <3>1. Turn(n, direction, i) = Size * n + (i - 1) + 1
        BY <2>1, <2>2 DEF Turn
      <3>2. Turn(n, direction, i) \in 1 .. CellCount
            /\ Visited(direction, Turn(n, direction, i))
                 = <<Along(Vector(direction)[1], n), Along(Vector(direction)[2], i - 1)>>
        BY <1>2, <1>3, <2>1, <3>1
      <3>3. CASE direction = 0
        <4>1. Vector(direction) = <<0, -1>>
          BY <3>3 DEF Vector
        <4>2. Along(0, n) = n /\ Along(-1, i - 1) = i - 1
          OBVIOUS
        <4> QED BY <3>2, <3>3, <4>1, <4>2 DEF LineCell
      <3>4. CASE direction = 2
        <4>1. Vector(direction) = <<0, 1>>
          BY <3>4 DEF Vector
        <4>2. Along(0, n) = n /\ Along(1, i - 1) = Size - i
          BY <1>1
        <4> QED BY <3>2, <3>4, <4>1, <4>2 DEF LineCell
      <3> QED BY <2>2, <3>3, <3>4
    <2>3. CASE direction \in {1, 3}
      <3>1. Turn(n, direction, i) = Size * (i - 1) + n + 1
        BY <2>1, <2>3 DEF Turn
      <3>2. Turn(n, direction, i) \in 1 .. CellCount
            /\ Visited(direction, Turn(n, direction, i))
                 = <<Along(Vector(direction)[1], i - 1), Along(Vector(direction)[2], n)>>
        BY <1>2, <1>3, <2>1, <3>1
      <3>3. CASE direction = 1
        <4>1. Vector(direction) = <<1, 0>>
          BY <3>3 DEF Vector
        <4>2. Along(0, n) = n /\ Along(1, i - 1) = Size - i
          BY <1>1
        <4> QED BY <3>2, <3>3, <4>1, <4>2 DEF LineCell
      <3>4. CASE direction = 3
        <4>1. Vector(direction) = <<-1, 0>>
          BY <3>4 DEF Vector
        <4>2. Along(0, n) = n /\ Along(-1, i - 1) = i - 1
          OBVIOUS
        <4> QED BY <3>2, <3>4, <4>1, <4>2 DEF LineCell
      <3> QED BY <2>3, <3>3, <3>4
    <2> QED BY <2>2, <2>3 DEF Directions
  <1>5. ASSUME NEW i \in 1 .. Size, NEW h \in 1 .. Size, i < h
        PROVE  Turn(n, direction, i) < Turn(n, direction, h)
    <2>1. Size * (i - 1) < Size * (h - 1)
      BY <1>1, <1>5
    <2>2. Size * n \in Int /\ Size * (i - 1) \in Int /\ Size * (h - 1) \in Int
      BY <1>1
    <2> QED BY <1>5, <2>1, <2>2 DEF Turn
  <1> QED BY <1>4, <1>5

(* Every visit is that of a cell of a line, in its turn. *)
LEMMA TurnOf ==
  ASSUME NEW direction \in Directions, NEW k \in 1 .. CellCount
  PROVE  \E n \in 0 .. Size - 1, i \in 1 .. Size : Turn(n, direction, i) = k
  <1>1. Size \in Nat /\ Size > 0 /\ CellCount \in Nat
    BY CellCountNat
  <1> DEFINE a == (k - 1) \div Size
             b == (k - 1) % Size
  <1>2. a \in 0 .. Size - 1 /\ b \in 0 .. Size - 1
    BY <1>1, RowAndColumn
  <1>3. k - 1 = Size * a + b
    BY <1>1
  <1> HIDE DEF a, b
  <1>4. a + 1 \in 1 .. Size /\ (a + 1) - 1 = a /\ b + 1 \in 1 .. Size /\ Size * a \in Int
    BY <1>1, <1>2
  <1>5. CASE direction \in {0, 2}
    <2>1. Turn(a, direction, b + 1) = k
      BY <1>2, <1>3, <1>4, <1>5 DEF Turn
    <2> QED BY <1>2, <1>4, <2>1
  <1>6. CASE direction \notin {0, 2}
    <2>1. Turn(b, direction, a + 1) = k
      BY <1>2, <1>3, <1>4, <1>6 DEF Turn
    <2> QED BY <1>2, <1>4, <2>1
  <1> QED BY <1>5, <1>6

(* The lines of a board are lines. *)
LEMMA LinesOfBoard ==
  ASSUME NEW board \in Boards, NEW direction \in Directions, NEW n \in 0 .. Size - 1
  PROVE  /\ Line(board, n, direction) \in Lines
         /\ \A i \in 1 .. Size : Line(board, n, direction)[i] = board[LineCell(n, direction, i)]
  <1>1. \A i \in 1 .. Size : Line(board, n, direction)[i] = board[LineCell(n, direction, i)]
    BY DEF Line
  <1>2. \A i \in 1 .. Size : LineCell(n, direction, i) \in Cells
    BY LineCells
  <1>3. \A cell \in Cells : board[cell] \in Nat
    BY BoardValues
  <1>4. Line(board, n, direction) = [i \in 1 .. Size |-> board[LineCell(n, direction, i)]]
    BY DEF Line
  <1> QED BY <1>1, <1>2, <1>3, <1>4 DEF Lines

(* In m, line n is as it should be when its first j cells were visited. *)
LineState(m, board, direction, n, j) ==
    LET line == Line(board, n, direction)
    IN  \A i \in 1 .. Size :
           /\ m.board[LineCell(n, direction, i)] = IF i <= j THEN PushedBy(line, i, j) ELSE line[i]
           /\ LineCell(n, direction, i) \in m.merged <=> i <= j /\ JoinedBy(line, i, j)

(* The next tile of such a line goes back to the last place that is taken, and
   merges there exactly when it joins. *)
LEMMA VisitOfLine ==
  ASSUME NEW board \in Boards, NEW direction \in Directions, NEW n \in 0 .. Size - 1,
         NEW m \in MoveStates, NEW j \in 0 .. Size - 1, LineState(m, board, direction, n, j)
  PROVE  LET line == Line(board, n, direction)
             t == Target(line, j)
             cell == LineCell(n, direction, j + 1)
             result == VisitCell(m, cell, Vector(direction))
         IN  /\ t \in 0 .. j
             /\ cell \in Cells /\ m.board[cell] = line[j + 1]
             /\ line[j + 1] = Empty => result = m
             /\ line[j + 1] # Empty /\ Joins(line, j)
                  => t >= 1 /\ result = Merged(m, cell, LineCell(n, direction, t))
             /\ line[j + 1] # Empty /\ ~Joins(line, j) => result = MovedTo(m, cell, LineCell(n, direction, t + 1))
  <1> DEFINE line == Line(board, n, direction)
             t == Target(line, j)
             i == j + 1
             cell == LineCell(n, direction, i)
             vector == Vector(direction)
             k == findFarthestPosition(m.board, cell, vector)
             At(h) == LineCell(n, direction, h)
  <1>1. /\ Size \in Nat /\ j \in Nat /\ i \in 1 .. Size /\ j \in 0 .. Size
        /\ line \in Lines
    BY CellCountNat, LinesOfBoard
  <1>2. /\ t \in 0 .. j
        /\ \A h \in Int : PushedBy(line, h, j) # Empty <=> h \in 1 .. t
    BY <1>1, PlacesTaken
  <1>3. /\ \A h \in Int : At(h) \in Cells <=> h \in 1 .. Size
        /\ \A h \in Int : Shifted(cell, vector, h) = At(i - h)
    <2>1. n \in Int /\ i \in Int
      BY <1>1
    <2> HIDE DEF i
    <2>4. \A p \in Int, q \in Int, h \in Int :
             Shifted(LineCell(p, direction, q), Vector(direction), h) = LineCell(p, direction, q - h)
      BY LineCells
    <2>2. \A h \in Int : Shifted(cell, vector, h) = At(i - h)
      BY <2>1, <2>4, Zenon
    <2>3. \A h \in Int : At(h) \in Cells <=> h \in 1 .. Size
      BY LineCells
    <2> QED BY <2>2, <2>3
  <1>4. \A h \in 1 .. Size : /\ m.board[At(h)] = IF h <= j THEN PushedBy(line, h, j) ELSE line[h]
                             /\ At(h) \in m.merged <=> h <= j /\ JoinedBy(line, h, j)
    BY DEF LineState
  <1> HIDE DEF line
  <1>5. cell \in Cells
    BY <1>1, <1>3
  <1>6. m.board[cell] = line[i]
    BY <1>1, <1>4
  <1>7. /\ k \in 0 .. Size - 1
        /\ \A h \in 1 .. k : /\ Shifted(cell, vector, h) \in Cells
                             /\ m.board[Shifted(cell, vector, h)] = Empty
        /\ ~ /\ Shifted(cell, vector, k + 1) \in Cells
             /\ m.board[Shifted(cell, vector, k + 1)] = Empty
    <2> HIDE DEF cell
    <2> QED BY <1>5, Farthest
  <1>8. VisitCell(m, cell, vector) =
           IF m.board[cell] = Empty THEN m
           ELSE IF CanMerge(m, cell, Shifted(cell, vector, k + 1)) THEN Merged(m, cell, Shifted(cell, vector, k + 1))
           ELSE MovedTo(m, cell, Shifted(cell, vector, k))
    BY DEF VisitCell
  <1> HIDE DEF t, k, vector, cell, At
  <1>9. k = j - t
    <2>1. ASSUME k < j - t PROVE FALSE
      <3>1. i - (k + 1) \in t + 1 .. j /\ i - (k + 1) \in 1 .. Size /\ i - (k + 1) \notin 1 .. t
        BY <1>1, <1>2, <1>7, <2>1
      <3>2. Shifted(cell, vector, k + 1) = At(i - (k + 1))
        BY <1>3, <1>7
      <3>3. At(i - (k + 1)) \in Cells
        BY <1>3, <3>1
      <3>4. m.board[At(i - (k + 1))] = Empty
        BY <1>1, <1>2, <1>4, <3>1
      <3> QED BY <1>7, <3>2, <3>3, <3>4
    <2>2. ASSUME k > j - t PROVE FALSE
      <3>1. i - t \in 1 .. k /\ i - (i - t) = t /\ i - t \in Int
        BY <1>1, <1>2, <1>7, <2>2
      <3>2. At(t) \in Cells /\ m.board[At(t)] = Empty
        BY <1>3, <1>7, <3>1
      <3>3. t \in 1 .. Size /\ t <= j
        BY <1>2, <1>3, <3>2
      <3>4. PushedBy(line, t, j) # Empty
        BY <1>2, <3>3
      <3> QED BY <1>4, <3>2, <3>3, <3>4
    <2> QED BY <1>1, <1>2, <1>7, <2>1, <2>2
  <1>10. Shifted(cell, vector, k) = At(t + 1) /\ Shifted(cell, vector, k + 1) = At(t)
    <2>1. k \in Int /\ k + 1 \in Int /\ i - k = t + 1 /\ i - (k + 1) = t
      BY <1>1, <1>2, <1>9
    <2>2. Shifted(cell, vector, k) = At(i - k) /\ Shifted(cell, vector, k + 1) = At(i - (k + 1))
      BY <1>3, <2>1
    <2> QED BY <2>1, <2>2
  <1>11. CanMerge(m, cell, At(t)) <=> Joins(line, j)
    <2>1. At(t) \in Cells <=> t >= 1
      BY <1>1, <1>2, <1>3
    <2>2. t >= 1 => /\ m.board[At(t)] = PushedBy(line, t, j)
                    /\ At(t) \in m.merged <=> JoinedBy(line, t, j)
      BY <1>1, <1>2, <1>4
    <2>3. Joins(line, j) <=> t >= 1 /\ PushedBy(line, t, j) = line[i] /\ ~JoinedBy(line, t, j)
      BY DEF Joins, t
    <2> QED BY <1>6, <2>1, <2>2, <2>3 DEF CanMerge, withinBounds
  <1>12. Joins(line, j) => t >= 1
    BY DEF Joins, t
  <1>13. /\ line[i] = Empty => VisitCell(m, cell, vector) = m
         /\ line[i] # Empty /\ Joins(line, j) => VisitCell(m, cell, vector) = Merged(m, cell, At(t))
         /\ line[i] # Empty /\ ~Joins(line, j) => VisitCell(m, cell, vector) = MovedTo(m, cell, At(t + 1))
    BY <1>6, <1>8, <1>10, <1>11
  <1> QED BY <1>2, <1>5, <1>6, <1>12, <1>13 DEF line, t, cell, vector, At

(* What the places of a board have gained in m: the tiles merged into them. *)
Gained(m, direction) ==
    [p \in Places |-> IF LineCell(p[1], direction, p[2]) \in m.merged
                      THEN m.board[LineCell(p[1], direction, p[2])] ELSE 0]

(* What the visit of a cell of line n leaves alone: the other lines. *)
OtherLinesStay(m, result, direction, n) ==
    \A p \in 0 .. Size - 1 : p # n => \A h \in 1 .. Size :
        /\ result.board[LineCell(p, direction, h)] = m.board[LineCell(p, direction, h)]
        /\ LineCell(p, direction, h) \in result.merged <=> LineCell(p, direction, h) \in m.merged

(* What it adds to the score and to the new tiles: nothing, or the tile that it
   makes at a place that had gained nothing. *)
GainAdded(m, result, direction) ==
    \/ /\ result.score = m.score /\ result.made = m.made
       /\ Gained(result, direction) = Gained(m, direction)
    \/ \E p \in Places, v \in Nat \ {0} :
          /\ result.score = m.score + v /\ result.made = m.made \cup {v}
          /\ Gained(m, direction)[p] = 0
          /\ Gained(result, direction) = [Gained(m, direction) EXCEPT ![p] = v]

(* Where the tile merges. *)
LEMMA MergeInLine ==
  ASSUME NEW board \in Boards, NEW direction \in Directions, NEW n \in 0 .. Size - 1,
         NEW m \in MoveStates, NEW j \in 0 .. Size - 1, LineState(m, board, direction, n, j),
         Line(board, n, direction)[j + 1] # Empty, Joins(Line(board, n, direction), j)
  PROVE  LET result == VisitCell(m, LineCell(n, direction, j + 1), Vector(direction))
         IN  /\ LineState(result, board, direction, n, j + 1)
             /\ OtherLinesStay(m, result, direction, n)
             /\ GainAdded(m, result, direction)
  <1> DEFINE line == Line(board, n, direction)
             t == Target(line, j)
             i == j + 1
             At(h) == LineCell(n, direction, h)
             result == VisitCell(m, At(i), Vector(direction))
             v == 2 * line[i]
             G == Gained(m, direction)
             H == Gained(result, direction)
  <1>1. /\ Size \in Nat /\ j \in Nat /\ i \in 1 .. Size /\ j \in 0 .. Size
        /\ line \in Lines /\ n \in Int
    BY CellCountNat, LinesOfBoard
  <1>2. /\ t \in 0 .. j
        /\ \A h \in Int : PushedBy(line, h, j) # Empty <=> h \in 1 .. t
        /\ \A h : h \notin 1 .. t => ~JoinedBy(line, h, j)
    BY <1>1, PlacesTaken
  <1>3. /\ t >= 1 /\ m.board[At(i)] = line[i] /\ At(i) \in Cells
        /\ result = Merged(m, At(i), At(t))
    BY VisitOfLine
  <1>4. /\ PushedBy(line, t, i) = v /\ JoinedBy(line, t, i)
        /\ \A h : h # t => /\ PushedBy(line, h, i) = PushedBy(line, h, j)
                           /\ JoinedBy(line, h, i) <=> JoinedBy(line, h, j)
    BY <1>1, PushTile
  <1>5. \A h \in 1 .. Size : /\ m.board[At(h)] = IF h <= j THEN PushedBy(line, h, j) ELSE line[h]
                             /\ At(h) \in m.merged <=> h <= j /\ JoinedBy(line, h, j)
    BY DEF LineState
  <1>6. line[i] \in Nat /\ line[i] # Empty /\ ~JoinedBy(line, t, j)
    BY <1>1 DEF Lines, Joins
  <1>7. m.board \in [Cells -> Values \cup {Empty}] /\ \A h \in 1 .. Size : At(h) \in Cells
    BY <1>1, LineCells DEF MoveStates, Boards
  <1>8. \A p \in Int, h \in Int, q \in 1 .. Size : LineCell(p, direction, h) = At(q) <=> p = n /\ h = q
    BY <1>1, LineCells
  <1>9. t \in 1 .. Size /\ t # i
    BY <1>1, <1>2, <1>3
  <1> HIDE DEF line, t, result
  <1>10. /\ result.board = [m.board EXCEPT ![At(t)] = 2 * m.board[At(i)], ![At(i)] = Empty]
         /\ result.merged = m.merged \cup {At(t)}
         /\ result.score = m.score + v
         /\ result.made = m.made \cup {v}
    BY <1>3, MergedFields
  <1> HIDE DEF v, i
  <1>11. /\ result.board[At(t)] = v
         /\ result.board[At(i)] = Empty
         /\ \A c \in Cells : c # At(t) /\ c # At(i) => result.board[c] = m.board[c]
    <2>1. At(t) \in Cells /\ At(i) \in Cells
      BY <1>1, <1>7, <1>9
    <2>2. At(t) # At(i)
      BY <1>1, <1>8, <1>9
    <2> HIDE DEF At
    <2> QED BY <1>3, <1>7, <1>10, <2>1, <2>2 DEF v
  <1>12. LineState(result, board, direction, n, i)
    <2> SUFFICES ASSUME NEW h \in 1 .. Size
                 PROVE  /\ result.board[At(h)] = IF h <= i THEN PushedBy(line, h, i) ELSE line[h]
                        /\ At(h) \in result.merged <=> h <= i /\ JoinedBy(line, h, i)
      BY DEF LineState, line
    <2>1. At(h) = At(t) <=> h = t
      BY <1>8, <1>9, <1>1
    <2>2. At(h) = At(i) <=> h = i
      BY <1>8, <1>1
    <2>3. At(h) \in Cells
      BY <1>7
    <2> HIDE DEF At
    <2>4. CASE h = t
      <3>1. h <= i
        BY <1>1, <1>2, <2>4 DEF i
      <3> QED BY <1>4, <1>10, <1>11, <2>1, <2>4, <3>1
    <2>5. CASE h = i
      <3>1. ~(h \in 1 .. t) /\ h \in Int /\ ~(h <= j) /\ h <= i
        BY <1>1, <1>2, <2>5 DEF i
      <3>2. PushedBy(line, h, j) = Empty /\ ~JoinedBy(line, h, j)
        BY <1>2, <3>1
      <3>3. At(h) \notin m.merged
        BY <1>5, <3>1
      <3> QED BY <1>4, <1>9, <1>10, <1>11, <2>1, <2>5, <3>1, <3>2, <3>3
    <2>6. CASE h # t /\ h # i
      <3>1. h <= i <=> h <= j
        BY <1>1, <2>6 DEF i
      <3>2. result.board[At(h)] = m.board[At(h)] /\ (At(h) \in result.merged <=> At(h) \in m.merged)
        BY <1>10, <1>11, <2>1, <2>2, <2>3, <2>6
      <3> QED BY <1>4, <1>5, <2>6, <3>1, <3>2
    <2> QED BY <2>4, <2>5, <2>6
  <1>13. OtherLinesStay(m, result, direction, n)
    <2> SUFFICES ASSUME NEW p \in 0 .. Size - 1, p # n, NEW h \in 1 .. Size
                 PROVE  /\ result.board[LineCell(p, direction, h)] = m.board[LineCell(p, direction, h)]
                        /\ LineCell(p, direction, h) \in result.merged <=> LineCell(p, direction, h) \in m.merged
      BY DEF OtherLinesStay
    <2>1. LineCell(p, direction, h) # At(t) /\ LineCell(p, direction, h) # At(i)
      BY <1>1, <1>8, <1>9
    <2>2. LineCell(p, direction, h) \in Cells
      BY <1>1, LineCells
    <2> HIDE DEF At
    <2> QED BY <1>10, <1>11, <2>1, <2>2
  <1>14. GainAdded(m, result, direction)
    <2> DEFINE x == <<n, t>>
    <2>1. x \in Places /\ v \in Nat \ {0}
      BY <1>6, <1>9 DEF Places, v, Empty
    <2>2. G \in [Places -> Int]
      <3>1. \A p \in Places : LineCell(p[1], direction, p[2]) \in Cells
        BY LineCells DEF Places
      <3>2. \A c \in Cells : m.board[c] \in Nat
        BY BoardValues DEF MoveStates
      <3> QED BY <3>1, <3>2 DEF Gained
    <2>3. G[x] = 0
      <3>1. At(t) \notin m.merged
        BY <1>5, <1>6, <1>9
      <3> QED BY <2>1, <3>1 DEF Gained
    <2>4. H[x] = v
      <3>1. H[x] = IF At(t) \in result.merged THEN result.board[At(t)] ELSE 0
        BY <2>1 DEF Gained
      <3> QED BY <1>10, <1>11, <3>1
    <2>5. ASSUME NEW p \in Places, p # x PROVE H[p] = G[p]
      <3> DEFINE c == LineCell(p[1], direction, p[2])
      <3>1. p[1] \in Int /\ p[2] \in 1 .. Size /\ p = <<p[1], p[2]>> /\ p[1] \in 0 .. Size - 1
        BY DEF Places
      <3>2. c \in Cells
        BY <3>1, LineCells
      <3>6. (c = At(i) <=> p[1] = n /\ p[2] = i) /\ (c = At(t) <=> p[1] = n /\ p[2] = t)
        BY <1>1, <1>8, <1>9, <3>1
      <3>3. c # At(t)
        BY <2>5, <3>1, <3>6
      <3>4. c = At(i) => c \notin m.merged
        <4>1. ~(i <= j)
          BY <1>1 DEF i
        <4> QED BY <1>1, <1>5, <4>1
      <3>5. H[p] = (IF c \in result.merged THEN result.board[c] ELSE 0) /\ G[p] = IF c \in m.merged THEN m.board[c] ELSE 0
        BY DEF Gained
      <3> HIDE DEF c, At, G, H
      <3> QED BY <1>10, <1>11, <3>2, <3>3, <3>4, <3>5, <3>6
    <2>6. H = [G EXCEPT ![x] = v]
      <3>1. H = [p \in Places |-> H[p]]
        BY DEF Gained
      <3> HIDE DEF G, H, x
      <3> QED BY <2>1, <2>2, <2>4, <2>5, <3>1
    <2> HIDE DEF x, G, H
    <2> QED BY <1>10, <2>1, <2>3, <2>6 DEF GainAdded, G, H
  <1> QED BY <1>12, <1>13, <1>14 DEF result, i

(* Where it does not. *)
LEMMA SlideInLine ==
  ASSUME NEW board \in Boards, NEW direction \in Directions, NEW n \in 0 .. Size - 1,
         NEW m \in MoveStates, NEW j \in 0 .. Size - 1, LineState(m, board, direction, n, j),
         Line(board, n, direction)[j + 1] # Empty, ~Joins(Line(board, n, direction), j)
  PROVE  LET result == VisitCell(m, LineCell(n, direction, j + 1), Vector(direction))
         IN  /\ LineState(result, board, direction, n, j + 1)
             /\ OtherLinesStay(m, result, direction, n)
             /\ GainAdded(m, result, direction)
  <1> DEFINE line == Line(board, n, direction)
             s == Target(line, j) + 1
             i == j + 1
             At(h) == LineCell(n, direction, h)
             result == VisitCell(m, At(i), Vector(direction))
  <1>1. /\ Size \in Nat /\ j \in Nat /\ i \in 1 .. Size /\ j \in 0 .. Size
        /\ line \in Lines /\ n \in Int
    BY CellCountNat, LinesOfBoard
  <1>2. /\ s \in 1 .. i
        /\ \A h \in Int : PushedBy(line, h, j) # Empty <=> h \in 1 .. s - 1
        /\ \A h : h \notin 1 .. s - 1 => ~JoinedBy(line, h, j)
    <2> DEFINE t == Target(line, j)
    <2>1. /\ t \in 0 .. j
          /\ \A h \in Int : PushedBy(line, h, j) # Empty <=> h \in 1 .. t
          /\ \A h : h \notin 1 .. t => ~JoinedBy(line, h, j)
      BY <1>1, PlacesTaken
    <2>2. s - 1 = t /\ s \in 1 .. i
      BY <1>1, <2>1
    <2> HIDE DEF t, s
    <2> QED BY <2>1, <2>2
  <1>3. /\ m.board[At(i)] = line[i] /\ At(i) \in Cells
        /\ result = MovedTo(m, At(i), At(s))
    BY VisitOfLine
  <1>4. /\ PushedBy(line, s, i) = line[i] /\ ~JoinedBy(line, s, i)
        /\ \A h : h # s => /\ PushedBy(line, h, i) = PushedBy(line, h, j)
                           /\ JoinedBy(line, h, i) <=> JoinedBy(line, h, j)
    BY <1>1, PushTile
  <1>5. \A h \in 1 .. Size : /\ m.board[At(h)] = IF h <= j THEN PushedBy(line, h, j) ELSE line[h]
                             /\ At(h) \in m.merged <=> h <= j /\ JoinedBy(line, h, j)
    BY DEF LineState
  <1>7. m.board \in [Cells -> Values \cup {Empty}] /\ \A h \in 1 .. Size : At(h) \in Cells
    BY <1>1, LineCells DEF MoveStates, Boards
  <1>8. \A p \in Int, h \in Int, q \in 1 .. Size : LineCell(p, direction, h) = At(q) <=> p = n /\ h = q
    BY <1>1, LineCells
  <1>9. s \in 1 .. Size
    BY <1>1, <1>2
  <1> HIDE DEF line, s, result
  <1>10. /\ result.board = [[m.board EXCEPT ![At(i)] = Empty] EXCEPT ![At(s)] = m.board[At(i)]]
         /\ result.merged = m.merged
         /\ result.score = m.score
         /\ result.made = m.made
    BY <1>3, MovedFields
  <1> HIDE DEF i
  <1>11. /\ result.board[At(s)] = line[i]
         /\ At(i) # At(s) => result.board[At(i)] = Empty
         /\ \A c \in Cells : c # At(s) /\ c # At(i) => result.board[c] = m.board[c]
    <2>1. At(s) \in Cells /\ At(i) \in Cells
      BY <1>1, <1>7, <1>9
    <2> HIDE DEF At
    <2> QED BY <1>3, <1>7, <1>10, <2>1
  <1>15. At(s) \notin m.merged /\ At(i) \notin m.merged
    <2>1. ~JoinedBy(line, s, j) /\ ~(i <= j)
      BY <1>1, <1>2 DEF i
    <2> QED BY <1>1, <1>5, <1>9, <2>1
  <1>12. LineState(result, board, direction, n, i)
    <2> SUFFICES ASSUME NEW h \in 1 .. Size
                 PROVE  /\ result.board[At(h)] = IF h <= i THEN PushedBy(line, h, i) ELSE line[h]
                        /\ At(h) \in result.merged <=> h <= i /\ JoinedBy(line, h, i)
      BY DEF LineState, line
    <2>1. At(h) = At(s) <=> h = s
      BY <1>8, <1>9, <1>1
    <2>2. At(h) = At(i) <=> h = i
      BY <1>8, <1>1
    <2>3. At(h) \in Cells
      BY <1>7
    <2> HIDE DEF At
    <2>4. CASE h = s
      <3>1. h <= i
        BY <1>1, <1>2, <2>4 DEF i
      <3> QED BY <1>4, <1>10, <1>11, <1>15, <2>1, <2>4, <3>1
    <2>5. CASE h = i /\ h # s
      <3>1. ~(h \in 1 .. s - 1) /\ h \in Int /\ h <= i
        BY <1>1, <1>2, <2>5 DEF i
      <3>2. PushedBy(line, h, j) = Empty /\ ~JoinedBy(line, h, j)
        BY <1>2, <3>1
      <3> QED BY <1>4, <1>10, <1>11, <1>15, <2>1, <2>5, <3>1, <3>2
    <2>6. CASE h # s /\ h # i
      <3>1. h <= i <=> h <= j
        BY <1>1, <2>6 DEF i
      <3>2. result.board[At(h)] = m.board[At(h)] /\ (At(h) \in result.merged <=> At(h) \in m.merged)
        BY <1>10, <1>11, <2>1, <2>2, <2>3, <2>6
      <3> QED BY <1>4, <1>5, <2>6, <3>1, <3>2
    <2> QED BY <2>4, <2>5, <2>6
  <1>13. OtherLinesStay(m, result, direction, n)
    <2> SUFFICES ASSUME NEW p \in 0 .. Size - 1, p # n, NEW h \in 1 .. Size
                 PROVE  /\ result.board[LineCell(p, direction, h)] = m.board[LineCell(p, direction, h)]
                        /\ LineCell(p, direction, h) \in result.merged <=> LineCell(p, direction, h) \in m.merged
      BY DEF OtherLinesStay
    <2>1. LineCell(p, direction, h) # At(s) /\ LineCell(p, direction, h) # At(i)
      BY <1>1, <1>8, <1>9
    <2>2. LineCell(p, direction, h) \in Cells
      BY <1>1, LineCells
    <2> HIDE DEF At
    <2> QED BY <1>10, <1>11, <2>1, <2>2
  <1>14. GainAdded(m, result, direction)
    <2>1. ASSUME NEW p \in Places
          PROVE  (IF LineCell(p[1], direction, p[2]) \in result.merged
                  THEN result.board[LineCell(p[1], direction, p[2])] ELSE 0)
                 = IF LineCell(p[1], direction, p[2]) \in m.merged
                   THEN m.board[LineCell(p[1], direction, p[2])] ELSE 0
      <3>1. LineCell(p[1], direction, p[2]) \in Cells
        BY LineCells DEF Places
      <3> HIDE DEF At
      <3> QED BY <1>10, <1>11, <1>15, <3>1
    <2>2. Gained(result, direction) = Gained(m, direction)
      BY <2>1 DEF Gained
    <2> QED BY <1>10, <2>2 DEF GainAdded
  <1> QED BY <1>12, <1>13, <1>14 DEF result, i

(* The visit of the next cell of a line brings that line one cell further, and
   leaves the others. *)
LEMMA LineVisited ==
  ASSUME NEW board \in Boards, NEW direction \in Directions, NEW n \in 0 .. Size - 1,
         NEW m \in MoveStates, NEW j \in 0 .. Size - 1, LineState(m, board, direction, n, j)
  PROVE  LET result == VisitCell(m, LineCell(n, direction, j + 1), Vector(direction))
         IN  /\ LineState(result, board, direction, n, j + 1)
             /\ OtherLinesStay(m, result, direction, n)
             /\ GainAdded(m, result, direction)
  <1> DEFINE line == Line(board, n, direction)
             i == j + 1
             result == VisitCell(m, LineCell(n, direction, i), Vector(direction))
  <1>1. CASE line[i] = Empty
    <2>1. Size \in Nat /\ j \in Nat /\ j \in 0 .. Size /\ i \in 1 .. Size /\ line \in Lines
      BY CellCountNat, LinesOfBoard
    <2>2. result = m
      BY <1>1, VisitOfLine
    <2>3. \A h : PushedBy(line, h, i) = PushedBy(line, h, j) /\ (JoinedBy(line, h, i) <=> JoinedBy(line, h, j))
      BY <1>1, <2>1, PushFree
    <2>4. PushedBy(line, i, j) = Empty /\ ~JoinedBy(line, i, j)
      <3> DEFINE t == Target(line, j)
      <3>1. /\ t \in 0 .. j
            /\ \A h \in Int : PushedBy(line, h, j) # Empty <=> h \in 1 .. t
            /\ \A h : h \notin 1 .. t => ~JoinedBy(line, h, j)
        BY <2>1, PlacesTaken
      <3> HIDE DEF t, line
      <3>2. i \notin 1 .. t /\ i \in Int
        BY <2>1, <3>1
      <3> QED BY <3>1, <3>2
    <2>5. \A h \in 1 .. Size :
             /\ m.board[LineCell(n, direction, h)] = IF h <= j THEN PushedBy(line, h, j) ELSE line[h]
             /\ LineCell(n, direction, h) \in m.merged <=> h <= j /\ JoinedBy(line, h, j)
      BY DEF LineState
    <2> HIDE DEF line
    <2>6. \A h \in 1 .. Size : h <= i <=> h <= j \/ h = i
      BY <2>1
    <2>7. ~(i <= j)
      BY <2>1
    <2> HIDE DEF i
    <2>8. LineState(m, board, direction, n, i)
      <3> SUFFICES ASSUME NEW h \in 1 .. Size
                   PROVE  /\ m.board[LineCell(n, direction, h)] = IF h <= i THEN PushedBy(line, h, i) ELSE line[h]
                          /\ LineCell(n, direction, h) \in m.merged <=> h <= i /\ JoinedBy(line, h, i)
        BY DEF LineState, line
      <3>1. CASE h = i
        BY <1>1, <2>1, <2>3, <2>4, <2>5, <2>6, <2>7, <3>1
      <3>2. CASE h # i
        BY <2>3, <2>5, <2>6, <3>2
      <3> QED BY <3>1, <3>2
    <2> QED BY <2>2, <2>8 DEF OtherLinesStay, GainAdded, i
  <1>2. CASE line[i] # Empty /\ Joins(line, j)
    BY <1>2, MergeInLine
  <1>3. CASE line[i] # Empty /\ ~Joins(line, j)
    BY <1>3, SlideInLine
  <1> QED BY <1>1, <1>2, <1>3

-----------------------------------------------------------------------------
(* What a push adds to the score *)

Same == [v \in Int |-> v]

(* A sum of numbers is a total of them as they are. *)
LEMMA PlainSum ==
  ASSUME NEW S, IsFiniteSet(S), NEW g \in [S -> Int]
  PROVE  MapThenSumSet(LAMBDA p : g[p], S) = Total(Same, g, S)
  <1> DEFINE Plain(h, T) == IF T = {} THEN 0 ELSE LET x == CHOOSE x \in T : TRUE IN g[x] + h[T \ {x}]
             IsPlain(h) == h = [T \in SUBSET S |-> Plain(h, T)]
             sum == CHOOSE h : IsPlain(h)
  <1>1. ASSUME NEW h, NEW T \in SUBSET S PROVE Plain(h, T) = SumStep(h, Same, g, T)
    <2>1. T # {} => (CHOOSE x \in T : TRUE) \in T
      OBVIOUS
    <2>2. \A x \in T : Same[g[x]] = g[x]
      BY DEF Same
    <2> QED BY <2>1, <2>2 DEF SumStep
  <1>2. PICK f : IsSum(f, Same, g, SUBSET S)
    BY SumExists
  <1>3. IsPlain(sum)
    <2>1. IsPlain(f)
      <3> HIDE DEF Plain
      <3> QED BY <1>1, <1>2 DEF IsSum
    <2> HIDE DEF IsPlain
    <2> QED BY <2>1
  <1>4. MapThenSumSet(LAMBDA p : g[p], S) = sum[S]
    BY DEF MapThenSumSet, MapThenFoldSet
  <1> HIDE DEF sum
  <1>5. \A T \in SUBSET S : sum[T] = SumStep(sum, Same, g, T)
    <2> HIDE DEF Plain
    <2> QED BY <1>1, <1>3
  <1>6. PICK e : Sums(e, Same, g, S)
    BY TotalIsSum, Zenon
  <1> HIDE DEF Plain, IsPlain
  <1> DEFINE P == {n \in Nat : \A T \in SUBSET S : Cardinality(T) = n => sum[T] = e[T]}
  <1>7. \A T \in SUBSET S : IsFiniteSet(T) /\ Cardinality(T) \in Nat
    BY FS_Subset, FS_CardinalityType
  <1>8. 0 \in P
    <2>1. \A T \in SUBSET S : Cardinality(T) = 0 => T = {}
      BY <1>7, FS_EmptySet
    <2>2. sum[{}] = 0 /\ e[{}] = 0
      BY <1>5, <1>6 DEF Sums, SumStep
    <2> QED BY <2>1, <2>2
  <1>9. ASSUME NEW n \in P PROVE n + 1 \in P
    <2>1. n \in Nat /\ \A T \in SUBSET S : Cardinality(T) = n => sum[T] = e[T]
      OBVIOUS
    <2>2. ASSUME NEW T \in SUBSET S, Cardinality(T) = n + 1 PROVE sum[T] = e[T]
      <3> DEFINE z == CHOOSE z \in T : TRUE
      <3>1. T # {}
        BY <2>1, <2>2, FS_EmptySet
      <3>2. z \in T /\ T \ {z} \in SUBSET S
        BY <3>1
      <3>3. Cardinality(T \ {z}) = n
        <4>1. Cardinality(T \ {z}) = Cardinality(T) - 1
          <5> HIDE DEF z, P
          <5> QED BY <1>7, <3>2, FS_RemoveElement
        <4> HIDE DEF z, P
        <4> QED BY <2>1, <2>2, <4>1
      <3>4. sum[T] = Same[g[z]] + sum[T \ {z}] /\ e[T] = Same[g[z]] + e[T \ {z}]
        BY <1>5, <1>6, <3>1 DEF Sums, SumStep
      <3> HIDE DEF z, P
      <3> QED BY <2>1, <3>2, <3>3, <3>4
    <2> QED BY <2>1, <2>2
  <1>10. P = Nat
    <2> HIDE DEF P
    <2>1. P \subseteq Nat
      BY DEF P
    <2> QED BY <1>8, <1>9, <2>1, SetInduction
  <1>11. sum[S] = e[S]
    <2>1. Cardinality(S) \in P
      BY <1>7, <1>10
    <2> QED BY <2>1
  <1>12. Total(Same, g, S) = e[S]
    BY <1>6 DEF Sums
  <1> QED BY <1>4, <1>11, <1>12

(* The score and the new tiles are what the places have gained. *)
Scored(m, direction) ==
    /\ m.score = Total(Same, Gained(m, direction), Places)
    /\ m.made = {Gained(m, direction)[p] : p \in Places} \ {0}

(* What the places gain are numbers. *)
LEMMA GainedNumbers ==
  ASSUME NEW m \in MoveStates, NEW direction \in Directions
  PROVE  Gained(m, direction) \in [Places -> Int] /\ IsFiniteSet(Places)
  <1>1. \A p \in Places : LineCell(p[1], direction, p[2]) \in Cells
    BY LineCells DEF Places
  <1>2. \A c \in Cells : m.board[c] \in Nat
    BY BoardValues DEF MoveStates
  <1>3. IsFiniteSet(0 .. Size - 1) /\ IsFiniteSet(1 .. Size)
    BY FS_Interval, CellCountNat
  <1>4. IsFiniteSet(Places)
    BY <1>3, FS_Product DEF Places
  <1> QED BY <1>1, <1>2, <1>4 DEF Gained

(* A visit that adds a gain keeps the account. *)
LEMMA ScoredStays ==
  ASSUME NEW m \in MoveStates, NEW direction \in Directions, Scored(m, direction),
         NEW result, GainAdded(m, result, direction)
  PROVE  Scored(result, direction)
  <1> DEFINE G == Gained(m, direction)
             H == Gained(result, direction)
  <1>1. G \in [Places -> Int] /\ IsFiniteSet(Places)
    BY GainedNumbers
  <1>2. m.score = Total(Same, G, Places) /\ m.made = {G[p] : p \in Places} \ {0}
    BY DEF Scored
  <1> HIDE DEF G, H
  <1>3. CASE result.score = m.score /\ result.made = m.made /\ H = G
    BY <1>2, <1>3 DEF Scored, H
  <1>4. ASSUME NEW x \in Places, NEW v \in Nat \ {0}, result.score = m.score + v, result.made = m.made \cup {v},
               G[x] = 0, H = [G EXCEPT ![x] = v]
        PROVE  Scored(result, direction)
    <2>1. H[x] = v /\ (\A p \in Places \ {x} : H[p] = G[p]) /\ \A p \in Places : H[p] \in Int
      BY <1>1, <1>4
    <2>2. \A y \in Places : Same[G[y]] \in Int /\ Same[H[y]] \in Int
      BY <1>1, <2>1 DEF Same
    <2>3. Same[G[x]] = 0 /\ Same[H[x]] = v
      BY <1>4, <2>1 DEF Same
    <2>4. Total(Same, G, Places) \in Int /\ Total(Same, H, Places) = Total(Same, G, Places) + Same[H[x]] - Same[G[x]]
      <3>1. IsFiniteSet(Places) /\ x \in Places
        BY <1>1
      <3>2. \A y \in Places \ {x} : H[y] = G[y]
        BY <2>1
      <3> HIDE DEF Same
      <3> QED BY <2>2, <3>1, <3>2, TotalChanges
    <2>5. result.score = Total(Same, H, Places)
      BY <1>2, <1>4, <2>3, <2>4
    <2>6. {H[p] : p \in Places} \ {0} = ({G[p] : p \in Places} \ {0}) \cup {v}
      BY <1>4, <2>1
    <2> QED BY <1>2, <1>4, <2>5, <2>6 DEF Scored, H
  <1> QED BY <1>3, <1>4 DEF GainAdded, G, H

-----------------------------------------------------------------------------
(* The move, line by line *)

(* After k visits every line is as far as its turns came. *)
LinesVisited(m, board, direction, k) ==
    \E front \in [0 .. Size - 1 -> 0 .. Size] : \A n \in 0 .. Size - 1 :
        /\ \A i \in 1 .. Size : Turn(n, direction, i) <= k <=> i <= front[n]
        /\ LineState(m, board, direction, n, front[n])

(* So it is before the first visit. *)
LEMMA LinesAtStart ==
  ASSUME NEW board \in Boards, Roomy(board), NEW direction \in Directions
  PROVE  /\ Started(board) \in RoomyStates
         /\ Scored(Started(board), direction)
         /\ LinesVisited(Started(board), board, direction, 0)
  <1> DEFINE m == Started(board)
  <1>1. /\ m \in RoomyStates /\ m \in MoveStates
        /\ m.board = board /\ m.merged = {} /\ m.score = 0 /\ m.made = {}
    BY DEF Started, RoomyStates, MoveStates
  <1> HIDE DEF m
  <1>2. \A p \in Places : Gained(m, direction)[p] = 0
    BY <1>1 DEF Gained
  <1>3. Scored(m, direction)
    <2>1. IsFiniteSet(Places)
      BY <1>1, GainedNumbers
    <2>2. \A p \in Places : Same[Gained(m, direction)[p]] = 0
      BY <1>2 DEF Same
    <2>3. Total(Same, Gained(m, direction), Places) = 0
      BY <2>1, <2>2, TotalOfNothing
    <2> QED BY <1>1, <1>2, <2>3 DEF Scored
  <1>4. LinesVisited(m, board, direction, 0)
    <2> DEFINE front == [n \in 0 .. Size - 1 |-> 0]
    <2>1. front \in [0 .. Size - 1 -> 0 .. Size] /\ \A n \in 0 .. Size - 1 : front[n] = 0
      BY CellCountNat
    <2> HIDE DEF front
    <2>2. ASSUME NEW n \in 0 .. Size - 1
          PROVE  /\ \A i \in 1 .. Size : Turn(n, direction, i) <= 0 <=> i <= 0
                 /\ LineState(m, board, direction, n, 0)
      <3>1. \A i \in 1 .. Size : Turn(n, direction, i) \in 1 .. CellCount
        BY Turns
      <3>2. \A i \in 1 .. Size : Line(board, n, direction)[i] = board[LineCell(n, direction, i)]
        BY LinesOfBoard
      <3>3. \A i \in 1 .. Size : ~(i <= 0)
        OBVIOUS
      <3>4. LineState(m, board, direction, n, 0)
        BY <1>1, <3>2, <3>3 DEF LineState
      <3> QED BY <3>1, <3>3, <3>4, CellCountNat
    <2> QED BY <2>1, <2>2 DEF LinesVisited
  <1> QED BY <1>1, <1>3, <1>4 DEF m

(* And each visit keeps it. *)
LEMMA LinesStep ==
  ASSUME NEW board \in Boards, NEW direction \in Directions, NEW k \in 0 .. CellCount - 1,
         NEW m \in RoomyStates, Scored(m, direction), LinesVisited(m, board, direction, k)
  PROVE  LET result == VisitCell(m, Visited(direction, k + 1), Vector(direction))
         IN  /\ result \in RoomyStates
             /\ Scored(result, direction)
             /\ LinesVisited(result, board, direction, k + 1)
  <1>1. /\ Size \in Nat /\ CellCount \in Nat /\ k + 1 \in 1 .. CellCount /\ m \in MoveStates
    BY CellCountNat DEF RoomyStates
  <1>2. PICK n \in 0 .. Size - 1, i \in 1 .. Size : Turn(n, direction, i) = k + 1
    BY <1>1, TurnOf
  <1>3. PICK front \in [0 .. Size - 1 -> 0 .. Size] :
           \A p \in 0 .. Size - 1 : /\ \A h \in 1 .. Size : Turn(p, direction, h) <= k <=> h <= front[p]
                                    /\ LineState(m, board, direction, p, front[p])
    BY DEF LinesVisited
  <1> DEFINE cell == LineCell(n, direction, i)
             result == VisitCell(m, cell, Vector(direction))
             further == [front EXCEPT ![n] = i]
             j == front[n]
  <1>4. Visited(direction, k + 1) = cell /\ cell \in Cells
    BY <1>2, Turns, LineCells
  <1>5. \A p \in 0 .. Size - 1, h \in 1 .. Size : Turn(p, direction, h) = k + 1 <=> p = n /\ h = i
    <2> SUFFICES ASSUME NEW p \in 0 .. Size - 1, NEW h \in 1 .. Size, Turn(p, direction, h) = k + 1
                 PROVE  p = n /\ h = i
      BY <1>2
    <2>1. LineCell(p, direction, h) = LineCell(n, direction, i)
      BY <1>2, Turns
    <2> QED BY <1>1, <2>1, LineCells
  <1>6. \A p \in 0 .. Size - 1, h \in 1 .. Size : Turn(p, direction, h) \in Int
    BY Turns, <1>1
  <1>7. j \in 0 .. Size - 1 /\ i = j + 1
    <2>1. j \in 0 .. Size
      OBVIOUS
    <2>2. ~(i <= j)
      BY <1>1, <1>2, <1>3
    <2>3. i > 1 => i - 1 <= j
      <3>1. i > 1 => i - 1 \in 1 .. Size /\ i - 1 < i
        BY <1>1
      <3>2. i > 1 => Turn(n, direction, i - 1) < Turn(n, direction, i) /\ Turn(n, direction, i - 1) \in Int
        BY <1>6, <3>1, Turns
      <3>3. i > 1 => Turn(n, direction, i - 1) <= k
        BY <1>1, <1>2, <3>2
      <3> QED BY <1>3, <3>1, <3>3
    <2> HIDE DEF j
    <2> QED BY <1>1, <2>1, <2>2, <2>3
  <1>8. LineState(m, board, direction, n, j)
    BY <1>3
  <1> HIDE DEF j
  <1>9. /\ LineState(result, board, direction, n, i)
        /\ OtherLinesStay(m, result, direction, n)
        /\ GainAdded(m, result, direction)
    <2>1. VisitCell(m, LineCell(n, direction, j + 1), Vector(direction)) = result
      BY <1>7
    <2> HIDE DEF result
    <2> QED BY <1>1, <1>7, <1>8, <2>1, LineVisited
  <1>10. result \in RoomyStates
    BY <1>4, VisitRoomy
  <1>11. Scored(result, direction)
    <2> HIDE DEF result
    <2> QED BY <1>1, <1>9, ScoredStays
  <1> HIDE DEF result, cell
  <1>12. further \in [0 .. Size - 1 -> 0 .. Size] /\ further[n] = i /\ \A p \in 0 .. Size - 1 : p # n => further[p] = front[p]
    BY <1>1
  <1> HIDE DEF further
  <1>13. ASSUME NEW p \in 0 .. Size - 1
         PROVE  /\ \A h \in 1 .. Size : Turn(p, direction, h) <= k + 1 <=> h <= further[p]
                /\ LineState(result, board, direction, p, further[p])
    <2>1. \A h \in 1 .. Size : Turn(p, direction, h) <= k + 1 <=> Turn(p, direction, h) <= k \/ Turn(p, direction, h) = k + 1
      BY <1>1, <1>6
    <2>2. CASE p = n
      <3>1. \A h \in 1 .. Size : h <= i <=> h <= j \/ h = i
        BY <1>7
      <3>2. \A h \in 1 .. Size : Turn(p, direction, h) <= k <=> h <= j
        BY <1>3, <2>2 DEF j
      <3> QED BY <1>5, <1>9, <1>12, <2>1, <2>2, <3>1, <3>2
    <2>3. CASE p # n
      <3>1. \A h \in 1 .. Size : Turn(p, direction, h) <= k + 1 <=> h <= further[p]
        BY <1>3, <1>5, <1>12, <2>1, <2>3
      <3>2. LineState(m, board, direction, p, front[p])
        BY <1>3
      <3>3. \A h \in 1 .. Size :
               /\ result.board[LineCell(p, direction, h)] = m.board[LineCell(p, direction, h)]
               /\ LineCell(p, direction, h) \in result.merged <=> LineCell(p, direction, h) \in m.merged
        BY <1>9, <2>3 DEF OtherLinesStay
      <3>4. LineState(result, board, direction, p, front[p])
        BY <3>2, <3>3 DEF LineState
      <3> QED BY <1>12, <2>3, <3>1, <3>4
    <2> QED BY <2>2, <2>3
  <1>14. LinesVisited(result, board, direction, k + 1)
    BY <1>12, <1>13 DEF LinesVisited
  <1> QED BY <1>4, <1>10, <1>11, <1>14 DEF result

(* After the move every line is pushed. *)
LEMMA MovePushes ==
  ASSUME NEW board \in Boards, Roomy(board), NEW direction \in Directions
  PROVE  LET m == move(board, direction)
         IN  /\ m \in RoomyStates
             /\ Scored(m, direction)
             /\ \A n \in 0 .. Size - 1 : LineState(m, board, direction, n, Size)
  <1> DEFINE visits == Visits(board, direction)
             Holds(k) == /\ visits[k] \in RoomyStates
                         /\ Scored(visits[k], direction)
                         /\ LinesVisited(visits[k], board, direction, k)
             P == {k \in 0 .. CellCount : Holds(k)}
  <1>1. Size \in Nat /\ CellCount \in Nat
    BY CellCountNat
  <1>2. 0 \in P
    BY <1>1, LinesAtStart, VisitsSteps
  <1>3. ASSUME NEW k \in 0 .. CellCount - 1, k \in P PROVE k + 1 \in P
    <2>1. k + 1 \in 1 .. CellCount /\ (k + 1) - 1 = k /\ k + 1 \in 0 .. CellCount
      BY <1>1
    <2>2. visits[k + 1] = VisitCell(visits[k], Visited(direction, k + 1), Vector(direction))
      BY <2>1, VisitsSteps
    <2>3. Holds(k)
      BY <1>3
    <2> HIDE DEF visits
    <2>4. Holds(k + 1)
      BY <2>2, <2>3, LinesStep
    <2> QED BY <2>1, <2>4
  <1>4. 0 .. CellCount \subseteq P
    <2> HIDE DEF P
    <2> QED BY <1>1, <1>2, <1>3, BoundedInduction
  <1>5. Holds(CellCount)
    BY <1>1, <1>4
  <1>6. move(board, direction) = visits[CellCount]
    BY DEF move, CellCount
  <1> HIDE DEF visits
  <1>7. ASSUME NEW n \in 0 .. Size - 1 PROVE LineState(visits[CellCount], board, direction, n, Size)
    <2>1. PICK front \in [0 .. Size - 1 -> 0 .. Size] :
             \A p \in 0 .. Size - 1 :
                /\ \A h \in 1 .. Size : Turn(p, direction, h) <= CellCount <=> h <= front[p]
                /\ LineState(visits[CellCount], board, direction, p, front[p])
      BY <1>5 DEF LinesVisited
    <2>2. Size \in 1 .. Size /\ front[n] \in 0 .. Size
      BY CellCountNat
    <2>3. Turn(n, direction, Size) \in 1 .. CellCount
      BY <2>2, Turns
    <2>4. Turn(n, direction, Size) <= CellCount
      BY <2>3
    <2>5. Size <= front[n]
      BY <2>1, <2>2, <2>4
    <2>6. front[n] = Size
      BY <1>1, <2>2, <2>5
    <2> QED BY <2>1, <2>6
  <1> QED BY <1>5, <1>6, <1>7

(* A board that has in each place of each line what is pushed there is the
   board that is meant. *)
LEMMA BoardOfLines ==
  ASSUME NEW board \in Boards, NEW direction \in Directions, NEW after \in Boards,
         \A p \in Places : after[LineCell(p[1], direction, p[2])]
                             = Pushed(Line(board, p[1], direction), p[2])
  PROVE  after = MeantBoard(board, direction)
  <1> DEFINE There(p, cell) == LineCell(p[1], direction, p[2]) = cell
             PlaceOf(cell) == CHOOSE p \in Places : There(p, cell)
  <1>1. ASSUME NEW cell \in Cells
        PROVE  after[cell] = Pushed(Line(board, PlaceOf(cell)[1], direction), PlaceOf(cell)[2])
    <2>1. PICK n \in 0 .. Size - 1, i \in 1 .. Size : cell = LineCell(n, direction, i)
      BY LineCells
    <2>2. <<n, i>> \in Places /\ There(<<n, i>>, cell)
      BY <2>1 DEF Places
    <2>3. PlaceOf(cell) \in Places /\ There(PlaceOf(cell), cell)
      <3> HIDE DEF There
      <3> QED BY <2>2
    <2> HIDE DEF PlaceOf
    <2> QED BY <2>3
  <1>2. after = [cell \in Cells |-> after[cell]]
    BY DEF Boards
  <1>3. MeantBoard(board, direction)
           = [cell \in Cells |-> Pushed(Line(board, PlaceOf(cell)[1], direction), PlaceOf(cell)[2])]
    BY Zenon DEF MeantBoard
  <1> HIDE DEF PlaceOf
  <1> QED BY <1>1, <1>2, <1>3

(* A move of the code is as it is meant to be, on every board with room. *)
THEOREM MoveAsMeant ==
  ASSUME NEW board \in Boards, Roomy(board)
  PROVE  MovesAsMeant(board)
  <1> SUFFICES ASSUME NEW direction \in Directions
               PROVE  LET m == move(board, direction)
                      IN  /\ m.board = MeantBoard(board, direction)
                          /\ m.score = MeantScore(board, direction)
                          /\ m.made = MeantMade(board, direction)
                          /\ m.moved <=> m.board # board
    BY DEF MovesAsMeant
  <1> DEFINE m == move(board, direction)
             gains == Gains(board, direction)
             LineOf(n) == Line(board, n, direction)
  <1>1. /\ m \in RoomyStates /\ m \in MoveStates /\ Scored(m, direction)
        /\ \A n \in 0 .. Size - 1 : LineState(m, board, direction, n, Size)
    BY MovePushes DEF RoomyStates
  <1>2. ASSUME NEW line, NEW k
        PROVE  Pushed(line, k) = PushedBy(line, k, Size) /\ (Joined(line, k) <=> JoinedBy(line, k, Size))
    <2>1. Sent(line, k) = SentBy(line, k, Size)
      BY DEF Sent, SentBy
    <2> QED BY <2>1 DEF Pushed, PushedBy, Joined, JoinedBy
  <1>3. ASSUME NEW n \in 0 .. Size - 1, NEW i \in 1 .. Size
        PROVE  /\ m.board[LineCell(n, direction, i)] = Pushed(LineOf(n), i)
               /\ LineCell(n, direction, i) \in m.merged <=> Joined(LineOf(n), i)
    <2>1. i <= Size
      OBVIOUS
    <2>2. /\ m.board[LineCell(n, direction, i)] = PushedBy(LineOf(n), i, Size)
          /\ LineCell(n, direction, i) \in m.merged <=> JoinedBy(LineOf(n), i, Size)
      BY <1>1, <2>1 DEF LineState
    <2> HIDE DEF m, LineOf
    <2> QED BY <1>2, <2>2
  <1>4. gains = Gained(m, direction)
    <2>1. ASSUME NEW p \in Places
          PROVE  gains[p] = Gained(m, direction)[p]
      <3>1. p[1] \in 0 .. Size - 1 /\ p[2] \in 1 .. Size
        BY DEF Places
      <3>2. gains[p] = IF Joined(LineOf(p[1]), p[2]) THEN Pushed(LineOf(p[1]), p[2]) ELSE 0
        BY DEF Gains
      <3>3. Gained(m, direction)[p] = IF LineCell(p[1], direction, p[2]) \in m.merged
                                      THEN m.board[LineCell(p[1], direction, p[2])] ELSE 0
        BY DEF Gained
      <3> HIDE DEF m, gains, LineOf
      <3> QED BY <1>3, <3>1, <3>2, <3>3
    <2>2. gains = [p \in Places |-> gains[p]]
      BY DEF Gains
    <2>3. Gained(m, direction) = [p \in Places |-> Gained(m, direction)[p]]
      BY DEF Gained
    <2> HIDE DEF m, gains
    <2> QED BY <2>1, <2>2, <2>3
  <1>5. m.score = MapThenSumSet(LAMBDA p : gains[p], Places)
    <2>1. gains \in [Places -> Int] /\ IsFiniteSet(Places)
      BY <1>1, <1>4, GainedNumbers
    <2> HIDE DEF m, gains
    <2>2. MapThenSumSet(LAMBDA p : gains[p], Places) = Total(Same, gains, Places)
      BY <2>1, PlainSum
    <2> QED BY <1>1, <1>4, <2>2 DEF Scored
  <1>6. m.made = {gains[p] : p \in Places} \ {0}
    <2> HIDE DEF m, gains
    <2> QED BY <1>1, <1>4 DEF Scored
  <1>7. m.moved <=> m.board # board
    <2>1. ~m.moved => m.board = board
      BY MovesExactlyWhen DEF Started
    <2>2. ASSUME m.moved, m.board = board PROVE FALSE
      <3>1. PICK cell \in Cells : CanGo(board, cell, direction)
        BY <2>2, MovesExactlyWhen
      <3>2. PICK n \in 0 .. Size - 1, i \in 1 .. Size : cell = LineCell(n, direction, i)
        BY LineCells
      <3> DEFINE line == Line(board, n, direction)
      <3>3. line \in Lines /\ \A h \in 1 .. Size : line[h] = board[LineCell(n, direction, h)]
        BY LinesOfBoard
      <3>4. \A h \in 1 .. Size : PushedBy(line, h, Size) = line[h]
        BY <1>2, <1>3, <2>2, <3>3
      <3>5. Shifted(cell, Vector(direction), 1) = LineCell(n, direction, i - 1)
        <4>1. \A p \in Int, q \in Int, k \in Int :
                 Shifted(LineCell(p, direction, q), Vector(direction), k) = LineCell(p, direction, q - k)
          BY LineCells
        <4>2. n \in Int /\ i \in Int /\ 1 \in Int
          BY CellCountNat
        <4> QED BY <3>2, <4>1, <4>2, Zenon
      <3> HIDE DEF line, m
      <3>6. /\ board[cell] # Empty /\ LineCell(n, direction, i - 1) \in Cells
            /\ \/ board[LineCell(n, direction, i - 1)] = Empty
               \/ board[LineCell(n, direction, i - 1)] = board[cell]
        BY <3>1, <3>5 DEF CanGo, withinBounds
      <3>7. i - 1 \in 1 .. Size
        <4>1. i - 1 \in Int
          BY CellCountNat
        <4> QED BY <3>6, <4>1, LineCells
      <3>8. i \in 2 .. Size
        BY <3>7, CellCountNat
      <3>9. line[i] # Empty /\ (line[i - 1] = Empty \/ line[i - 1] = line[i])
        BY <3>2, <3>3, <3>6, <3>7
      <3>10. line[i - 1] # Empty /\ line[i - 1] # line[i]
        BY <3>3, <3>4, <3>8, <3>9, Settled
      <3> QED BY <3>9, <3>10
    <2> HIDE DEF m
    <2> QED BY <2>1, <2>2
  <1>8. \A p \in Places : m.board[LineCell(p[1], direction, p[2])] = Pushed(LineOf(p[1]), p[2])
    <2>1. \A p \in Places : p[1] \in 0 .. Size - 1 /\ p[2] \in 1 .. Size
      BY DEF Places
    <2> HIDE DEF m, LineOf
    <2> QED BY <1>3, <2>1
  <1>9. m.board = MeantBoard(board, direction)
    <2>1. m.board \in Boards
      BY <1>1 DEF MoveStates
    <2> HIDE DEF m
    <2> QED BY <1>8, <2>1, BoardOfLines
  <1>10. /\ MeantScore(board, direction) = MapThenSumSet(LAMBDA p : gains[p], Places)
         /\ MeantMade(board, direction) = {gains[p] : p \in Places} \ {0}
    BY DEF MeantScore, MeantMade
  <1>11. m.score = MeantScore(board, direction) /\ m.made = MeantMade(board, direction)
    <2> HIDE DEF m
    <2> QED BY <1>5, <1>6, <1>10, Zenon
  <1> QED BY <1>7, <1>9, <1>11

=============================================================================
