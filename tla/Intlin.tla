------------------------------- MODULE Intlin -------------------------------
(***************************************************************************)
(* The integer linear algebra of spatial/intlin.py, as the front end and    *)
(* the checker call it.  A vector is a sequence of integers, a matrix a      *)
(* sequence of rows of one length, a basis a matrix of generators; <<>> is   *)
(* the empty matrix, whose number of columns is not known.                  *)
(***************************************************************************)
EXTENDS Integers, SequencesExt

Magnitude(x)  == IF x < 0 THEN -x ELSE x
SumOf(v)      == FoldLeft(LAMBDA sum, x : sum + x, 0, v)
Dot(u, v)     == SumOf([k \in DOMAIN u |-> u[k] * v[k]])
Columns(m)    == IF m = <<>> THEN 0 ELSE Len(m[1])
IsZero(v)     == \A k \in DOMAIN v : v[k] = 0
ZeroVector(n) == [k \in 1 .. n |-> 0]
Unit(n, c)    == [k \in 1 .. n |-> IF k = c THEN 1 ELSE 0]
Scaled(c, v)  == [k \in DOMAIN v |-> c * v[k]]
Added(u, v)   == [k \in DOMAIN u |-> u[k] + v[k]]

\* Python's //, which rounds down whatever the sign of the divisor.
FloorDiv(a, b) == IF b > 0 THEN a \div b ELSE (-a) \div (-b)

MatVec(m, v) == [r \in DOMAIN m |-> Dot(m[r], v)]

\* The first nonzero entry is positive.
LexPos(v) ==
  \E k \in DOMAIN v : v[k] >= 1 /\ \A j \in 1 .. k - 1 : v[j] = 0

\* Cleared of the common divisor, the first nonzero entry positive.
Primitive(v) ==
  IF IsZero(v) THEN v
  ELSE LET Common(d) == \A k \in DOMAIN v : v[k] % d = 0
           largest == Max({Magnitude(v[k]) : k \in DOMAIN v})
           gcd     == Max({d \in 1 .. largest : Common(d)})
           sign    == IF LexPos(v) THEN 1 ELSE -1
       IN [k \in DOMAIN v |-> sign * FloorDiv(v[k], gcd)]

-----------------------------------------------------------------------------
(* Bareiss elimination.                                                     *)

Swapped(h, i, j) == [h EXCEPT ![i] = h[j], ![j] = h[i]]

\* One column: the first row below the echelon with an entry in it is the
\* pivot; the rows under it that have an entry there are eliminated, the others
\* are left as they are.
PivotOn(s, c) ==
  LET r == s.rank + 1
      candidates == {i \in r .. Len(s.h) : s.h[i][c] # 0}
      h   == Swapped(s.h, r, Min(candidates))
      piv == h[r][c]
      Eliminated(row) ==
        [j \in DOMAIN row |-> FloorDiv(piv * row[j] - row[c] * h[r][j], s.prev)]
  IN IF candidates = {} THEN s
     ELSE [h      |-> [i \in DOMAIN h |-> IF i > r /\ h[i][c] # 0
                                         THEN Eliminated(h[i]) ELSE h[i]],
           rank   |-> r,
           prev   |-> piv,
           pivots |-> Append(s.pivots, c)]

\* The elimination over the first `cols` columns.
Echelon(m, cols) ==
  FoldLeft(PivotOn, [h |-> m, rank |-> 0, prev |-> 1, pivots |-> <<>>],
           [c \in 1 .. cols |-> c])

Rank(m) == Echelon(m, Columns(m)).rank

-----------------------------------------------------------------------------
(* Null spaces and solutions.                                               *)

\* What row i of an echelon says of the entries right of its pivot.
RightOf(row, pc, v) == SumOf([j \in 1 .. Len(v) - pc |-> row[pc + j] * v[pc + j]])

LastToFirst(n) == [k \in 1 .. n |-> n + 1 - k]

\* Back-substitution of one pivot row; what it leaves no integer for is scaled.
Substituted(e, v, i) ==
  LET pc  == e.pivots[i]
      row == e.h[i]
      fits == RightOf(row, pc, v) % Magnitude(row[pc]) = 0
      w    == IF fits THEN v ELSE Scaled(row[pc], v)
  IN [w EXCEPT ![pc] = FloorDiv(-RightOf(row, pc, w), row[pc])]

\* One generator per free column; without rows there are no columns to be free.
KernelBasis(m) ==
  LET n == Columns(m)
      e == Echelon(m, n)
      free == SelectSeq([c \in 1 .. n |-> c], LAMBDA c : ~Contains(e.pivots, c))
      Generator(f) ==
        Primitive(FoldLeft(LAMBDA v, i : Substituted(e, v, i), Unit(n, f), LastToFirst(e.rank)))
  IN [k \in DOMAIN free |-> Generator(free[k])]

NoSolution == <<>>

\* A particular solution of m x = b with the free columns at 0, or none.
Solve(m, b) ==
  LET n == Columns(m)
      e == Echelon([r \in DOMAIN m |-> Append(m[r], b[r])], n)
      consistent == \A i \in e.rank + 1 .. Len(m) : e.h[i][n + 1] = 0
      Known(x, i) == e.h[i][n + 1] - RightOf(e.h[i], e.pivots[i], x)
      Solved(x, i) ==
        IF x = NoSolution \/ Known(x, i) % Magnitude(e.h[i][e.pivots[i]]) # 0 THEN NoSolution
        ELSE [x EXCEPT ![e.pivots[i]] = FloorDiv(Known(x, i), e.h[i][e.pivots[i]])]
      x == FoldLeft(Solved, ZeroVector(n), LastToFirst(e.rank))
  IN IF consistent /\ x # NoSolution /\ MatVec(m, x) = b THEN x ELSE NoSolution

-----------------------------------------------------------------------------
(* Spans.                                                                   *)

\* The reduced echelon form of a spanning set, its rows primitive.
Canonical(vectors) ==
  LET e == Echelon(vectors, Columns(vectors))
      Cleared(h, i) ==
        LET pc == e.pivots[i] IN
        [a \in DOMAIN h |-> IF a < i /\ h[a][pc] # 0
                            THEN Added(Scaled(h[i][pc], h[a]), Scaled(-h[a][pc], h[i]))
                            ELSE h[a]]
      reduced == FoldLeft(Cleared, SubSeq(e.h, 1, e.rank), [i \in 1 .. e.rank |-> i])
  IN [r \in DOMAIN reduced |-> Primitive(reduced[r])]

\* The vectors a combination of a's rows and one of b's have in common.
Intersect(a, b) ==
  LET n == Columns(a)
      constraint == [r \in 1 .. n |-> [i \in DOMAIN a |-> a[i][r]] \o [j \in DOMAIN b |-> -b[j][r]]]
      ker == KernelBasis(constraint)
      Combined(alpha) == [c \in 1 .. n |-> SumOf([i \in DOMAIN a |-> alpha[i] * a[i][c]])]
  IN IF a = <<>> \/ b = <<>> THEN <<>>
     ELSE Canonical([k \in DOMAIN ker |-> Combined(ker[k])])

\* The span of b lies in the span of a.
Spans(a, b) == b = <<>> \/ (a # <<>> /\ Rank(a) = Rank(a \o b))

\* The rows of `space` that extend `sub`, in order.
Complement(space, sub) ==
  FoldLeft(LAMBDA kept, row : IF Rank(sub \o kept \o <<row>>) > Rank(sub \o kept)
                              THEN Append(kept, row) ELSE kept,
           <<>>, space)
=============================================================================
