--------------------------- MODULE Geofence_proofs --------------------------
(***************************************************************************)
(* Proofs about the fence: for a grid of any size, the even-odd ray        *)
(* casting answers as the sides of the edges do, for every triangle and    *)
(* every quadrilateral with a diagonal inside, so a breach is true.  Both  *)
(* are moved so that the position is in the middle; an edge is then two    *)
(* pairs of numbers, and the sum of the sides of a triangle is its area,   *)
(* the same from every position.                                           *)
(***************************************************************************)
EXTENDS Geofence, FiniteSetTheorems, SequenceTheorems, TLAPS

-----------------------------------------------------------------------------
\* Signs of products.
LEMMA ProductSigns ==
  ASSUME NEW x \in Int, NEW y \in Int
  PROVE  /\ x * y \in Int /\ x * y = y * x
         /\ x > 0 /\ y > 0 => x * y > 0
         /\ x < 0 /\ y < 0 => x * y > 0
         /\ x > 0 /\ y < 0 => x * y < 0
         /\ x < 0 /\ y > 0 => x * y < 0
         /\ x = 0 \/ y = 0 => x * y = 0
OBVIOUS

\* A position in the middle: a corner is its offset, first along, then up.
Cross(u, A, v, B) == u * B - v * A

\* The ray crosses an edge that goes from above it to below on one side, or from
\* below it to above on the other.
Cut(A, B, s) == (A > 0 /\ ~(B > 0) /\ s < 0) \/ (~(A > 0) /\ B > 0 /\ s > 0)

\* The position is on the edge.
On(u, A, v, B) ==
  /\ Cross(u, A, v, B) = 0
  /\ (u <= 0 /\ 0 <= v) \/ (v <= 0 /\ 0 <= u)
  /\ (A <= 0 /\ 0 <= B) \/ (B <= 0 /\ 0 <= A)

\* Three numbers on the same side of zero.
SameSign(r, s, t) == (r > 0 /\ s > 0 /\ t > 0) \/ (r < 0 /\ s < 0 /\ t < 0)

\* An edge that the ray's line cuts is on one side of the position or contains it.
LEMMA CutOrOn ==
  ASSUME NEW u \in Int, NEW A \in Int, NEW v \in Int, NEW B \in Int,
         (A > 0) # (B > 0), Cross(u, A, v, B) = 0
  PROVE  On(u, A, v, B)
<1>1. u * B = v * A /\ u * B \in Int /\ v * A \in Int
  BY ProductSigns DEF Cross
<1>2. (u <= 0 /\ 0 <= v) \/ (v <= 0 /\ 0 <= u)
  BY <1>1, ProductSigns
<1>. QED BY <1>2 DEF On

\* The three sides, weighed with the corners' heights, cancel out; turned, a side
\* changes its sign.
LEMMA Balance ==
  ASSUME NEW u \in Int, NEW A \in Int, NEW v \in Int, NEW B \in Int, NEW w \in Int, NEW C \in Int
  PROVE  /\ Cross(u, A, v, B) \in Int
         /\ Cross(v, B, w, C) * A + Cross(w, C, u, A) * B + Cross(u, A, v, B) * C = 0
         /\ Cross(v, B, u, A) = -Cross(u, A, v, B)
BY DEF Cross

\* The same edge the other way.
LEMMA Turned ==
  ASSUME NEW u \in Int, NEW A \in Int, NEW v \in Int, NEW B \in Int
  PROVE  Cross(u, A, v, B) \in Int /\ Cross(v, B, u, A) = -Cross(u, A, v, B)
BY DEF Cross

\* A position in line with two corners is so either way.
LEMMA TurnedZero ==
  ASSUME NEW u \in Int, NEW A \in Int, NEW v \in Int, NEW B \in Int, Cross(u, A, v, B) = 0
  PROVE  Cross(v, B, u, A) = 0
BY DEF Cross

\* Three numbers in balance with three weights: where the signs of two weights
\* and of the numbers are known, so is that of the third.
LEMMA ThirdSign ==
  ASSUME NEW A \in Int, NEW B \in Int, NEW C \in Int,
         NEW r \in Int, NEW s \in Int, NEW t \in Int,
         s * A + t * B + r * C = 0
  PROVE  /\ A > 0 /\ ~(B > 0) /\ ~(C > 0) /\ r < 0 /\ t < 0 => s < 0 \/ (s = 0 /\ B = 0 /\ C = 0)
         /\ A > 0 /\ ~(B > 0) /\ ~(C > 0) /\ r > 0 /\ t > 0 => s > 0 \/ (s = 0 /\ B = 0 /\ C = 0)
         /\ ~(A > 0) /\ B > 0 /\ C > 0 /\ r < 0 /\ t < 0 => s < 0
         /\ ~(A > 0) /\ B > 0 /\ C > 0 /\ r > 0 /\ t > 0 => s > 0
<1>. DEFINE x == s * A
            y == t * B
            z == r * C
<1>1. x + y + z = 0 /\ x \in Int /\ y \in Int /\ z \in Int
  BY ProductSigns
<1>2. /\ A > 0 /\ s > 0 => x > 0
      /\ A > 0 /\ s < 0 => x < 0
      /\ ~(A > 0) /\ s > 0 => x <= 0
      /\ ~(A > 0) /\ s < 0 => x >= 0
      /\ s = 0 => x = 0
  BY ProductSigns
<1>3. /\ B > 0 /\ t > 0 => y > 0
      /\ B > 0 /\ t < 0 => y < 0
      /\ B < 0 /\ t > 0 => y < 0
      /\ B < 0 /\ t < 0 => y > 0
      /\ B = 0 => y = 0
  BY ProductSigns
<1>4. /\ C > 0 /\ r > 0 => z > 0
      /\ C > 0 /\ r < 0 => z < 0
      /\ C < 0 /\ r > 0 => z < 0
      /\ C < 0 /\ r < 0 => z > 0
      /\ C = 0 => z = 0
  BY ProductSigns
<1>. HIDE DEF x, y, z
<1>. QED BY <1>1, <1>2, <1>3, <1>4

\* One corner above the position and two not, or one not and two above: the line
\* cuts the two edges at that corner.
LEMMA OneCornerApart ==
  ASSUME NEW u \in Int, NEW A \in Int, NEW v \in Int, NEW B \in Int, NEW w \in Int, NEW C \in Int,
         (A > 0) # (B > 0), (A > 0) # (C > 0),
         ~On(u, A, v, B), ~On(v, B, w, C), ~On(w, C, u, A)
  PROVE  LET r == Cross(u, A, v, B)
             s == Cross(v, B, w, C)
             t == Cross(w, C, u, A) IN
         /\ ~Cut(B, C, s)
         /\ ~(Cut(A, B, r) <=> Cut(C, A, t)) <=> SameSign(r, s, t)
<1>. DEFINE r == Cross(u, A, v, B)
            s == Cross(v, B, w, C)
            t == Cross(w, C, u, A)
<1>1. r \in Int /\ s \in Int /\ t \in Int
  BY Balance
<1>2. s * A + t * B + r * C = 0
  BY Balance
<1>3. r # 0 /\ t # 0
  BY CutOrOn
<1>4. ~(s = 0 /\ B = 0 /\ C = 0 /\ A > 0 /\ ((r < 0 /\ t < 0) \/ (r > 0 /\ t > 0)))
  <2>1. SUFFICES ASSUME s = 0, B = 0, C = 0, A > 0, (r < 0 /\ t < 0) \/ (r > 0 /\ t > 0)
                 PROVE  On(v, B, w, C)
    OBVIOUS
  <2>2. r = -(v * A) /\ t = w * A
    BY <2>1, ProductSigns DEF Cross
  <2>3. (v > 0 /\ w < 0) \/ (v < 0 /\ w > 0)
    BY <2>1, <2>2, ProductSigns
  <2>. QED BY <2>1, <2>3 DEF On
<1>. HIDE DEF r, s, t
<1>5. CASE A > 0
  <2>1. ~(B > 0) /\ ~(C > 0)
    BY <1>5
  <2>2. (Cut(A, B, r) <=> r < 0) /\ (Cut(C, A, t) <=> t > 0) /\ ~Cut(B, C, s)
    BY <1>5, <2>1 DEF Cut
  <2>3. (r < 0 /\ t < 0 => s < 0) /\ (r > 0 /\ t > 0 => s > 0)
    BY <1>1, <1>2, <1>4, <1>5, <2>1, ThirdSign
  <2>4. ~(Cut(A, B, r) <=> Cut(C, A, t)) <=> SameSign(r, s, t)
    BY <1>1, <1>3, <2>2, <2>3 DEF SameSign
  <2>. QED BY <2>2, <2>4 DEF r, s, t
<1>6. CASE ~(A > 0)
  <2>1. B > 0 /\ C > 0
    BY <1>6
  <2>2. (Cut(A, B, r) <=> r > 0) /\ (Cut(C, A, t) <=> t < 0) /\ ~Cut(B, C, s)
    BY <1>6, <2>1 DEF Cut
  <2>3. (r < 0 /\ t < 0 => s < 0) /\ (r > 0 /\ t > 0 => s > 0)
    BY <1>1, <1>2, <1>6, <2>1, ThirdSign
  <2>4. ~(Cut(A, B, r) <=> Cut(C, A, t)) <=> SameSign(r, s, t)
    BY <1>1, <1>3, <2>2, <2>3 DEF SameSign
  <2>. QED BY <2>2, <2>4 DEF r, s, t
<1>. QED BY <1>5, <1>6

\* Three corners all above the position, or none of them: it is not inside.
LEMMA NoCornerApart ==
  ASSUME NEW u \in Int, NEW A \in Int, NEW v \in Int, NEW B \in Int, NEW w \in Int, NEW C \in Int,
         (A > 0) <=> (B > 0), (A > 0) <=> (C > 0)
  PROVE  ~SameSign(Cross(u, A, v, B), Cross(v, B, w, C), Cross(w, C, u, A))
<1>. DEFINE r == Cross(u, A, v, B)
            s == Cross(v, B, w, C)
            t == Cross(w, C, u, A)
<1>1. r \in Int /\ s \in Int /\ t \in Int
  BY Balance
<1>2. s * A + t * B + r * C = 0
  BY Balance
<1>3. A = 0 /\ B = 0 => r = 0
  BY ProductSigns DEF Cross
<1>. HIDE DEF r, s, t
<1>. DEFINE x == s * A
            y == t * B
            z == r * C
<1>4. x + y + z = 0 /\ x \in Int /\ y \in Int /\ z \in Int
  BY <1>1, <1>2, ProductSigns
<1>5. /\ A > 0 /\ s > 0 => x > 0
      /\ A > 0 /\ s < 0 => x < 0
      /\ A < 0 /\ s > 0 => x < 0
      /\ A < 0 /\ s < 0 => x > 0
      /\ A = 0 => x = 0
  BY <1>1, ProductSigns
<1>6. /\ B > 0 /\ t > 0 => y > 0
      /\ B > 0 /\ t < 0 => y < 0
      /\ B < 0 /\ t > 0 => y < 0
      /\ B < 0 /\ t < 0 => y > 0
      /\ B = 0 => y = 0
  BY <1>1, ProductSigns
<1>7. /\ C > 0 /\ r > 0 => z > 0
      /\ C > 0 /\ r < 0 => z < 0
      /\ C < 0 /\ r > 0 => z < 0
      /\ C < 0 /\ r < 0 => z > 0
      /\ C = 0 => z = 0
  BY <1>1, ProductSigns
<1>. HIDE DEF x, y, z
<1>8. ~SameSign(r, s, t)
  BY <1>1, <1>3, <1>4, <1>5, <1>6, <1>7 DEF SameSign
<1>. QED BY <1>8 DEF r, s, t

\* An odd number of the three.
Odd3(a, b, c) == (a <=> b) <=> c

\* The ray crosses the edges of a triangle an odd number of times exactly if the
\* position is inside.
LEMMA TriangleParity ==
  ASSUME NEW u \in Int, NEW A \in Int, NEW v \in Int, NEW B \in Int, NEW w \in Int, NEW C \in Int,
         ~On(u, A, v, B), ~On(v, B, w, C), ~On(w, C, u, A)
  PROVE  LET r == Cross(u, A, v, B)
             s == Cross(v, B, w, C)
             t == Cross(w, C, u, A) IN
         Odd3(Cut(A, B, r), Cut(B, C, s), Cut(C, A, t)) <=> SameSign(r, s, t)
<1>. DEFINE r == Cross(u, A, v, B)
            s == Cross(v, B, w, C)
            t == Cross(w, C, u, A)
<1>0. /\ SameSign(r, s, t) <=> SameSign(s, t, r)
      /\ SameSign(r, s, t) <=> SameSign(t, r, s)
      /\ Cut(A, B, r) \in BOOLEAN /\ Cut(B, C, s) \in BOOLEAN /\ Cut(C, A, t) \in BOOLEAN
  BY DEF SameSign, Cut
<1>1. CASE (A > 0) # (B > 0) /\ (A > 0) # (C > 0)
  <2>1. ~Cut(B, C, s) /\ (~(Cut(A, B, r) <=> Cut(C, A, t)) <=> SameSign(r, s, t))
    BY <1>1, OneCornerApart
  <2>. QED BY <1>0, <2>1 DEF Odd3
<1>2. CASE (B > 0) # (C > 0) /\ (B > 0) # (A > 0)
  <2>1. ~Cut(C, A, t) /\ (~(Cut(B, C, s) <=> Cut(A, B, r)) <=> SameSign(s, t, r))
    BY <1>2, OneCornerApart
  <2>. QED BY <1>0, <2>1 DEF Odd3
<1>3. CASE (C > 0) # (A > 0) /\ (C > 0) # (B > 0)
  <2>1. ~Cut(A, B, r) /\ (~(Cut(C, A, t) <=> Cut(B, C, s)) <=> SameSign(t, r, s))
    BY <1>3, OneCornerApart
  <2>. QED BY <1>0, <2>1 DEF Odd3
<1>4. CASE ((A > 0) <=> (B > 0)) /\ ((A > 0) <=> (C > 0))
  <2>1. ~SameSign(r, s, t)
    BY <1>4, NoCornerApart
  <2>2. ~Cut(A, B, r) /\ ~Cut(B, C, s) /\ ~Cut(C, A, t)
    BY <1>4 DEF Cut
  <2>. QED BY <2>1, <2>2 DEF Odd3
<1>. HIDE DEF r, s, t
<1>5. \/ (A > 0) # (B > 0) /\ (A > 0) # (C > 0)
      \/ (B > 0) # (C > 0) /\ (B > 0) # (A > 0)
      \/ (C > 0) # (A > 0) /\ (C > 0) # (B > 0)
      \/ ((A > 0) <=> (B > 0)) /\ ((A > 0) <=> (C > 0))
  OBVIOUS
<1>. QED BY <1>1, <1>2, <1>3, <1>4, <1>5

-----------------------------------------------------------------------------
\* An even number of the four is left when the two pairs agree.
Odd4(a, b, c, d) == ~((a <=> b) <=> (c <=> d))

\* The position is no corner of an edge it is not on.
LEMMA NoCornerHere ==
  ASSUME NEW u \in Int, NEW A \in Int, NEW v \in Int, NEW B \in Int, ~On(u, A, v, B)
  PROVE  ~(u = 0 /\ A = 0) /\ ~(v = 0 /\ B = 0)
<1>1. u * 0 = 0 /\ v * 0 = 0 /\ 0 * B = 0 /\ 0 * A = 0
  BY ProductSigns
<1>. QED BY <1>1 DEF On, Cross

\* In line with the position, two corners leave the other two edges in balance.
LEMMA InLine ==
  ASSUME NEW u \in Int, NEW A \in Int, NEW v \in Int, NEW B \in Int, NEW w \in Int, NEW C \in Int,
         Cross(w, C, u, A) = 0
  PROVE  Cross(v, B, w, C) * A + Cross(u, A, v, B) * C = 0
<1>1. Cross(v, B, w, C) * A + Cross(w, C, u, A) * B + Cross(u, A, v, B) * C = 0
  BY Balance
<1>2. 0 * B = 0
  BY ProductSigns
<1>3. Cross(v, B, w, C) * A \in Int /\ Cross(u, A, v, B) * C \in Int
  BY Turned, ProductSigns
<1>. QED BY <1>1, <1>2, <1>3

\* From a corner above the position by way of another to a corner below it, the
\* position on the line between the two: the way is on one side of it.
LEMMA OneSided ==
  ASSUME NEW u \in Int, NEW A \in Int, NEW v \in Int, NEW B \in Int, NEW w \in Int, NEW C \in Int,
         Cross(w, C, u, A) = 0,
         (A > 0 /\ C < 0) \/ (A < 0 /\ C > 0),
         Cross(u, A, v, B) + Cross(v, B, w, C) # 0
  PROVE  \/ Cross(u, A, v, B) < 0 /\ Cross(v, B, w, C) < 0
         \/ Cross(u, A, v, B) > 0 /\ Cross(v, B, w, C) > 0
<1>. DEFINE r == Cross(u, A, v, B)
            s == Cross(v, B, w, C)
<1>1. r \in Int /\ s \in Int /\ r + s # 0
  BY Turned
<1>2. s * A + r * C = 0
  BY InLine
<1>. DEFINE x == s * A
            z == r * C
<1>3. x + z = 0 /\ x \in Int /\ z \in Int
  BY <1>1, <1>2, ProductSigns
<1>4. /\ A > 0 /\ s > 0 => x > 0
      /\ A > 0 /\ s < 0 => x < 0
      /\ A < 0 /\ s > 0 => x < 0
      /\ A < 0 /\ s < 0 => x > 0
      /\ s = 0 => x = 0
  BY <1>1, ProductSigns
<1>5. /\ C > 0 /\ r > 0 => z > 0
      /\ C > 0 /\ r < 0 => z < 0
      /\ C < 0 /\ r > 0 => z < 0
      /\ C < 0 /\ r < 0 => z > 0
      /\ r = 0 => z = 0
  BY <1>1, ProductSigns
<1>. HIDE DEF x, z, r, s
<1>6. (r < 0 /\ s < 0) \/ (r > 0 /\ s > 0)
  BY <1>1, <1>3, <1>4, <1>5
<1>. QED BY <1>6 DEF r, s

\* Going down so, the ray meets the way if it is on the ray's side.
LEMMA WayDown ==
  ASSUME NEW u \in Int, NEW A \in Int, NEW v \in Int, NEW B \in Int, NEW w \in Int, NEW C \in Int,
         Cross(w, C, u, A) = 0, A > 0, C < 0,
         Cross(u, A, v, B) + Cross(v, B, w, C) # 0
  PROVE  ~(Cut(A, B, Cross(u, A, v, B)) <=> Cut(B, C, Cross(v, B, w, C)))
           <=> Cross(u, A, v, B) + Cross(v, B, w, C) < 0
<1>. DEFINE r == Cross(u, A, v, B)
            s == Cross(v, B, w, C)
<1>0. (r < 0 /\ s < 0) \/ (r > 0 /\ s > 0)
  BY OneSided
<1>1. r \in Int /\ s \in Int /\ ((r < 0 /\ s < 0) \/ (r > 0 /\ s > 0))
  BY <1>0, Turned
<1>. HIDE DEF r, s
<1>2. (r + s < 0 <=> r < 0) /\ (r + s < 0 <=> s < 0)
  BY <1>1
<1>3. ~(Cut(A, B, r) <=> Cut(B, C, s)) <=> r + s < 0
  BY <1>2 DEF Cut
<1>. QED BY <1>3 DEF r, s

\* Going up, if it is on the other.
LEMMA WayUp ==
  ASSUME NEW u \in Int, NEW A \in Int, NEW v \in Int, NEW B \in Int, NEW w \in Int, NEW C \in Int,
         Cross(w, C, u, A) = 0, A < 0, C > 0,
         Cross(u, A, v, B) + Cross(v, B, w, C) # 0
  PROVE  ~(Cut(A, B, Cross(u, A, v, B)) <=> Cut(B, C, Cross(v, B, w, C)))
           <=> Cross(u, A, v, B) + Cross(v, B, w, C) > 0
<1>. DEFINE r == Cross(u, A, v, B)
            s == Cross(v, B, w, C)
<1>0. (r < 0 /\ s < 0) \/ (r > 0 /\ s > 0)
  BY OneSided
<1>1. r \in Int /\ s \in Int /\ ((r < 0 /\ s < 0) \/ (r > 0 /\ s > 0))
  BY <1>0, Turned
<1>. HIDE DEF r, s
<1>2. (r + s > 0 <=> r > 0) /\ (r + s > 0 <=> s > 0)
  BY <1>1
<1>3. ~(Cut(A, B, r) <=> Cut(B, C, s)) <=> r + s > 0
  BY <1>2 DEF Cut
<1>. QED BY <1>3 DEF r, s

\* The diagonal that runs through the position is met on the side where it is.
MetOnItsSide(u, A, v, B, w, C) ==
  LET r == Cross(u, A, v, B)
      s == Cross(v, B, w, C) IN
  Cross(w, C, u, A) = 0 /\ r + s # 0 =>
    /\ A > 0 /\ C < 0 => (~(Cut(A, B, r) <=> Cut(B, C, s)) <=> r + s < 0)
    /\ A < 0 /\ C > 0 => (~(Cut(A, B, r) <=> Cut(B, C, s)) <=> r + s > 0)

\* Both in one.
LEMMA WayMet ==
  ASSUME NEW u \in Int, NEW A \in Int, NEW v \in Int, NEW B \in Int, NEW w \in Int, NEW C \in Int
  PROVE  MetOnItsSide(u, A, v, B, w, C)
<1>. DEFINE r == Cross(u, A, v, B)
            s == Cross(v, B, w, C)
            odd == ~(Cut(A, B, r) <=> Cut(B, C, s))
<1>1. ASSUME Cross(w, C, u, A) = 0, r + s # 0, A > 0, C < 0
      PROVE  odd <=> r + s < 0
  BY <1>1, WayDown
<1>2. ASSUME Cross(w, C, u, A) = 0, r + s # 0, A < 0, C > 0
      PROVE  odd <=> r + s > 0
  BY <1>2, WayUp
<1>. HIDE DEF odd
<1>. QED BY <1>1, <1>2 DEF MetOnItsSide, odd

\* The same when the three lie at one height, the way beside them: the ray is met
\* at the corner that lies on its side, if the way is above.
LEMMA WayAbove ==
  ASSUME NEW u \in Int, NEW v \in Int, NEW B \in Int, NEW w \in Int,
         (u < 0 /\ w > 0) \/ (w < 0 /\ u > 0), B # 0
  PROVE  LET r == Cross(u, 0, v, B)
             s == Cross(v, B, w, 0) IN
         /\ ~(Cut(0, B, r) <=> Cut(B, 0, s)) <=> B > 0
         /\ r + s # 0 /\ r + s \in Int
         /\ u > 0 => (r + s > 0 <=> B > 0)
         /\ u < 0 => (r + s > 0 <=> B < 0)
<1>. DEFINE r == Cross(u, 0, v, B)
            s == Cross(v, B, w, 0)
<1>1. r = u * B /\ s = -(w * B) /\ u * B \in Int /\ w * B \in Int
  BY ProductSigns DEF Cross
<1>2. /\ u > 0 /\ B > 0 => u * B > 0
      /\ u > 0 /\ B < 0 => u * B < 0
      /\ u < 0 /\ B > 0 => u * B < 0
      /\ u < 0 /\ B < 0 => u * B > 0
      /\ w > 0 /\ B > 0 => w * B > 0
      /\ w > 0 /\ B < 0 => w * B < 0
      /\ w < 0 /\ B > 0 => w * B < 0
      /\ w < 0 /\ B < 0 => w * B > 0
  BY ProductSigns
<1>. HIDE DEF r, s
<1>3. /\ Cut(0, B, r) <=> B > 0 /\ r > 0
      /\ Cut(B, 0, s) <=> B > 0 /\ s < 0
  BY DEF Cut
<1>4. r \in Int /\ s \in Int
  BY <1>1
<1>. DEFINE x == u * B
            y == w * B
<1>5. r = x /\ s = -y /\ x \in Int /\ y \in Int
  BY <1>1
<1>6. /\ u > 0 /\ B > 0 => x > 0
      /\ u > 0 /\ B < 0 => x < 0
      /\ u < 0 /\ B > 0 => x < 0
      /\ u < 0 /\ B < 0 => x > 0
      /\ w > 0 /\ B > 0 => y > 0
      /\ w > 0 /\ B < 0 => y < 0
      /\ w < 0 /\ B > 0 => y < 0
      /\ w < 0 /\ B < 0 => y > 0
  BY <1>2
<1>. HIDE DEF x, y
<1>7. ~(Cut(0, B, r) <=> Cut(B, 0, s)) <=> B > 0
  BY <1>3, <1>5, <1>6
<1>8. r + s # 0 /\ r + s \in Int
  BY <1>5, <1>6
<1>9. /\ u > 0 => (r + s > 0 <=> B > 0)
      /\ u < 0 => (r + s > 0 <=> B < 0)
  BY <1>5, <1>6
<1>. QED BY <1>7, <1>8, <1>9 DEF r, s

\* Two corners on either side of a diagonal: numbers whose product is negative.
LEMMA OppositeSigns ==
  ASSUME NEW x \in Int, NEW y \in Int, x * y < 0
  PROVE  (x > 0 /\ y < 0) \/ (x < 0 /\ y > 0)
BY ProductSigns

\* A position on the diagonal of a quadrilateral: the ray meets one of the two
\* ways from corner to corner.
LEMMA DiagonalParity ==
  ASSUME NEW u \in Int, NEW A \in Int, NEW v \in Int, NEW B \in Int,
         NEW w \in Int, NEW C \in Int, NEW z \in Int, NEW D \in Int,
         ~On(u, A, v, B), ~On(v, B, w, C), ~On(w, C, z, D), ~On(z, D, u, A),
         On(u, A, w, C),
         \/ /\ Cross(u, A, v, B) + Cross(v, B, w, C) > 0
            /\ Cross(w, C, z, D) + Cross(z, D, u, A) > 0
         \/ /\ Cross(u, A, v, B) + Cross(v, B, w, C) < 0
            /\ Cross(w, C, z, D) + Cross(z, D, u, A) < 0
  PROVE  Odd4(Cut(A, B, Cross(u, A, v, B)), Cut(B, C, Cross(v, B, w, C)),
              Cut(C, D, Cross(w, C, z, D)), Cut(D, A, Cross(z, D, u, A)))
<1>. DEFINE r == Cross(u, A, v, B)
            s == Cross(v, B, w, C)
            x == Cross(w, C, z, D)
            y == Cross(z, D, u, A)
<1>1. r \in Int /\ s \in Int /\ x \in Int /\ y \in Int
  BY Turned
<1>2. (r + s > 0 /\ x + y > 0) \/ (r + s < 0 /\ x + y < 0)
  OBVIOUS
<1>3. Cross(u, A, w, C) = 0 /\ Cross(w, C, u, A) = 0
  <2>1. Cross(u, A, w, C) = 0
    BY DEF On
  <2>. QED BY <2>1, TurnedZero
<1>4. ~(u = 0 /\ A = 0) /\ ~(w = 0 /\ C = 0)
  BY NoCornerHere
<1>5. r + s # 0 /\ x + y # 0
  BY <1>1, <1>2
<1>6. (r + s < 0 <=> x + y < 0) /\ (r + s > 0 <=> x + y > 0)
  BY <1>1, <1>2
<1>7. u * C = w * A
  BY <1>3, ProductSigns DEF Cross
<1>8. \/ A > 0 /\ C < 0
      \/ A < 0 /\ C > 0
      \/ A = 0 /\ C = 0
  <2>1. (A <= 0 /\ 0 <= C) \/ (C <= 0 /\ 0 <= A)
    BY DEF On
  <2>2. A # 0 /\ C = 0 => w = 0
    BY <1>7, ProductSigns
  <2>3. C # 0 /\ A = 0 => u = 0
    BY <1>7, ProductSigns
  <2>. QED BY <1>4, <2>1, <2>2, <2>3
<1>w. MetOnItsSide(u, A, v, B, w, C) /\ MetOnItsSide(w, C, z, D, u, A)
  BY WayMet
<1>9. CASE A > 0 /\ C < 0
  <2>1. ~(Cut(A, B, r) <=> Cut(B, C, s)) <=> r + s < 0
    BY <1>3, <1>5, <1>w, <1>9 DEF MetOnItsSide
  <2>2. ~(Cut(C, D, x) <=> Cut(D, A, y)) <=> x + y > 0
    BY <1>3, <1>5, <1>w, <1>9 DEF MetOnItsSide
  <2>. HIDE DEF r, s, x, y
  <2>3. Odd4(Cut(A, B, r), Cut(B, C, s), Cut(C, D, x), Cut(D, A, y))
    BY <1>1, <1>5, <1>6, <2>1, <2>2 DEF Odd4
  <2>. QED BY <2>3 DEF r, s, x, y
<1>10. CASE A < 0 /\ C > 0
  <2>1. ~(Cut(A, B, r) <=> Cut(B, C, s)) <=> r + s > 0
    BY <1>3, <1>5, <1>w, <1>10 DEF MetOnItsSide
  <2>2. ~(Cut(C, D, x) <=> Cut(D, A, y)) <=> x + y < 0
    BY <1>3, <1>5, <1>w, <1>10 DEF MetOnItsSide
  <2>. HIDE DEF r, s, x, y
  <2>3. Odd4(Cut(A, B, r), Cut(B, C, s), Cut(C, D, x), Cut(D, A, y))
    BY <1>1, <1>5, <1>6, <2>1, <2>2 DEF Odd4
  <2>. QED BY <2>3 DEF r, s, x, y
<1>11. CASE A = 0 /\ C = 0
  <2>1. (u < 0 /\ w > 0) \/ (w < 0 /\ u > 0)
    BY <1>4, <1>11 DEF On
  <2>2. B # 0
    <3>1. SUFFICES ASSUME B = 0
                   PROVE  FALSE
      OBVIOUS
    <3>2. r = 0 /\ s = 0
      BY <1>11, <3>1, ProductSigns DEF Cross
    <3>. QED BY <1>5, <3>2
  <2>3. D # 0
    <3>1. SUFFICES ASSUME D = 0
                   PROVE  FALSE
      OBVIOUS
    <3>2. x = 0 /\ y = 0
      BY <1>11, <3>1, ProductSigns DEF Cross
    <3>. QED BY <1>5, <3>2
  <2>4. /\ ~(Cut(A, B, r) <=> Cut(B, C, s)) <=> B > 0
        /\ u > 0 => (r + s > 0 <=> B > 0)
        /\ u < 0 => (r + s > 0 <=> B < 0)
    BY <1>11, <2>1, <2>2, WayAbove
  <2>5. /\ ~(Cut(C, D, x) <=> Cut(D, A, y)) <=> D > 0
        /\ w > 0 => (x + y > 0 <=> D > 0)
        /\ w < 0 => (x + y > 0 <=> D < 0)
    BY <1>11, <2>1, <2>3, WayAbove
  <2>. HIDE DEF r, s, x, y
  <2>6. B > 0 <=> ~(D > 0)
    BY <1>1, <1>6, <2>1, <2>2, <2>3, <2>4, <2>5
  <2>7. Odd4(Cut(A, B, r), Cut(B, C, s), Cut(C, D, x), Cut(D, A, y))
    BY <2>4, <2>5, <2>6 DEF Odd4
  <2>. QED BY <2>7 DEF r, s, x, y
<1>. QED BY <1>8, <1>9, <1>10, <1>11

\* The ray crosses the edges of a quadrilateral an odd number of times exactly if
\* the position is in one of the triangles its diagonal cuts it in, or on it.
LEMMA QuadrilateralParity ==
  ASSUME NEW u \in Int, NEW A \in Int, NEW v \in Int, NEW B \in Int,
         NEW w \in Int, NEW C \in Int, NEW z \in Int, NEW D \in Int,
         ~On(u, A, v, B), ~On(v, B, w, C), ~On(w, C, z, D), ~On(z, D, u, A),
         NEW E \in Int, E = Cross(u, A, w, C) + Cross(w, C, v, B) + Cross(v, B, u, A),
         NEW F \in Int, F = Cross(u, A, w, C) + Cross(w, C, z, D) + Cross(z, D, u, A),
         (E > 0 /\ F < 0) \/ (E < 0 /\ F > 0)
  PROVE  Odd4(Cut(A, B, Cross(u, A, v, B)), Cut(B, C, Cross(v, B, w, C)),
              Cut(C, D, Cross(w, C, z, D)), Cut(D, A, Cross(z, D, u, A)))
         <=> \/ SameSign(Cross(u, A, v, B), Cross(v, B, w, C), Cross(w, C, u, A))
             \/ SameSign(Cross(u, A, w, C), Cross(w, C, z, D), Cross(z, D, u, A))
             \/ On(u, A, w, C)
<1>. DEFINE r == Cross(u, A, v, B)
            s == Cross(v, B, w, C)
            t == Cross(w, C, u, A)
            m == Cross(u, A, w, C)
            x == Cross(w, C, z, D)
            y == Cross(z, D, u, A)
<1>1. r \in Int /\ s \in Int /\ t \in Int /\ m \in Int /\ x \in Int /\ y \in Int /\ m = -t
  BY Turned
<1>2. E = -(r + s + t) /\ F = -t + x + y
  <2>1. Cross(w, C, v, B) = -s /\ Cross(v, B, u, A) = -r
    BY Turned
  <2>. QED BY <1>1, <2>1
<1>3. (E > 0 /\ F < 0) \/ (E < 0 /\ F > 0)
  OBVIOUS
<1>4. CASE On(u, A, w, C)
  <2>1. m = 0 /\ t = 0
    BY <1>1, <1>4 DEF On
  <2>2. (r + s > 0 /\ x + y > 0) \/ (r + s < 0 /\ x + y < 0)
    <3>. HIDE DEF r, s, t, x, y
    <3>. QED BY <1>1, <1>2, <1>3, <2>1
  <2>. QED BY <1>4, <2>2, DiagonalParity
<1>5. CASE ~On(u, A, w, C)
  <2>1. ~On(w, C, u, A)
    <3>1. m = 0 <=> t = 0
      <4>. HIDE DEF m, t
      <4>. QED BY <1>1
    <3>. QED BY <1>5, <3>1 DEF On
  <2>2. Odd3(Cut(A, B, r), Cut(B, C, s), Cut(C, A, t)) <=> SameSign(r, s, t)
    BY <2>1, TriangleParity
  <2>3. Odd3(Cut(A, C, m), Cut(C, D, x), Cut(D, A, y)) <=> SameSign(m, x, y)
    BY <1>5, TriangleParity
  <2>. HIDE DEF r, s, t, m, x, y
  <2>4. Cut(A, C, m) <=> Cut(C, A, t)
    BY <1>1 DEF Cut
  <2>5. ~(SameSign(r, s, t) /\ SameSign(m, x, y))
    BY <1>1, <1>2, <1>3 DEF SameSign
  <2>6. Odd4(Cut(A, B, r), Cut(B, C, s), Cut(C, D, x), Cut(D, A, y))
          <=> SameSign(r, s, t) \/ SameSign(m, x, y)
    BY <2>2, <2>3, <2>4, <2>5 DEF Odd3, Odd4
  <2>. QED BY <1>5, <2>6 DEF r, s, t, m, x, y
<1>. QED BY <1>4, <1>5

-----------------------------------------------------------------------------
\* The sides, edges and crossings of the model, seen from the position.
LEMMA FromPosition ==
  ASSUME NEW a \in Int \X Int, NEW b \in Int \X Int, NEW p \in Int \X Int
  PROVE  /\ Side(a, b, p) = Cross(a[1] - p[1], a[2] - p[2], b[1] - p[1], b[2] - p[2])
         /\ OnEdge(a, b, p) <=> On(a[1] - p[1], a[2] - p[2], b[1] - p[1], b[2] - p[2])
         /\ Crosses(a, b, p) <=> Cut(a[2] - p[2], b[2] - p[2], Side(a, b, p))
<1>. DEFINE u == a[1] - p[1]
            A == a[2] - p[2]
            v == b[1] - p[1]
            B == b[2] - p[2]
<1>1. a[1] \in Int /\ a[2] \in Int /\ b[1] \in Int /\ b[2] \in Int /\ p[1] \in Int /\ p[2] \in Int
  OBVIOUS
<1>2. Side(a, b, p) = Cross(u, A, v, B)
  BY <1>1 DEF Side, Cross
<1>3. OnEdge(a, b, p) <=> On(u, A, v, B)
  <2>1. Between(a[1], p[1], b[1]) <=> (u <= 0 /\ 0 <= v) \/ (v <= 0 /\ 0 <= u)
    BY <1>1 DEF Between
  <2>2. Between(a[2], p[2], b[2]) <=> (A <= 0 /\ 0 <= B) \/ (B <= 0 /\ 0 <= A)
    BY <1>1 DEF Between
  <2>. QED BY <1>2, <2>1, <2>2 DEF OnEdge, On
<1>4. Crosses(a, b, p) <=> Cut(A, B, Side(a, b, p))
  <2>. DEFINE d == a[2] - b[2]
              l == (p[1] - a[1]) * d
              m == (a[1] - b[1]) * (p[2] - a[2])
  <2>1. Side(a, b, p) = l - m /\ l \in Int /\ m \in Int
    BY <1>1 DEF Side
  <2>2. /\ a[2] > p[2] <=> A > 0
        /\ b[2] > p[2] <=> B > 0
        /\ d > 0 <=> A > B
        /\ A \in Int /\ B \in Int
    BY <1>1
  <2>3. Crosses(a, b, p) <=>
          /\ (a[2] > p[2]) # (b[2] > p[2])
          /\ IF d > 0 THEN l < m ELSE l > m
    BY DEF Crosses
  <2>. HIDE DEF d, l, m, A, B
  <2>. QED BY <2>1, <2>2, <2>3 DEF Cut
<1>. QED BY <1>2, <1>3, <1>4

\* The same edge the other way is crossed just so.
LEMMA CrossesTurned ==
  ASSUME NEW a \in Int \X Int, NEW b \in Int \X Int, NEW p \in Int \X Int
  PROVE  /\ Crosses(b, a, p) <=> Cut(a[2] - p[2], b[2] - p[2], Side(a, b, p))
         /\ ~Crosses(a, a, p)
<1>. DEFINE u == a[1] - p[1]
            A == a[2] - p[2]
            v == b[1] - p[1]
            B == b[2] - p[2]
<1>1. u \in Int /\ A \in Int /\ v \in Int /\ B \in Int
  OBVIOUS
<1>2. /\ Crosses(b, a, p) <=> Cut(B, A, Side(b, a, p))
      /\ Side(b, a, p) = Cross(v, B, u, A)
      /\ Side(a, b, p) = Cross(u, A, v, B)
      /\ Crosses(a, a, p) <=> Cut(A, A, Side(a, a, p))
  BY FromPosition
<1>. HIDE DEF u, A, v, B
<1>3. Side(a, b, p) \in Int /\ Side(b, a, p) = -Side(a, b, p)
  BY <1>1, <1>2, Turned
<1>4. Cut(B, A, Side(b, a, p)) <=> Cut(A, B, Side(a, b, p))
  BY <1>1, <1>3 DEF Cut
<1>5. ~Cut(A, A, Side(a, a, p))
  BY <1>1 DEF Cut
<1>. QED BY <1>2, <1>4, <1>5 DEF A, B

\* The area of a triangle, from any position.
LEMMA AreaFrom ==
  ASSUME NEW a \in Int \X Int, NEW b \in Int \X Int, NEW c \in Int \X Int, NEW p \in Int \X Int
  PROVE  Side(a, b, c) = Side(a, b, p) + Side(b, c, p) + Side(c, a, p) /\ Side(a, b, c) \in Int
<1>1. /\ a[1] \in Int /\ a[2] \in Int /\ b[1] \in Int /\ b[2] \in Int /\ p[1] \in Int /\ p[2] \in Int
      /\ c[1] \in Int /\ c[2] \in Int
  OBVIOUS
<1>. QED BY <1>1 DEF Side

-----------------------------------------------------------------------------
\* How many of the first n + 1 numbers a set has.
LEMMA CountStep ==
  ASSUME NEW S, NEW n \in Nat
  PROVE  /\ Cardinality(S \cap (1..n)) \in Nat
         /\ n + 1 \in S => Cardinality(S \cap (1..(n + 1))) = Cardinality(S \cap (1..n)) + 1
         /\ n + 1 \notin S => Cardinality(S \cap (1..(n + 1))) = Cardinality(S \cap (1..n))
<1>. DEFINE T == S \cap (1..n)
<1>1. IsFiniteSet(T)
  <2>1. IsFiniteSet(1..n) /\ T \subseteq 1..n
    BY FS_Interval
  <2>. QED BY <2>1, FS_Subset
<1>2. n + 1 \notin T
  OBVIOUS
<1>3. Cardinality(T) \in Nat
  BY <1>1, FS_CardinalityType
<1>4. CASE n + 1 \in S
  <2>1. S \cap (1..(n + 1)) = T \cup {n + 1}
    BY <1>4
  <2>2. Cardinality(T \cup {n + 1}) = Cardinality(T) + 1
    BY <1>1, <1>2, FS_AddElement
  <2>. QED BY <1>3, <1>4, <2>1, <2>2
<1>5. CASE n + 1 \notin S
  <2>1. S \cap (1..(n + 1)) = T
    BY <1>5
  <2>. QED BY <1>3, <1>5, <2>1
<1>. QED BY <1>4, <1>5

\* How many of the edges are crossed, odd or even, from which ones are.
LEMMA CountOdd ==
  ASSUME NEW S, 1 \notin S
  PROVE  /\ S \subseteq 1..4 => (Cardinality(S) % 2 = 1 <=> Odd3(2 \in S, 3 \in S, 4 \in S))
         /\ S \subseteq 1..5 => (Cardinality(S) % 2 = 1 <=> Odd4(2 \in S, 3 \in S, 4 \in S, 5 \in S))
<1>. DEFINE N(k) == Cardinality(S \cap (1..k))
<1>1. N(0) = 0
  <2>1. S \cap (1..0) = {}
    OBVIOUS
  <2>. QED BY <2>1, FS_EmptySet
<1>2. N(1) = 0
  <2>1. S \cap (1..1) = {}
    OBVIOUS
  <2>. QED BY <2>1, FS_EmptySet
<1>3. ASSUME NEW n \in Nat
      PROVE  /\ N(n) \in Nat
             /\ n + 1 \in S => N(n + 1) = N(n) + 1
             /\ n + 1 \notin S => N(n + 1) = N(n)
  BY CountStep
<1>. HIDE DEF N
<1>4. /\ 2 \in S => N(2) = 1
      /\ 2 \notin S => N(2) = 0
  <2>1. 1 \in Nat /\ 1 + 1 = 2
    OBVIOUS
  <2>. QED BY <1>2, <1>3, <2>1
<1>5. /\ N(2) \in Nat
      /\ 3 \in S => N(3) = N(2) + 1
      /\ 3 \notin S => N(3) = N(2)
  <2>1. 2 \in Nat /\ 2 + 1 = 3
    OBVIOUS
  <2>. QED BY <1>3, <2>1
<1>6. /\ N(3) \in Nat
      /\ 4 \in S => N(4) = N(3) + 1
      /\ 4 \notin S => N(4) = N(3)
  <2>1. 3 \in Nat /\ 3 + 1 = 4
    OBVIOUS
  <2>. QED BY <1>3, <2>1
<1>7. /\ N(4) \in Nat
      /\ 5 \in S => N(5) = N(4) + 1
      /\ 5 \notin S => N(5) = N(4)
  <2>1. 4 \in Nat /\ 4 + 1 = 5
    OBVIOUS
  <2>. QED BY <1>3, <2>1
<1>8. N(4) % 2 = 1 <=> Odd3(2 \in S, 3 \in S, 4 \in S)
  BY <1>4, <1>5, <1>6 DEF Odd3
<1>9. N(5) % 2 = 1 <=> Odd4(2 \in S, 3 \in S, 4 \in S, 5 \in S)
  BY <1>4, <1>5, <1>6, <1>7 DEF Odd4
<1>10. ASSUME S \subseteq 1..4
       PROVE  Cardinality(S) = N(4)
  <2>1. S \cap (1..4) = S
    BY <1>10
  <2>. QED BY <2>1 DEF N
<1>11. ASSUME S \subseteq 1..5
       PROVE  Cardinality(S) = N(5)
  <2>1. S \cap (1..5) = S
    BY <1>11
  <2>. QED BY <2>1 DEF N
<1>. QED BY <1>8, <1>9, <1>10, <1>11

-----------------------------------------------------------------------------
(***************************************************************************)
(* The inductive invariant of the fence: what is loaded is a closed list   *)
(* of corners, and after a check the answer is that of the ray casting.    *)
(***************************************************************************)
FenceIInv ==
  /\ FenceTypeOK
  /\ fence = <<>> \/ \E coords \in CoordLists : fence = Closed(coords)
  /\ fenceAt # <<>> => fenceAnswer = IsInside(fenceAt) /\ breach = ~fenceAnswer

\* Points of the grid are pairs of integers.
LEMMA PointsArePairs == Points \subseteq Int \X Int
BY GridAssumption DEF Points

\* The boundary is the list of the corners, with the first one again at the end.
FencedBy(corners) ==
  /\ Len(fence) = Len(corners) + 1
  /\ \A i \in 1..Len(corners) : fence[i] = corners[i]
  /\ fence[Len(corners) + 1] = corners[1]

\* For a triangle and a position off its edges the ray casting is right.
LEMMA TriangleRay ==
  ASSUME NEW a \in Int \X Int, NEW b \in Int \X Int, NEW c \in Int \X Int,
         FencedBy(<<a, b, c>>), NEW p \in Int \X Int, ~OnFence(p)
  PROVE  RayCast(p) <=> InTriangle(a, b, c, p)
<1>. DEFINE Before(i) == IF i = 1 THEN Len(fence) ELSE i - 1
            crossed == {i \in 1..Len(fence) : Crosses(fence[i], fence[Before(i)], p)}
            r == Side(a, b, p)
            s == Side(b, c, p)
            t == Side(c, a, p)
            A == a[2] - p[2]
            B == b[2] - p[2]
            C == c[2] - p[2]
<1>1. Len(fence) = 4 /\ fence[1] = a /\ fence[2] = b /\ fence[3] = c /\ fence[4] = a
  <2>. DEFINE corners == <<a, b, c>>
  <2>1. Len(corners) = 3 /\ corners[1] = a /\ corners[2] = b /\ corners[3] = c
    OBVIOUS
  <2>2. FencedBy(corners)
    OBVIOUS
  <2>. HIDE DEF corners
  <2>. QED BY <2>1, <2>2 DEF FencedBy
<1>2. ~OnEdge(a, b, p) /\ ~OnEdge(b, c, p) /\ ~OnEdge(c, a, p)
  <2>1. \A i \in 1..3 : ~OnEdge(fence[i], fence[i + 1], p)
    BY <1>1 DEF OnFence
  <2>2. ~OnEdge(fence[1], fence[1 + 1], p) /\ ~OnEdge(fence[2], fence[2 + 1], p)
          /\ ~OnEdge(fence[3], fence[3 + 1], p)
    BY <2>1
  <2>. QED BY <1>1, <2>2
<1>3. /\ 1 \in crossed <=> Crosses(a, a, p)
      /\ 2 \in crossed <=> Crosses(b, a, p)
      /\ 3 \in crossed <=> Crosses(c, b, p)
      /\ 4 \in crossed <=> Crosses(a, c, p)
      /\ crossed \subseteq 1..4
  BY <1>1
<1>. HIDE DEF crossed
<1>4. /\ 1 \notin crossed
      /\ 2 \in crossed <=> Cut(A, B, r)
      /\ 3 \in crossed <=> Cut(B, C, s)
      /\ 4 \in crossed <=> Cut(C, A, t)
  BY <1>3, CrossesTurned
<1>5. Odd3(Cut(A, B, r), Cut(B, C, s), Cut(C, A, t)) <=> SameSign(r, s, t)
  <2>. DEFINE u == a[1] - p[1]
              v == b[1] - p[1]
              w == c[1] - p[1]
  <2>1. u \in Int /\ A \in Int /\ v \in Int /\ B \in Int /\ w \in Int /\ C \in Int
    OBVIOUS
  <2>2. r = Cross(u, A, v, B) /\ s = Cross(v, B, w, C) /\ t = Cross(w, C, u, A)
    BY FromPosition
  <2>3. ~On(u, A, v, B) /\ ~On(v, B, w, C) /\ ~On(w, C, u, A)
    BY <1>2, FromPosition
  <2>. HIDE DEF u, v, w, A, B, C, r, s, t
  <2>. QED BY <2>1, <2>2, <2>3, TriangleParity
<1>6. RayCast(p) <=> Cardinality(crossed) % 2 = 1
  BY DEF RayCast, crossed
<1>7. Cardinality(crossed) % 2 = 1 <=> Odd3(2 \in crossed, 3 \in crossed, 4 \in crossed)
  BY <1>3, <1>4, CountOdd
<1>8. InTriangle(a, b, c, p) <=> SameSign(r, s, t)
  BY DEF InTriangle, SameSign
<1>. HIDE DEF A, B, C, r, s, t
<1>. QED BY <1>4, <1>5, <1>6, <1>7, <1>8 DEF Odd3

\* For a quadrilateral whose diagonal is inside and a position off its edges, too.
LEMMA QuadrilateralRay ==
  ASSUME NEW a \in Int \X Int, NEW b \in Int \X Int, NEW c \in Int \X Int, NEW d \in Int \X Int,
         Side(a, c, b) * Side(a, c, d) < 0,
         FencedBy(<<a, b, c, d>>), NEW p \in Int \X Int, ~OnFence(p)
  PROVE  RayCast(p) <=> InTriangle(a, b, c, p) \/ InTriangle(a, c, d, p) \/ OnEdge(a, c, p)
<1>. DEFINE Before(i) == IF i = 1 THEN Len(fence) ELSE i - 1
            crossed == {i \in 1..Len(fence) : Crosses(fence[i], fence[Before(i)], p)}
            r == Side(a, b, p)
            s == Side(b, c, p)
            t == Side(c, a, p)
            m == Side(a, c, p)
            x == Side(c, d, p)
            y == Side(d, a, p)
            A == a[2] - p[2]
            B == b[2] - p[2]
            C == c[2] - p[2]
            D == d[2] - p[2]
<1>1. /\ Len(fence) = 5 /\ fence[1] = a /\ fence[2] = b /\ fence[3] = c /\ fence[4] = d
      /\ fence[5] = a
  <2>. DEFINE corners == <<a, b, c, d>>
  <2>1. /\ Len(corners) = 4 /\ corners[1] = a /\ corners[2] = b /\ corners[3] = c
        /\ corners[4] = d
    OBVIOUS
  <2>2. FencedBy(corners)
    OBVIOUS
  <2>. HIDE DEF corners
  <2>. QED BY <2>1, <2>2 DEF FencedBy
<1>2. ~OnEdge(a, b, p) /\ ~OnEdge(b, c, p) /\ ~OnEdge(c, d, p) /\ ~OnEdge(d, a, p)
  <2>1. \A i \in 1..4 : ~OnEdge(fence[i], fence[i + 1], p)
    BY <1>1 DEF OnFence
  <2>2. ~OnEdge(fence[1], fence[1 + 1], p) /\ ~OnEdge(fence[2], fence[2 + 1], p)
          /\ ~OnEdge(fence[3], fence[3 + 1], p) /\ ~OnEdge(fence[4], fence[4 + 1], p)
    BY <2>1
  <2>. QED BY <1>1, <2>2
<1>3. /\ 1 \in crossed <=> Crosses(a, a, p)
      /\ 2 \in crossed <=> Crosses(b, a, p)
      /\ 3 \in crossed <=> Crosses(c, b, p)
      /\ 4 \in crossed <=> Crosses(d, c, p)
      /\ 5 \in crossed <=> Crosses(a, d, p)
      /\ crossed \subseteq 1..5
  BY <1>1
<1>. HIDE DEF crossed
<1>4. /\ 1 \notin crossed
      /\ 2 \in crossed <=> Cut(A, B, r)
      /\ 3 \in crossed <=> Cut(B, C, s)
      /\ 4 \in crossed <=> Cut(C, D, x)
      /\ 5 \in crossed <=> Cut(D, A, y)
  BY <1>3, CrossesTurned
<1>5. Odd4(Cut(A, B, r), Cut(B, C, s), Cut(C, D, x), Cut(D, A, y))
        <=> SameSign(r, s, t) \/ SameSign(m, x, y) \/ OnEdge(a, c, p)
  <2>. DEFINE u == a[1] - p[1]
              v == b[1] - p[1]
              w == c[1] - p[1]
              z == d[1] - p[1]
              E == Side(a, c, b)
              F == Side(a, c, d)
  <2>1. /\ u \in Int /\ A \in Int /\ v \in Int /\ B \in Int
        /\ w \in Int /\ C \in Int /\ z \in Int /\ D \in Int
    OBVIOUS
  <2>2. /\ r = Cross(u, A, v, B) /\ s = Cross(v, B, w, C) /\ t = Cross(w, C, u, A)
        /\ m = Cross(u, A, w, C) /\ x = Cross(w, C, z, D) /\ y = Cross(z, D, u, A)
    BY FromPosition
  <2>3. ~On(u, A, v, B) /\ ~On(v, B, w, C) /\ ~On(w, C, z, D) /\ ~On(z, D, u, A)
    BY <1>2, FromPosition
  <2>4. OnEdge(a, c, p) <=> On(u, A, w, C)
    BY FromPosition
  <2>5. /\ E \in Int /\ F \in Int
        /\ E = Cross(u, A, w, C) + Cross(w, C, v, B) + Cross(v, B, u, A)
        /\ F = Cross(u, A, w, C) + Cross(w, C, z, D) + Cross(z, D, u, A)
    <3>1. /\ E = Side(a, c, p) + Side(c, b, p) + Side(b, a, p) /\ E \in Int
          /\ F = Side(a, c, p) + Side(c, d, p) + Side(d, a, p) /\ F \in Int
      BY AreaFrom
    <3>2. Side(c, b, p) = Cross(w, C, v, B) /\ Side(b, a, p) = Cross(v, B, u, A)
      BY FromPosition
    <3>. HIDE DEF E, F, u, v, w, z, A, B, C, D
    <3>. QED BY <2>2, <3>1, <3>2 DEF m, x, y
  <2>6. (E > 0 /\ F < 0) \/ (E < 0 /\ F > 0)
    <3>1. E * F < 0
      OBVIOUS
    <3>. HIDE DEF E, F
    <3>. QED BY <2>5, <3>1, OppositeSigns
  <2>. HIDE DEF u, v, w, z, A, B, C, D, r, s, t, m, x, y, E, F
  <2>. QED BY <2>1, <2>2, <2>3, <2>4, <2>5, <2>6, QuadrilateralParity
<1>6. RayCast(p) <=> Cardinality(crossed) % 2 = 1
  BY DEF RayCast, crossed
<1>7. Cardinality(crossed) % 2 = 1 <=> Odd4(2 \in crossed, 3 \in crossed, 4 \in crossed, 5 \in crossed)
  BY <1>3, <1>4, CountOdd
<1>8. /\ InTriangle(a, b, c, p) <=> SameSign(r, s, t)
      /\ InTriangle(a, c, d, p) <=> SameSign(m, x, y)
  BY DEF InTriangle, SameSign
<1>. HIDE DEF A, B, C, D, r, s, t, m, x, y
<1>. QED BY <1>4, <1>5, <1>6, <1>7, <1>8 DEF Odd4

\* What Append does to a sequence.
LEMMA AppendFacts ==
  ASSUME NEW S, NEW s \in Seq(S), NEW e \in S
  PROVE  /\ Len(Append(s, e)) = Len(s) + 1
         /\ \A i \in 1..Len(s) : Append(s, e)[i] = s[i]
         /\ Append(s, e)[Len(s) + 1] = e
<1>1. Len(Append(s, e)) = Len(s) + 1
  OBVIOUS
<1>2. \A i \in 1..Len(s) : Append(s, e)[i] = s[i]
  OBVIOUS
<1>3. Append(s, e)[Len(s) + 1] = e
  OBVIOUS
<1>. QED BY <1>1, <1>2, <1>3

\* A list of three, closed.
LEMMA AppendThree ==
  ASSUME NEW S, NEW s \in Seq(S), Len(s) = 3, NEW e \in S
  PROVE  /\ Len(Append(s, e)) = 4
         /\ Append(s, e)[1] = s[1] /\ Append(s, e)[2] = s[2]
         /\ Append(s, e)[3] = s[3] /\ Append(s, e)[4] = e
<1>. DEFINE r == Append(s, e)
<1>1. /\ Len(r) = Len(s) + 1
      /\ \A i \in 1..Len(s) : r[i] = s[i]
      /\ r[Len(s) + 1] = e
  BY AppendFacts
<1>. HIDE DEF r
<1>2. Len(r) = 4 /\ (\A i \in 1..3 : r[i] = s[i]) /\ r[4] = e
  BY <1>1
<1>. QED BY <1>2 DEF r

\* A list of three points is a sequence.
LEMMA ThreePoints ==
  ASSUME NEW coords \in [1..3 -> Points]
  PROVE  /\ coords \in Seq(Points) /\ Len(coords) = 3 /\ Last(coords) = coords[3]
         /\ coords[1] \in Points /\ coords[2] \in Points /\ coords[3] \in Points
<1>1. coords[1] \in Points /\ coords[2] \in Points /\ coords[3] \in Points
  OBVIOUS
<1>2. coords \in Seq(Points)
  BY 3 \in Nat, SeqDef
<1>3. Len(coords) = 3
  OBVIOUS
<1>4. Last(coords) = coords[3]
  BY <1>3 DEF Last
<1>. QED BY <1>1, <1>2, <1>3, <1>4

\* A list of four, closed.
LEMMA AppendFour ==
  ASSUME NEW S, NEW s \in Seq(S), Len(s) = 4, NEW e \in S
  PROVE  /\ Len(Append(s, e)) = 5
         /\ Append(s, e)[1] = s[1] /\ Append(s, e)[2] = s[2] /\ Append(s, e)[3] = s[3]
         /\ Append(s, e)[4] = s[4] /\ Append(s, e)[5] = e
<1>. DEFINE r == Append(s, e)
<1>1. /\ Len(r) = Len(s) + 1
      /\ \A i \in 1..Len(s) : r[i] = s[i]
      /\ r[Len(s) + 1] = e
  BY AppendFacts
<1>. HIDE DEF r
<1>2. Len(r) = 5 /\ (\A i \in 1..4 : r[i] = s[i]) /\ r[5] = e
  BY <1>1
<1>. QED BY <1>2 DEF r

\* A list of four points is a sequence.
LEMMA FourPoints ==
  ASSUME NEW coords \in [1..4 -> Points]
  PROVE  /\ coords \in Seq(Points) /\ Len(coords) = 4 /\ Last(coords) = coords[4]
         /\ coords[1] \in Points /\ coords[2] \in Points /\ coords[3] \in Points /\ coords[4] \in Points
<1>1. coords[1] \in Points /\ coords[2] \in Points /\ coords[3] \in Points /\ coords[4] \in Points
  OBVIOUS
<1>2. coords \in Seq(Points)
  BY 4 \in Nat, SeqDef
<1>3. Len(coords) = 4
  OBVIOUS
<1>4. Last(coords) = coords[4]
  BY <1>3 DEF Last
<1>. QED BY <1>1, <1>2, <1>3, <1>4

\* What a fence of three and of four corners is, point by point.
LEMMA FencedThree ==
  ASSUME NEW a, NEW b, NEW c
  PROVE  FencedBy(<<a, b, c>>) <=>
           /\ Len(fence) = 4
           /\ fence[1] = a /\ fence[2] = b /\ fence[3] = c /\ fence[4] = a
<1>. DEFINE k == <<a, b, c>>
<1>1. Len(k) = 3 /\ k[1] = a /\ k[2] = b /\ k[3] = c
  OBVIOUS
<1>. HIDE DEF k
<1>2. FencedBy(k) <=> /\ Len(fence) = 4
                      /\ fence[1] = a /\ fence[2] = b /\ fence[3] = c /\ fence[4] = a
  BY <1>1 DEF FencedBy
<1>. QED BY <1>2 DEF k

\* The same for four corners.
LEMMA FencedFour ==
  ASSUME NEW a, NEW b, NEW c, NEW d
  PROVE  FencedBy(<<a, b, c, d>>) <=>
           /\ Len(fence) = 5
           /\ fence[1] = a /\ fence[2] = b /\ fence[3] = c /\ fence[4] = d /\ fence[5] = a
<1>. DEFINE k == <<a, b, c, d>>
<1>1. Len(k) = 4 /\ k[1] = a /\ k[2] = b /\ k[3] = c /\ k[4] = d
  OBVIOUS
<1>. HIDE DEF k
<1>2. FencedBy(k) <=>
        /\ Len(fence) = 5
        /\ fence[1] = a /\ fence[2] = b /\ fence[3] = c /\ fence[4] = d /\ fence[5] = a
  BY <1>1 DEF FencedBy
<1>. QED BY <1>2 DEF k

\* What load_from_coords makes of a list of corners: a closed triangle, a closed
\* quadrilateral whose diagonal is inside, or three points that are no boundary.
LEMMA LoadedShapes ==
  ASSUME NEW coords \in CoordLists, fence = Closed(coords)
  PROVE  \/ ~IsDefined
         \/ \E a, b, c \in Points : FencedBy(<<a, b, c>>)
         \/ \E a, b, c, d \in Points :
              FencedBy(<<a, b, c, d>>) /\ Side(a, c, b) * Side(a, c, d) < 0
<1>1. CASE coords \in Triangles
  <2>0. coords \in [1..3 -> Points]
    BY <1>1 DEF Triangles
  <2>1. /\ Len(coords) = 3
        /\ coords[1] \in Points /\ coords[2] \in Points /\ coords[3] \in Points
    BY <2>0, ThreePoints
  <2>2. CASE coords[1] = Last(coords)
    <3>1. fence = coords
      BY <2>2 DEF Closed
    <3>2. Len(fence) = 3
      BY <2>1, <3>1
    <3>. QED BY <3>2 DEF IsDefined
  <2>3. CASE coords[1] # Last(coords)
    <3>1. fence = Append(coords, coords[1])
      BY <2>3 DEF Closed
    <3>2. /\ Len(fence) = 4 /\ fence[1] = coords[1] /\ fence[2] = coords[2]
          /\ fence[3] = coords[3] /\ fence[4] = coords[1]
      BY <2>0, <2>1, <3>1, ThreePoints, AppendThree
    <3>3. FencedBy(<<coords[1], coords[2], coords[3]>>)
      BY <3>2, FencedThree
    <3>. QED BY <2>1, <3>3
  <2>. QED BY <2>2, <2>3
<1>2. CASE coords \in Quadrilaterals
  <2>0. /\ coords \in [1..4 -> Points]
        /\ Side(coords[1], coords[3], coords[2]) * Side(coords[1], coords[3], coords[4]) < 0
    BY <1>2 DEF Quadrilaterals
  <2>1. /\ Len(coords) = 4 /\ Last(coords) = coords[4]
        /\ coords[1] \in Points /\ coords[2] \in Points /\ coords[3] \in Points
        /\ coords[4] \in Points
    BY <2>0, FourPoints
  <2>2. coords[1] # Last(coords)
    <3>1. SUFFICES ASSUME coords[4] = coords[1]
                   PROVE  FALSE
      BY <2>1
    <3>2. /\ coords[1] \in Int \X Int /\ coords[2] \in Int \X Int /\ coords[3] \in Int \X Int
      BY <2>1, PointsArePairs
    <3>3. Side(coords[1], coords[3], coords[1]) = 0
      BY <3>2 DEF Side
    <3>4. Side(coords[1], coords[3], coords[2]) \in Int
      BY <3>2 DEF Side
    <3>5. Side(coords[1], coords[3], coords[2]) * 0 < 0
      BY <2>0, <3>1, <3>3
    <3>. QED BY <3>4, <3>5
  <2>3. fence = Append(coords, coords[1])
    BY <2>2 DEF Closed
  <2>4. /\ Len(fence) = 5 /\ fence[1] = coords[1] /\ fence[2] = coords[2]
        /\ fence[3] = coords[3] /\ fence[4] = coords[4] /\ fence[5] = coords[1]
    BY <2>0, <2>1, <2>3, FourPoints, AppendFour
  <2>5. FencedBy(<<coords[1], coords[2], coords[3], coords[4]>>)
    BY <2>4, FencedFour
  <2>. QED BY <2>0, <2>1, <2>5
<1>3. ASSUME NEW a, NEW b, coords = <<a, b, a>>
      PROVE  ~IsDefined
  <2>1. Len(coords) = 3 /\ coords[1] = coords[3]
    BY <1>3
  <2>2. coords[1] = Last(coords)
    BY <2>1 DEF Last
  <2>3. fence = coords
    BY <2>2 DEF Closed
  <2>4. Len(fence) = 3
    BY <2>1, <2>3
  <2>. QED BY <2>4 DEF IsDefined
<1>4. CASE coords \in LinesToAndFro
  <2>1. \E a, b : coords = <<a, b, a>>
    BY <1>4 DEF LinesToAndFro
  <2>2. ~IsDefined
    BY <2>1, <1>3
  <2>. QED BY <2>2
<1>. QED BY <1>1, <1>2, <1>4 DEF CoordLists

\* Loading and checking keep the invariant.
LEMMA FenceStepKeeps ==
  ASSUME FenceIInv, [FenceNext]_fenceVars
  PROVE  FenceIInv'
<1>1. CASE FenceLoads
  <2>1. PICK coords \in CoordLists : fence' = Closed(coords)
    BY <1>1 DEF FenceLoads
  <2>2. fenceAt' = <<>> /\ fenceAnswer' = fenceAnswer /\ breach' = breach
    BY <1>1 DEF FenceLoads
  <2>3. fence' \in {Append(c, c[1]) : c \in CoordLists} \cup CoordLists
    BY <2>1 DEF Closed
  <2>. QED BY <2>1, <2>2, <2>3 DEF FenceIInv, FenceTypeOK
<1>2. CASE CheckAndReport
  <2>1. PICK p \in Points :
          fenceAt' = p /\ fenceAnswer' = IsInside(p) /\ breach' = ~IsInside(p) /\ fence' = fence
    BY <1>2 DEF CheckAndReport
  <2>2. IsInside(p) \in BOOLEAN
    BY DEF IsInside
  <2>3. FenceTypeOK'
    BY <2>1, <2>2 DEF FenceIInv, FenceTypeOK
  <2>4. IsInside(fenceAt)' = IsInside(p)
    BY <2>1 DEF IsInside, IsDefined, RayCast
  <2>5. breach' = ~fenceAnswer'
    BY <2>1
  <2>. QED BY <2>1, <2>3, <2>4, <2>5 DEF FenceIInv
<1>3. CASE UNCHANGED fenceVars
  BY <1>3 DEF fenceVars, FenceIInv, FenceTypeOK, IsInside, IsDefined, RayCast
<1>. QED BY <1>1, <1>2, <1>3 DEF FenceNext

(***************************************************************************)
(* The invariant holds for any size of the grid.                           *)
(***************************************************************************)
THEOREM FenceInvariant == FenceSpec => []FenceIInv
<1>1. FenceInit => FenceIInv
  BY DEF FenceInit, FenceIInv, FenceTypeOK
<1>. QED BY <1>1, FenceStepKeeps, PTL DEF FenceSpec

(***************************************************************************)
(* For any triangle and any quadrilateral with a diagonal inside, on a     *)
(* grid of any size, a check sets the breach exactly if the position is    *)
(* outside (navigation/boundary.py).                                       *)
(***************************************************************************)
THEOREM BreachTheorem == FenceSpec => []BreachIsTrue
<1>1. FenceIInv => BreachIsTrue
  <2>. SUFFICES ASSUME FenceIInv, fenceAt # <<>>
                PROVE  /\ breach = ~fenceAnswer
                       /\ ~IsDefined => fenceAnswer
                       /\ IsDefined /\ ~OnFence(fenceAt) => fenceAnswer = StrictlyInside(fenceAt)
    BY DEF BreachIsTrue
  <2>1. fenceAnswer = IsInside(fenceAt) /\ breach = ~fenceAnswer /\ fenceAnswer \in BOOLEAN
    BY DEF FenceIInv, FenceTypeOK
  <2>2. fenceAt \in Int \X Int
    BY PointsArePairs DEF FenceIInv, FenceTypeOK
  <2>3. ASSUME IsDefined, ~OnFence(fenceAt)
        PROVE  fenceAnswer <=> StrictlyInside(fenceAt)
    <3>1. PICK coords \in CoordLists : fence = Closed(coords)
      <4>1. fence # <<>>
        BY <2>3 DEF IsDefined
      <4>. QED BY <4>1 DEF FenceIInv
    <3>2. CASE \E a, b, c \in Points : FencedBy(<<a, b, c>>)
      <4>1. PICK a \in Points, b \in Points, c \in Points : FencedBy(<<a, b, c>>)
        BY <3>2
      <4>2. a \in Int \X Int /\ b \in Int \X Int /\ c \in Int \X Int
        BY PointsArePairs
      <4>3. Len(fence) = 4 /\ fence[1] = a /\ fence[2] = b /\ fence[3] = c
        BY <4>1, FencedThree
      <4>4. RayCast(fenceAt) <=> InTriangle(a, b, c, fenceAt)
        BY <2>2, <2>3, <4>1, <4>2, TriangleRay
      <4>. QED BY <2>1, <2>3, <4>3, <4>4 DEF IsInside, StrictlyInside
    <3>3. CASE \E a, b, c, d \in Points :
                 FencedBy(<<a, b, c, d>>) /\ Side(a, c, b) * Side(a, c, d) < 0
      <4>1. PICK a \in Points, b \in Points, c \in Points, d \in Points :
              FencedBy(<<a, b, c, d>>) /\ Side(a, c, b) * Side(a, c, d) < 0
        BY <3>3
      <4>2. a \in Int \X Int /\ b \in Int \X Int /\ c \in Int \X Int /\ d \in Int \X Int
        BY PointsArePairs
      <4>3. Len(fence) = 5 /\ fence[1] = a /\ fence[2] = b /\ fence[3] = c /\ fence[4] = d
        BY <4>1, FencedFour
      <4>4. RayCast(fenceAt) <=>
              InTriangle(a, b, c, fenceAt) \/ InTriangle(a, c, d, fenceAt) \/ OnEdge(a, c, fenceAt)
        BY <2>2, <2>3, <4>1, <4>2, QuadrilateralRay
      <4>5. Len(fence) # 4
        BY <4>3
      <4>. QED BY <2>1, <2>3, <4>3, <4>4, <4>5 DEF IsInside, StrictlyInside
    <3>. QED BY <2>3, <3>1, <3>2, <3>3, LoadedShapes
  <2>4. StrictlyInside(fenceAt) \in BOOLEAN
    BY DEF StrictlyInside
  <2>5. ~IsDefined => fenceAnswer
    BY <2>1 DEF IsInside
  <2>. QED BY <2>1, <2>3, <2>4, <2>5
<1>. QED BY <1>1, FenceInvariant, PTL
=============================================================================
