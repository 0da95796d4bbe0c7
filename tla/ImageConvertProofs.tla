------------------------- MODULE ImageConvertProofs -------------------------
(***************************************************************************)
(* What the pixel loops of src/client/image_convert.c compute, for images  *)
(* of every size and every content: the motion detection counts the        *)
(* changed pixels, the RGB conversion stays close to the formulas, and the *)
(* YUV420P conversion fills the three planes.                              *)
(***************************************************************************)
EXTENDS ImageConvert, FunctionTheorems, FiniteSetTheorems,
        WellFoundedInduction, TLAPS

----------------------------------------------------------------------------
(* Induction, by the least counterexample *)

\* A set of numbers that is not empty has a least element.
LEMMA LeastNumber ==
  ASSUME NEW T \in SUBSET Nat, T # {}
  PROVE  \E x \in T : \A y \in T : x <= y
  <1> DEFINE R == OpToRel(<, Nat)
  <1>1. IsWellFoundedOn(R, Nat)
    BY NatLessThanWellFounded
  <1>2. PICK x \in T : \A y \in T : ~(<<y, x>> \in R)
    BY <1>1, WFMin
  <1>3. \A y \in T : y \in Nat /\ x \in Nat /\ (<<y, x>> \in R <=> y < x)
    BY DEF OpToRel
  <1> HIDE DEF R
  <1>4. \A y \in T : x <= y
    <2> TAKE y \in T
    <2>1. ~(y < x)
      BY <1>2, <1>3, Zenon
    <2> QED
      BY <1>3, <2>1
  <1> QED
    BY <1>4

\* Two pointers that start at the same place and move alike from the same
\* place are always at the same place.
LEMMA SameSteps ==
  ASSUME NEW f, NEW g, f[0] = g[0],
         \A k \in Nat : f[k] = g[k] => f[k + 1] = g[k + 1]
  PROVE  \A k \in Nat : f[k] = g[k]
  <1> DEFINE T == {k \in Nat : f[k] # g[k]}
  <1> SUFFICES ASSUME T # {} PROVE FALSE
    OBVIOUS
  <1>1. PICK k \in T : \A j \in T : k <= j
    BY LeastNumber
  <1>2. k \in Nat /\ f[k] # g[k]
    OBVIOUS
  <1>3. k # 0
    BY <1>2
  <1>4. k - 1 \in Nat /\ (k - 1) + 1 = k /\ ~(k <= k - 1)
    BY <1>2, <1>3
  <1>5. f[k - 1] = g[k - 1]
    BY <1>1, <1>4
  <1>6. f[(k - 1) + 1] = g[(k - 1) + 1]
    BY <1>4, <1>5
  <1> QED
    BY <1>2, <1>4, <1>6

----------------------------------------------------------------------------
(* The pointers of the loops over single pixels *)

\* Width and Height as twice something
LEMMA Halves ==
  /\ HalfWidth \in Nat \ {0} /\ Width = 2 * HalfWidth
  /\ Height \div 2 \in Nat \ {0} /\ Height = 2 * (Height \div 2)
  BY SizeAssumption DEF HalfWidth

\* Arithmetic that the provers need pointed out
LEMMA Double ==
  ASSUME NEW a \in Int, NEW b \in Int, NEW q \in Int, a = 2 * b
  PROVE  a * q = 2 * (b * q)
  OBVIOUS

\* Lines have an even length, so that the parity of a column is that of the
\* pixel.
LEMMA ColumnParity ==
  ASSUME NEW k \in Nat
  PROVE  (k % Width) % 2 = k % 2
  <1>1. /\ k % Width \in Nat /\ k \div Width \in Nat
        /\ k = Width * (k \div Width) + (k % Width)
    BY SizeAssumption
  <1>2. HalfWidth * (k \div Width) \in Int
    BY <1>1, Halves
  <1>3. Width * (k \div Width) = 2 * (HalfWidth * (k \div Width))
    <2>1. Width \in Int /\ HalfWidth \in Int /\ k \div Width \in Int
      BY <1>1, Halves
    <2> QED
      BY <2>1, Halves, Double, Zenon
  <1> QED
    BY <1>1, <1>2, <1>3

\* py is at the luma byte of the pixel.
LEMMA PyValue == \A k \in Nat : py[k] = 2 * k
  <1> DEFINE f == [k \in Nat |-> 2 * k]
             d == [k \in Nat |-> 2]
  <1>1. f = [k \in Nat |-> IF k = 0 THEN 0 ELSE f[k - 1] + 2]
    OBVIOUS
  <1>2. py = [k \in Nat |-> IF k = 0 THEN 0 ELSE py[k - 1] + 2]
    BY <1>1, Zenon DEF py
  <1>3. py[0] = f[0] /\ \A k \in Nat : py[k + 1] = py[k] + d[k] /\ f[k + 1] = f[k] + d[k]
    BY <1>2
  <1>4. \A k \in Nat : py[k] = f[k]
    <2> HIDE DEF f, d
    <2>1. \A k \in Nat : py[k] = f[k] => py[k + 1] = f[k + 1]
      BY <1>3
    <2> QED
      BY <1>3, <2>1, SameSteps
  <1> QED
    BY <1>4

\* index is at the macro pixel of the pixel.
LEMMA IndexValue == \A k \in Nat : index[k] = 4 * (k \div 2)
  <1> DEFINE f == [k \in Nat |-> 4 * (k \div 2)]
             d == [k \in Nat |-> IF (k % Width) % 2 = 1 THEN 4 ELSE 0]
  <1>1. f = [k \in Nat |-> IF k = 0 THEN 0
              ELSE f[k - 1] + (IF ((k - 1) % Width) % 2 = 1 THEN 4 ELSE 0)]
    <2>1. ASSUME NEW k \in Nat \ {0}
          PROVE  f[k] = f[k - 1] + (IF ((k - 1) % Width) % 2 = 1 THEN 4 ELSE 0)
      <3>1. ((k - 1) % Width) % 2 = (k - 1) % 2
        BY ColumnParity
      <3> QED
        BY <3>1
    <2>2. f[0] = 0
      OBVIOUS
    <2> QED
      BY <2>1, <2>2
  <1>2. index = [k \in Nat |-> IF k = 0 THEN 0
              ELSE index[k - 1] + (IF ((k - 1) % Width) % 2 = 1 THEN 4 ELSE 0)]
    BY <1>1, Zenon DEF index
  <1>3. index[0] = f[0]
    BY <1>2
  <1>4. \A k \in Nat : index[k + 1] = index[k] + d[k] /\ f[k + 1] = f[k] + d[k]
    <2> TAKE k \in Nat
    <2>1. k + 1 \in Nat /\ k + 1 # 0 /\ (k + 1) - 1 = k
      OBVIOUS
    <2>2. index[k + 1] = index[k] + d[k]
      BY <1>2, <2>1
    <2>3. f[k + 1] = f[k] + d[k]
      BY ColumnParity
    <2> QED
      BY <2>2, <2>3
  <1>5. \A k \in Nat : index[k] = f[k]
    <2> HIDE DEF f, d
    <2>1. \A k \in Nat : index[k] = f[k] => index[k + 1] = f[k + 1]
      BY <1>4
    <2> QED
      BY <1>3, <2>1, SameSteps
  <1> QED
    BY <1>5

\* Multiplication by a length keeps the order.
LEMMA Grows ==
  ASSUME NEW w \in Nat, NEW a \in Int, NEW b \in Int, a <= b
  PROVE  w * a <= w * b /\ w * a \in Int /\ w * b \in Int
  OBVIOUS

\* Where line l, column c of an image of w columns is, and back
LEMMA Position ==
  ASSUME NEW w \in Nat \ {0}, NEW h \in Nat, NEW l \in 0..h - 1, NEW c \in 0..w - 1
  PROVE  /\ l * w + c \in 0..w * h - 1
         /\ (l * w + c) \div w = l
         /\ (l * w + c) % w = c
  <1>1. w * (l + 1) <= w * h /\ w * l \in Nat /\ w * h \in Nat
    BY Grows
  <1>2. w * (l + 1) = w * l + w /\ l * w = w * l
    OBVIOUS
  <1>3. (w * l + c) % w = c /\ (w * l + c) \div w = l
    OBVIOUS
  <1> QED
    BY <1>1, <1>2, <1>3

\* Every position is in some line and column.
LEMMA Place ==
  ASSUME NEW w \in Nat \ {0}, NEW h \in Nat, NEW k \in 0..w * h - 1
  PROVE  /\ k \div w \in 0..h - 1 /\ k % w \in 0..w - 1
         /\ k = (k \div w) * w + (k % w)
  <1>0. w * h \in Nat
    BY Grows
  <1>1. k \in Nat /\ k < w * h
    BY <1>0
  <1>2. /\ k \div w \in Nat /\ k % w \in 0..w - 1
        /\ k = w * (k \div w) + (k % w)
    BY <1>1
  <1>3. k \div w < h
    <2> SUFFICES ASSUME h <= k \div w PROVE FALSE
      BY <1>2
    <2>1. w * h <= w * (k \div w) /\ w * (k \div w) \in Int
      BY <1>2, Grows
    <2> QED
      BY <1>0, <1>1, <1>2, <2>1
  <1>4. w * (k \div w) = (k \div w) * w
    BY <1>2
  <1> QED
    BY <1>2, <1>3, <1>4

\* The pointers of pixel k are at the bytes of its line and column.
LEMMA PixelBytes ==
  ASSUME NEW l \in 0..Height - 1, NEW c \in 0..Width - 1
  PROVE  LET k == l * Width + c IN
         /\ k \in Pixels
         /\ py[k] = LumaAt(l, c) /\ RefY(k) = LumaAt(l, c)
         /\ pu(k) = BlueAt(l, c) /\ pv(k) = RedAt(l, c)
  <1> DEFINE k == l * Width + c
             p == l * HalfWidth
  <1>1. k \in Pixels /\ k \in Nat /\ k % Width = c
    BY SizeAssumption, Position DEF Pixels
  <1>2. p \in Int /\ l * Width = 2 * p
    BY Halves, Double
  <1> HIDE DEF p
  <1>3. k \div 2 = p + (c \div 2) /\ k % 2 = c % 2
    BY <1>2, Halves
  <1>4. py[k] = 2 * k /\ index[k] = 4 * (k \div 2)
    BY <1>1, PyValue, IndexValue
  <1>5. LumaAt(l, c) = 2 * k
    BY <1>1, Halves DEF LumaAt
  <1>6. BlueAt(l, c) = 4 * p + 4 * (c \div 2) + 1 /\ RedAt(l, c) = BlueAt(l, c) + 2
    BY <1>2, Halves DEF BlueAt, RedAt
  <1>7. RefY(k) = 2 * k
    BY <1>1, <1>2, <1>3, <1>4, Halves DEF RefY
  <1>8. pu(k) = BlueAt(l, c) /\ pv(k) = RedAt(l, c)
    BY <1>2, <1>3, <1>4, <1>6, Halves DEF pu, pv
  <1> QED
    BY <1>1, <1>4, <1>5, <1>7, <1>8

\* The bytes of a pixel are bytes of the image.
LEMMA OffsetsOfPixel ==
  ASSUME NEW l \in 0..Height - 1, NEW c \in 0..Width - 1
  PROVE  /\ LumaAt(l, c) \in Offsets /\ BlueAt(l, c) \in Offsets
         /\ RedAt(l, c) \in Offsets
  <1> DEFINE k == l * Width + c
             e == l * Width + 2 * (c \div 2)
             n == Width * Height
  <1>1. k \in 0..n - 1
    BY SizeAssumption, Position
  <1>2. 2 * (c \div 2) \in 0..Width - 1 /\ 2 * (c \div 2) + 1 \in 0..Width - 1
    BY Halves
  <1>3. e \in 0..n - 1 /\ l * Width + (2 * (c \div 2) + 1) \in 0..n - 1
    BY <1>2, SizeAssumption, Position
  <1>4. n \in Int /\ l * Width \in Int
    BY SizeAssumption, Grows
  <1>5. l * Width + (2 * (c \div 2) + 1) = e + 1
    BY <1>2, <1>4
  <1>6. 2 * Width * Height = 2 * n
    BY SizeAssumption
  <1> HIDE DEF n, e, k
  <1>7. 2 * k \in 0..2 * n - 1 /\ 2 * e + 1 \in 0..2 * n - 1 /\ 2 * e + 1 + 2 \in 0..2 * n - 1
    BY <1>1, <1>3, <1>4, <1>5
  <1>8. LumaAt(l, c) = 2 * k
    BY <1>1 DEF LumaAt, k
  <1>9. BlueAt(l, c) = 2 * e + 1 /\ RedAt(l, c) = 2 * e + 1 + 2
    BY <1>3 DEF BlueAt, RedAt, e
  <1> QED
    BY <1>6, <1>7, <1>8, <1>9 DEF Offsets

----------------------------------------------------------------------------
(* YUYV422_motion_detect *)

\* The pixels that the loop counts are the changed pixels of the image, each
\* of them once.
LEMMA CountsChanged ==
  ASSUME NEW ref, NEW yuyv
  PROVE  LET counted == {k \in Pixels : PixelChanged(ref, yuyv, k)} IN
         /\ IsFiniteSet(counted)
         /\ Cardinality(counted) = Cardinality(ChangedPixels(ref, yuyv))
  <1> DEFINE C == {k \in Pixels : PixelChanged(ref, yuyv, k)}
             D == ChangedPixels(ref, yuyv)
             At(x) == x[1] * Width + x[2]
             f == [x \in D |-> At(x)]
  <1>1. Width * Height \in Nat
    BY SizeAssumption, Grows
  <1>2. IsFiniteSet(C)
    <2>1. IsFiniteSet(Pixels)
      BY <1>1, FS_Interval DEF Pixels
    <2> QED
      BY <2>1, FS_Subset
  <1>3. ASSUME NEW l \in 0..Height - 1, NEW c \in 0..Width - 1
        PROVE  /\ l * Width + c \in Pixels
               /\ PixelChanged(ref, yuyv, l * Width + c) <=> <<l, c>> \in D
    <2> DEFINE k == l * Width + c
    <2>1. /\ k \in Pixels
          /\ py[k] = LumaAt(l, c) /\ RefY(k) = LumaAt(l, c)
          /\ pu(k) = BlueAt(l, c) /\ pv(k) = RedAt(l, c)
      BY PixelBytes
    <2> HIDE DEF k
    <2>2. PixelChanged(ref, yuyv, k) <=>
            \E d \in {LumaAt(l, c), BlueAt(l, c), RedAt(l, c)} :
              Abs(ref[d] - yuyv[d]) >= DiffDeviation
      BY <2>1 DEF PixelChanged
    <2>3. <<l, c>> \in D <=>
            \E d \in {LumaAt(l, c), BlueAt(l, c), RedAt(l, c)} :
              Abs(ref[d] - yuyv[d]) >= DiffDeviation
      BY DEF ChangedPixels
    <2>4. k = l * Width + c
      BY DEF k
    <2> QED
      BY <2>1, <2>2, <2>3, <2>4
  <1>4. ASSUME NEW x \in D
        PROVE  /\ x = <<x[1], x[2]>> /\ x[1] \in 0..Height - 1 /\ x[2] \in 0..Width - 1
               /\ At(x) \in C /\ At(x) \div Width = x[1] /\ At(x) % Width = x[2]
    <2>1. x = <<x[1], x[2]>> /\ x[1] \in 0..Height - 1 /\ x[2] \in 0..Width - 1
      BY DEF ChangedPixels
    <2>2. At(x) \div Width = x[1] /\ At(x) % Width = x[2]
      BY <2>1, SizeAssumption, Position
    <2> QED
      BY <2>1, <2>2, <1>3
  <1>5. ASSUME NEW k \in C PROVE \E x \in D : f[x] = k
    <2>1. /\ k \div Width \in 0..Height - 1 /\ k % Width \in 0..Width - 1
          /\ k = (k \div Width) * Width + (k % Width)
      BY SizeAssumption, Place DEF Pixels
    <2>2. <<k \div Width, k % Width>> \in D
      BY <1>3, <2>1
    <2>3. At(<<k \div Width, k % Width>>) = k
      BY <2>1
    <2> QED
      BY <2>2, <2>3
  <1> HIDE DEF D
  <1>6. f \in [D -> C]
    BY <1>4
  <1>7. \A x, y \in D : f[x] = f[y] => x = y
    <2> SUFFICES ASSUME NEW x \in D, NEW y \in D, At(x) = At(y) PROVE x = y
      OBVIOUS
    <2> HIDE DEF At
    <2> QED
      BY <1>4
  <1>8. f \in Bijection(D, C)
    <2> HIDE DEF f, C
    <2> QED
      BY <1>5, <1>6, <1>7, Fun_IsBij
  <1>9. ExistsBijection(C, D)
    BY <1>8, Fun_ExistsBijSymmetric DEF ExistsBijection
  <1> HIDE DEF C
  <1> QED
    BY <1>2, <1>9, FS_Bijection DEF C, D

\* The changed pixels among the first k, and how one more pixel adds to them
LEMMA FirstPixels ==
  ASSUME NEW ref, NEW yuyv, NEW k \in Nat
  PROVE  LET Upto(n) == {m \in 0..n - 1 : PixelChanged(ref, yuyv, m)} IN
         /\ Cardinality(Upto(0)) = 0
         /\ Cardinality(Upto(k)) \in Nat
         /\ Cardinality(Upto(k + 1)) =
              Cardinality(Upto(k)) + (IF PixelChanged(ref, yuyv, k) THEN 1 ELSE 0)
  <1> DEFINE Upto(n) == {m \in 0..n - 1 : PixelChanged(ref, yuyv, m)}
             S == Upto(k)
  <1>1. Upto(0) = {}
    OBVIOUS
  <1>2. IsFiniteSet(S)
    <2>1. IsFiniteSet(0..k - 1)
      BY FS_Interval
    <2> QED
      BY <2>1, FS_Subset
  <1>3. k \notin S /\ Upto(k + 1) = IF PixelChanged(ref, yuyv, k) THEN S \cup {k} ELSE S
    <2>1. 0..(k + 1) - 1 = (0..k - 1) \cup {k} /\ k \notin 0..k - 1
      OBVIOUS
    <2> QED
      BY <2>1
  <1> HIDE DEF S
  <1>4. Cardinality(S) \in Nat /\ Cardinality(S \cup {k}) = Cardinality(S) + 1
    BY <1>2, <1>3, FS_CardinalityType, FS_AddElement
  <1>5. Cardinality(Upto(0)) = 0
    BY <1>1, FS_EmptySet
  <1>6. Cardinality(Upto(k + 1)) =
          Cardinality(S) + (IF PixelChanged(ref, yuyv, k) THEN 1 ELSE 0)
    BY <1>3, <1>4
  <1> QED
    BY <1>4, <1>5, <1>6 DEF S

\* The loop that is left early ends with the number of changed pixels, or with
\* the first number above diff_pixels.
LEMMA CounterValue ==
  ASSUME NEW ref, NEW yuyv
  PROVE  LET n == Cardinality({k \in Pixels : PixelChanged(ref, yuyv, k)})
         IN Counter(ref, yuyv) = IF n > DiffPixels THEN DiffPixels + 1 ELSE n
  <1> DEFINE Upto(k) == {m \in 0..k - 1 : PixelChanged(ref, yuyv, m)}
             card == [k \in Nat |-> Cardinality(Upto(k))]
             f == [k \in Nat |-> IF card[k] > DiffPixels THEN DiffPixels + 1
                                  ELSE card[k]]
             one(k) == IF PixelChanged(ref, yuyv, k) THEN 1 ELSE 0
             Loop(g) == [k \in Nat |->
                           IF k = 0 THEN 0
                           ELSE Iteration(ref, yuyv, k - 1)[g[k - 1]]]
             counter == CHOOSE g : g = Loop(g)
  <1>1. card[0] = 0 /\ \A k \in Nat : card[k] \in Nat /\ card[k + 1] = card[k] + one(k)
    <2>1. ASSUME NEW k \in Nat
          PROVE  /\ Cardinality(Upto(0)) = 0 /\ Cardinality(Upto(k)) \in Nat
                 /\ Cardinality(Upto(k + 1)) = Cardinality(Upto(k)) + one(k)
      BY FirstPixels
    <2> HIDE DEF Upto, one
    <2> QED
      BY <2>1
  <1>2. \A k \in Nat : one(k) \in {0, 1}
    OBVIOUS
  <1>3. f = Loop(f)
    <2>1. f[0] = 0
      BY <1>1, DiffAssumption
    <2>2. ASSUME NEW k \in Nat \ {0}
          PROVE  f[k] = IF f[k - 1] <= DiffPixels
                        THEN f[k - 1] + one(k - 1) ELSE f[k - 1]
      <3>1. k - 1 \in Nat /\ (k - 1) + 1 = k
        OBVIOUS
      <3>2. card[k - 1] \in Nat /\ card[k] = card[k - 1] + one(k - 1)
            /\ one(k - 1) \in {0, 1}
        BY <1>1, <1>2, <3>1
      <3> HIDE DEF card, one
      <3> QED
        BY <3>1, <3>2, DiffAssumption
    <2>3. ASSUME NEW k \in Nat \ {0}
          PROVE  f[k] = Iteration(ref, yuyv, k - 1)[f[k - 1]]
      <3>1. f[k - 1] \in Nat
        <4>1. k - 1 \in Nat
          OBVIOUS
        <4> HIDE DEF card
        <4>2. card[k - 1] \in Nat
          BY <1>1, <4>1
        <4> QED
          BY <4>1, <4>2, DiffAssumption
      <3> HIDE DEF f
      <3> QED
        BY <2>2, <3>1 DEF Iteration
    <2> HIDE DEF card
    <2> QED
      BY <2>1, <2>3
  <1>4. counter = Loop(counter)
    <2> HIDE DEF f, Loop
    <2> QED
      BY <1>3, Zenon
  <1>5. Counter(ref, yuyv) = counter[Width * Height]
    BY Zenon DEF Counter
  <1>6. \A k \in Nat : counter[k] = f[k]
    <2> HIDE DEF counter, f, card
    <2>1. counter[0] = f[0]
      BY <1>3, <1>4
    <2>2. ASSUME NEW k \in Nat, counter[k] = f[k]
          PROVE  counter[k + 1] = f[k + 1]
      <3>1. k + 1 \in Nat /\ k + 1 # 0 /\ (k + 1) - 1 = k
        OBVIOUS
      <3>2. Loop(counter)[k + 1] = Loop(f)[k + 1]
        BY <2>2, <3>1
      <3> QED
        BY <1>3, <1>4, <3>2
    <2> QED
      BY <2>1, <2>2, SameSteps
  <1>7. Width * Height \in Nat /\ Upto(Width * Height)
          = {k \in Pixels : PixelChanged(ref, yuyv, k)}
    BY SizeAssumption, Grows DEF Pixels
  <1> QED
    BY <1>5, <1>6, <1>7

\* The motion detection reports motion exactly if at least diff_pixels pixels
\* have changed, although it stops counting early.
LEMMA DetectsChange ==
  ASSUME NEW ref, NEW yuyv
  PROVE  YUYV422_motion_detect(ref, yuyv) <=>
           Cardinality(ChangedPixels(ref, yuyv)) >= DiffPixels
  <1> DEFINE n == Cardinality({k \in Pixels : PixelChanged(ref, yuyv, k)})
  <1>1. n \in Nat /\ n = Cardinality(ChangedPixels(ref, yuyv))
    BY CountsChanged, FS_CardinalityType
  <1>2. Counter(ref, yuyv) = IF n > DiffPixels THEN DiffPixels + 1 ELSE n
    BY CounterValue
  <1> HIDE DEF n
  <1> QED
    BY <1>1, <1>2, DiffAssumption DEF YUYV422_motion_detect

----------------------------------------------------------------------------
(* YUYV422toRGB888INT *)

\* A shifted product is less than one below the quotient.
LEMMA Shifted ==
  ASSUME NEW n \in Int
  PROVE  Shift8(n) \in Int /\ 256 * Shift8(n) <= n /\ n < 256 * Shift8(n) + 256
  BY DEF Shift8

\* What the two shifts for the green byte may lose
LEMMA RedInGreen ==
  ASSUME NEW v \in -128..127, NEW q \in Int,
         256 * q <= v * 183, v * 183 < 256 * q + 256
  PROVE  -1836 <= 71414 * v - 100000 * q /\ 71414 * v - 100000 * q <= 101836
  <1>1. -1836 <= 71414 * v - 100000 * q
    OBVIOUS
  <1>2. 71414 * v - 100000 * q <= 101836
    OBVIOUS
  <1> QED
    BY <1>1, <1>2

LEMMA BlueInGreen ==
  ASSUME NEW u \in -128..127, NEW q \in Int,
         256 * q <= u * 88, u * 88 < 256 * q + 256
  PROVE  -4992 <= 34414 * u - 100000 * q /\ 34414 * u - 100000 * q <= 101750
  <1>1. -4992 <= 34414 * u - 100000 * q
    OBVIOUS
  <1>2. 34414 * u - 100000 * q <= 101750
    OBVIOUS
  <1> QED
    BY <1>1, <1>2

\* The formula for green, and what it means for a byte to be close to one
GreenExact(y, u, v) == 100000 * y - 34414 * u - 71414 * v
Close(x, e) == x \in Int /\ e \in Int /\ Abs(100000 * x - e) < 204000

\* The green byte before it is clipped
LEMMA GreenClose ==
  ASSUME NEW y \in 0..255, NEW u \in -128..127, NEW v \in -128..127
  PROVE  Close(y - (Shift8(u * 88) + Shift8(v * 183)), GreenExact(y, u, v))
  <1> DEFINE p == Shift8(u * 88)
             q == Shift8(v * 183)
             a == 34414 * u - 100000 * p
             b == 71414 * v - 100000 * q
  <1>1. p \in Int /\ 256 * p <= u * 88 /\ u * 88 < 256 * p + 256
    BY Shifted
  <1>2. q \in Int /\ 256 * q <= v * 183 /\ v * 183 < 256 * q + 256
    BY Shifted
  <1> HIDE DEF p, q
  <1>3. a \in Int /\ b \in Int
    BY <1>1, <1>2
  <1>4. -4992 <= a /\ a <= 101750
    BY <1>1, BlueInGreen
  <1>5. -1836 <= b /\ b <= 101836
    BY <1>2, RedInGreen
  <1>6. 100000 * (y - (p + q)) - GreenExact(y, u, v) = a + b
    BY <1>1, <1>2 DEF GreenExact
  <1>7. y - (p + q) \in Int /\ GreenExact(y, u, v) \in Int
    BY <1>1, <1>2 DEF GreenExact
  <1> HIDE DEF a, b
  <1>8. Abs(a + b) < 204000
    BY <1>3, <1>4, <1>5 DEF Abs
  <1> QED
    BY <1>6, <1>7, <1>8 DEF Close, p, q

\* The exact formulas' CLIP, in their unit
ClipExact(x) == IF x > 25500000 THEN 25500000 ELSE IF x < 0 THEN 0 ELSE x

\* Clipping does not add to the error.
LEMMA ClipClose ==
  ASSUME NEW x, NEW e, Close(x, e)
  PROVE  Abs(100000 * CLIP(x) - ClipExact(e)) < 204000
  BY DEF Abs, CLIP, ClipExact, Close

\* The three bytes of every pixel are within 2.04 of what the formulas give,
\* in every image.
LEMMA RgbClose ==
  ASSUME NEW yuyv \in [Offsets -> 0..255],
         NEW l \in 0..Height - 1, NEW c \in 0..Width - 1, NEW channel \in 1..3
  PROVE  Abs(100000 * YUYV422toRGB888INT(yuyv, l * Width + c)[channel]
             - ExactRGB(yuyv, l, c)[channel]) < 204000
  <1> DEFINE k == l * Width + c
             y == yuyv[LumaAt(l, c)]
             u == yuyv[BlueAt(l, c)] - 128
             v == yuyv[RedAt(l, c)] - 128
             r == y + v + Shift8(v * 103)
             g == y - (Shift8(u * 88) + Shift8(v * 183))
             b == y + u + Shift8(u * 198)
  <1>1. /\ py[k] = LumaAt(l, c) /\ pu(k) = BlueAt(l, c) /\ pv(k) = RedAt(l, c)
    BY PixelBytes
  <1>2. LumaAt(l, c) \in Offsets /\ BlueAt(l, c) \in Offsets /\ RedAt(l, c) \in Offsets
    BY OffsetsOfPixel
  <1>3. y \in 0..255 /\ u \in -128..127 /\ v \in -128..127
    BY <1>2
  <1>4. YUYV422toRGB888INT(yuyv, k) = <<CLIP(r), CLIP(g), CLIP(b)>>
    BY <1>1 DEF YUYV422toRGB888INT
  <1>5. ExactRGB(yuyv, l, c) =
          <<ClipExact(100000 * y + 140200 * v),
            ClipExact(GreenExact(y, u, v)),
            ClipExact(100000 * y + 177200 * u)>>
    BY DEF ExactRGB, ClipExact, GreenExact
  <1> HIDE DEF y, u, v, k
  <1>6. Close(r, 100000 * y + 140200 * v)
    <2>0. v * 103 \in Int
      BY <1>3
    <2>1. /\ Shift8(v * 103) \in Int /\ 256 * Shift8(v * 103) <= v * 103
          /\ v * 103 < 256 * Shift8(v * 103) + 256
      BY <2>0, Shifted
    <2> QED
      BY <1>3, <2>1 DEF Abs, Close
  <1>7. Close(g, GreenExact(y, u, v))
    BY <1>3, GreenClose, Zenon DEF g
  <1>8. Close(b, 100000 * y + 177200 * u)
    <2>0. u * 198 \in Int
      BY <1>3
    <2>1. /\ Shift8(u * 198) \in Int /\ 256 * Shift8(u * 198) <= u * 198
          /\ u * 198 < 256 * Shift8(u * 198) + 256
      BY <2>0, Shifted
    <2> QED
      BY <1>3, <2>1 DEF Abs, Close
  <1> HIDE DEF r, g, b
  <1>9. channel \in {1, 2, 3}
    OBVIOUS
  <1>10. k = l * Width + c
    BY DEF k
  <1>11. CASE channel = 1
    BY <1>4, <1>5, <1>6, <1>10, <1>11, ClipClose
  <1>12. CASE channel = 2
    BY <1>4, <1>5, <1>7, <1>10, <1>12, ClipClose
  <1>13. CASE channel = 3
    BY <1>4, <1>5, <1>8, <1>10, <1>13, ClipClose
  <1> QED
    BY <1>9, <1>11, <1>12, <1>13

----------------------------------------------------------------------------
(* YUYV422toYUV420P *)

\* A row of macro pixels ends where RowEnds says so.
LEMMA RowStep ==
  ASSUME NEW n \in Nat \ {0}
  PROVE  n \div HalfWidth = ((n - 1) \div HalfWidth) + (IF RowEnds(n) THEN 1 ELSE 0)
  <1> DEFINE w == HalfWidth
             q == (n - 1) \div w
             r == (n - 1) % w
  <1>1. w \in Nat \ {0}
    BY Halves
  <1> HIDE DEF w
  <1>2. q \in Nat /\ r \in 0..w - 1 /\ n - 1 = w * q + r
    BY <1>1
  <1>3. w * q \in Nat /\ w * (q + 1) = w * q + w
    BY <1>1, <1>2
  <1> HIDE DEF q, r
  <1>4. CASE r = w - 1
    <2>1. n = w * (q + 1) + 0
      BY <1>1, <1>2, <1>3, <1>4
    <2>2. n % w = 0 /\ n \div w = q + 1
      BY <1>1, <1>2, <2>1
    <2> QED
      BY <2>2 DEF RowEnds, w, q
  <1>5. CASE r # w - 1
    <2>1. n = w * q + (r + 1) /\ r + 1 \in 0..w - 1 /\ r + 1 # 0
      BY <1>1, <1>2, <1>3, <1>5
    <2>2. n % w = r + 1 /\ n \div w = q
      BY <1>1, <1>2, <2>1
    <2>3. ~RowEnds(n)
      BY <2>1, <2>2 DEF RowEnds, w
    <2>4. q \in Int
      BY <1>2
    <2> QED
      BY <2>2, <2>3, <2>4 DEF w, q
  <1> QED
    BY <1>4, <1>5

\* A pointer that is moved by a with every iteration and by b more at the end
\* of a row
RowPointer(start, a, b) == [n \in Nat |-> start + a * n + b * (n \div HalfWidth)]

LEMMA RowPointerStep ==
  ASSUME NEW start \in Int, NEW a \in Int, NEW b \in Int
  PROVE  LET f == RowPointer(start, a, b) IN
         /\ f[0] = start
         /\ \A n \in Nat \ {0} :
              /\ f[n - 1] \in Int
              /\ f[n] = f[n - 1] + a + (IF RowEnds(n) THEN b ELSE 0)
  <1>1. HalfWidth \in Nat \ {0}
    BY Halves
  <1>2. 0 \div HalfWidth = 0
    BY <1>1
  <1>3. RowPointer(start, a, b)[0] = start
    BY <1>2 DEF RowPointer
  <1>4. ASSUME NEW n \in Nat \ {0}
        PROVE  LET f == RowPointer(start, a, b) IN
               /\ f[n - 1] \in Int
               /\ f[n] = f[n - 1] + a + (IF RowEnds(n) THEN b ELSE 0)
    <2> DEFINE q == (n - 1) \div HalfWidth
    <2>1. q \in Int
      BY <1>1
    <2>2. n \div HalfWidth = q + (IF RowEnds(n) THEN 1 ELSE 0)
      BY RowStep
    <2>3. /\ RowPointer(start, a, b)[n] = start + a * n + b * (n \div HalfWidth)
          /\ RowPointer(start, a, b)[n - 1] = start + a * (n - 1) + b * q
      BY DEF RowPointer
    <2> HIDE DEF q
    <2>4. a * n = a * (n - 1) + a /\ a * (n - 1) \in Int
      OBVIOUS
    <2>5. b * (q + 1) = b * q + b /\ b * (q + 0) = b * q /\ b * q \in Int
      BY <2>1
    <2>6. CASE RowEnds(n)
      BY <2>2, <2>3, <2>4, <2>5, <2>6
    <2>7. CASE ~RowEnds(n)
      BY <2>2, <2>3, <2>4, <2>5, <2>7
    <2> QED
      BY <2>6, <2>7
  <1> QED
    BY <1>3, <1>4

\* f is moved like such a pointer.
MovesBy(f, start, a, b) ==
  /\ f[0] = start
  /\ \A n \in Nat : f[n] \in Int =>
       f[n + 1] = f[n] + a + (IF RowEnds(n + 1) THEN b ELSE 0)

\* Where such a pointer is after n iterations
LEMMA RowPointerValue ==
  ASSUME NEW start \in Int, NEW a \in Int, NEW b \in Int, NEW f,
         MovesBy(f, start, a, b)
  PROVE  \A n \in Nat : f[n] = RowPointer(start, a, b)[n]
  <1> DEFINE g == RowPointer(start, a, b)
  <1>1. f[0] = g[0]
    BY RowPointerStep DEF MovesBy
  <1>2. ASSUME NEW k \in Nat, f[k] = g[k] PROVE f[k + 1] = g[k + 1]
    <2>1. k + 1 \in Nat \ {0} /\ (k + 1) - 1 = k
      OBVIOUS
    <2>2. /\ g[(k + 1) - 1] \in Int
          /\ g[k + 1] = g[(k + 1) - 1] + a + (IF RowEnds(k + 1) THEN b ELSE 0)
      BY <2>1, RowPointerStep
    <2> HIDE DEF g
    <2> QED
      BY <1>2, <2>1, <2>2 DEF MovesBy
  <1>3. \A k \in Nat : f[k] = g[k]
    <2> HIDE DEF g
    <2> QED
      BY <1>1, <1>2, SameSteps
  <1> QED
    BY <1>3

\* Such a pointer is what the recursion of a loop defines.
LEMMA RowPointerFunction ==
  ASSUME NEW start \in Int, NEW a \in Int, NEW b \in Int
  PROVE  LET f == RowPointer(start, a, b) IN
         f = [n \in Nat |-> IF n = 0 THEN start
                            ELSE f[n - 1] + a + (IF RowEnds(n) THEN b ELSE 0)]
  <1> DEFINE f == RowPointer(start, a, b)
  <1>1. f[0] = start /\ \A n \in Nat \ {0} :
            f[n] = f[n - 1] + a + (IF RowEnds(n) THEN b ELSE 0)
    BY RowPointerStep
  <1>2. f = [n \in Nat |-> f[n]]
    BY DEF RowPointer
  <1> HIDE DEF f
  <1>3. f = [n \in Nat |-> IF n = 0 THEN start
                           ELSE f[n - 1] + a + (IF RowEnds(n) THEN b ELSE 0)]
    BY <1>1, <1>2
  <1> QED
    BY <1>3 DEF f

\* The pointers into the camera's image and into the three planes
LEMMA PlanePointers ==
  ASSUME NEW n \in Nat
  PROVE  /\ pYUVTemp[n] = 0 + 4 * n + 2 * Width * (n \div HalfWidth)
         /\ pY[n] = 0 + 0 * n + 2 * Width * (n \div HalfWidth)
         /\ pU[n] = Width * Height + 0 * n + HalfWidth * (n \div HalfWidth)
  <1>0. /\ 0 \in Int /\ 4 \in Int /\ 2 * Width \in Int /\ Width * Height \in Int
        /\ HalfWidth \in Int
    BY Halves
  <1>1. ASSUME NEW m \in Nat PROVE m + 1 \in Nat /\ m + 1 # 0 /\ (m + 1) - 1 = m
    OBVIOUS
  <1>2. pYUVTemp[n] = 0 + 4 * n + 2 * Width * (n \div HalfWidth)
    <2> DEFINE f == RowPointer(0, 4, 2 * Width)
    <2>1. f = [m \in Nat |-> IF m = 0 THEN 0
                ELSE f[m - 1] + 4 + (IF RowEnds(m) THEN 2 * Width ELSE 0)]
      BY <1>0, RowPointerFunction, Zenon
    <2> HIDE DEF f
    <2>2. pYUVTemp = [m \in Nat |-> IF m = 0 THEN 0
                ELSE pYUVTemp[m - 1] + 4 + (IF RowEnds(m) THEN 2 * Width ELSE 0)]
      BY <2>1, Zenon DEF pYUVTemp
    <2>3. MovesBy(pYUVTemp, 0, 4, 2 * Width)
      BY <1>1, <2>2 DEF MovesBy
    <2>4. pYUVTemp[n] = RowPointer(0, 4, 2 * Width)[n]
      BY <1>0, <2>3, RowPointerValue
    <2> QED
      BY <2>4 DEF RowPointer
  <1>3. pY[n] = 0 + 0 * n + 2 * Width * (n \div HalfWidth)
    <2> DEFINE f == RowPointer(0, 0, 2 * Width)
    <2>1. f = [m \in Nat |-> IF m = 0 THEN 0
                ELSE f[m - 1] + 0 + (IF RowEnds(m) THEN 2 * Width ELSE 0)]
      BY <1>0, RowPointerFunction, Zenon
    <2>2. \A m \in Nat \ {0} : f[m - 1] \in Int
      BY <1>0, RowPointerStep, Zenon
    <2> HIDE DEF f
    <2>3. f = [m \in Nat |-> IF m = 0 THEN 0
                ELSE f[m - 1] + (IF RowEnds(m) THEN 2 * Width ELSE 0)]
      <3>1. ASSUME NEW m \in Nat \ {0}
            PROVE  f[m - 1] + 0 + (IF RowEnds(m) THEN 2 * Width ELSE 0)
                     = f[m - 1] + (IF RowEnds(m) THEN 2 * Width ELSE 0)
        BY <1>0, <2>2
      <3> QED
        BY <2>1, <3>1
    <2>4. pY = [m \in Nat |-> IF m = 0 THEN 0
                ELSE pY[m - 1] + (IF RowEnds(m) THEN 2 * Width ELSE 0)]
      BY <2>3, Zenon DEF pY
    <2>5. MovesBy(pY, 0, 0, 2 * Width)
      BY <1>0, <1>1, <2>4 DEF MovesBy
    <2>6. pY[n] = RowPointer(0, 0, 2 * Width)[n]
      BY <1>0, <2>5, RowPointerValue
    <2> QED
      BY <2>6 DEF RowPointer
  <1>4. pU[n] = Width * Height + 0 * n + HalfWidth * (n \div HalfWidth)
    <2> DEFINE f == RowPointer(Width * Height, 0, HalfWidth)
    <2>1. f = [m \in Nat |-> IF m = 0 THEN Width * Height
                ELSE f[m - 1] + 0 + (IF RowEnds(m) THEN HalfWidth ELSE 0)]
      BY <1>0, RowPointerFunction, Zenon
    <2>2. \A m \in Nat \ {0} : f[m - 1] \in Int
      BY <1>0, RowPointerStep, Zenon
    <2> HIDE DEF f
    <2>3. f = [m \in Nat |-> IF m = 0 THEN Width * Height
                ELSE f[m - 1] + (IF RowEnds(m) THEN HalfWidth ELSE 0)]
      <3>1. ASSUME NEW m \in Nat \ {0}
            PROVE  f[m - 1] + 0 + (IF RowEnds(m) THEN HalfWidth ELSE 0)
                     = f[m - 1] + (IF RowEnds(m) THEN HalfWidth ELSE 0)
        BY <1>0, <2>2
      <3> QED
        BY <2>1, <3>1
    <2>4. pU = [m \in Nat |-> IF m = 0 THEN Width * Height
                ELSE pU[m - 1] + (IF RowEnds(m) THEN HalfWidth ELSE 0)]
      BY <2>3, Zenon DEF pU
    <2>5. MovesBy(pU, Width * Height, 0, HalfWidth)
      BY <1>0, <1>1, <2>4 DEF MovesBy
    <2>6. pU[n] = RowPointer(Width * Height, 0, HalfWidth)[n]
      BY <1>0, <2>5, RowPointerValue
    <2> QED
      BY <2>6 DEF RowPointer
  <1> QED
    BY <1>2, <1>3, <1>4

\* The mean over two lines, and the six samples of four pixels where the
\* planes have them
MeanAt(yuyv, d) == (yuyv[d] + yuyv[d + 2 * Width]) \div 2
Block(yuyv, r, s) ==
  {<<(2 * r) * Width + 2 * s, yuyv[LumaAt(2 * r, 2 * s)]>>,
   <<(2 * r + 1) * Width + 2 * s, yuyv[LumaAt(2 * r + 1, 2 * s)]>>,
   <<(2 * r) * Width + (2 * s + 1), yuyv[LumaAt(2 * r, 2 * s + 1)]>>,
   <<(2 * r + 1) * Width + (2 * s + 1), yuyv[LumaAt(2 * r + 1, 2 * s + 1)]>>,
   <<Width * Height + r * HalfWidth + s, MeanAt(yuyv, BlueAt(2 * r, 2 * s))>>,
   <<(5 * Width * Height) \div 4 + r * HalfWidth + s,
     MeanAt(yuyv, BlueAt(2 * r, 2 * s) + 2)>>}

\* The size of the planes of U and V
LEMMA PlaneSize ==
  LET m == HalfWidth * (Height \div 2) IN
  /\ m \in Nat /\ Width * Height = 4 * m /\ (Width * Height) \div 4 = m
  /\ (5 * Width * Height) \div 4 = 5 * m /\ (3 * Width * Height) \div 2 = 6 * m
  <1> DEFINE h == Height \div 2
             m == HalfWidth * h
  <1>1. m \in Nat /\ h \in Int /\ HalfWidth \in Int
    BY Halves
  <1>2. Width * Height = 4 * m
    <2>1. Width = 2 * HalfWidth /\ Height = 2 * h
      BY Halves
    <2> HIDE DEF h
    <2> QED
      BY <1>1, <2>1
  <1>3. 5 * Width * Height = 5 * (Width * Height) /\ 3 * Width * Height = 3 * (Width * Height)
    BY Halves
  <1> HIDE DEF m
  <1>4. (4 * m) \div 4 = m /\ (5 * (4 * m)) \div 4 = 5 * m /\ (3 * (4 * m)) \div 2 = 6 * m
    BY <1>1
  <1>5. /\ m \in Nat /\ Width * Height = 4 * m /\ (Width * Height) \div 4 = m
        /\ (5 * Width * Height) \div 4 = 5 * m /\ (3 * Width * Height) \div 2 = 6 * m
    BY <1>1, <1>2, <1>3, <1>4
  <1> QED
    BY <1>5 DEF m

\* An iteration of the loop writes the samples of four pixels.
LEMMA IterationWrites ==
  ASSUME NEW yuyv, NEW r \in 0..(Height \div 2) - 1, NEW s \in 0..HalfWidth - 1
  PROVE  LET n == r * HalfWidth + s IN
         n \in Iterations /\ Written(yuyv, n) = Block(yuyv, r, s)
  <1> DEFINE n == r * HalfWidth + s
             p == HalfWidth * r
             t == pYUVTemp[n]
             next == pYUVTempNext(n)
  <1>1. n \in Iterations /\ n \in Nat /\ n \div HalfWidth = r /\ n % HalfWidth = s
    BY Halves, Position DEF Iterations
  <1>2. r \in Int /\ s \in Int /\ HalfWidth \in Int /\ Width = 2 * HalfWidth
    BY Halves
  <1>3. p \in Int /\ r * HalfWidth = p /\ n = p + s
    BY <1>2
  <1>4. /\ (2 * Width) * r = 4 * p /\ (2 * r) * Width = 4 * p
        /\ (2 * r + 1) * Width = 4 * p + 2 * HalfWidth
    <2>1. Width * r = 2 * p
      BY <1>2
    <2> QED
      BY <1>2, <2>1
  <1>5. /\ pYUVTemp[n] = 0 + 4 * n + (2 * Width) * r
        /\ pY[n] = 0 + 0 * n + (2 * Width) * r
        /\ pU[n] = Width * Height + 0 * n + p
    BY <1>1, PlanePointers
  <1> HIDE DEF n, p
  <1>6. /\ t = 8 * p + 4 * s /\ next = t + 2 * Width /\ pY[n] = 4 * p
        /\ pU[n] = Width * Height + p
    BY <1>1, <1>2, <1>3, <1>4, <1>5, PlaneSize DEF pYUVTempNext
  <1>7. /\ LumaAt(2 * r, 2 * s) = t /\ LumaAt(2 * r + 1, 2 * s) = next
        /\ LumaAt(2 * r, 2 * s + 1) = t + 2 /\ LumaAt(2 * r + 1, 2 * s + 1) = next + 2
    BY <1>2, <1>3, <1>4, <1>6 DEF LumaAt
  <1>8. BlueAt(2 * r, 2 * s) = t + 1
    BY <1>2, <1>3, <1>4, <1>6 DEF BlueAt
  <1>9. (t + 1) + 2 = t + 3 /\ (t + 1) + 2 * Width = next + 1 /\ (t + 3) + 2 * Width = next + 3
    BY <1>2, <1>3, <1>6
  <1>10. (2 * (n % HalfWidth)) \div 2 = s /\ 2 * (n % HalfWidth) = 2 * s
    BY <1>1, <1>2
  <1>11. /\ pY[n] + 2 * s = (2 * r) * Width + 2 * s
         /\ pY[n] + 2 * s + Width = (2 * r + 1) * Width + 2 * s
         /\ pY[n] + 2 * s + 1 = (2 * r) * Width + (2 * s + 1)
         /\ pY[n] + 2 * s + 1 + Width = (2 * r + 1) * Width + (2 * s + 1)
    BY <1>2, <1>3, <1>4, <1>6
  <1>12. /\ pU[n] + s = Width * Height + r * HalfWidth + s
         /\ pV(n) + s = (5 * Width * Height) \div 4 + r * HalfWidth + s
    <2> DEFINE m == HalfWidth * (Height \div 2)
    <2>1. /\ m \in Nat /\ Width * Height = 4 * m /\ (Width * Height) \div 4 = m
          /\ (5 * Width * Height) \div 4 = 5 * m
      BY PlaneSize
    <2> HIDE DEF m
    <2> QED
      BY <1>2, <1>3, <1>6, <2>1 DEF pV
  <1> HIDE DEF t, next
  <1>13. Written(yuyv, n) = Block(yuyv, r, s)
    BY <1>7, <1>8, <1>9, <1>10, <1>11, <1>12 DEF Written, Block, MeanAt, t, next
  <1> QED
    BY <1>1, <1>13 DEF n

\* Every iteration is one of a row and a place in it.
LEMMA IterationPlace ==
  ASSUME NEW n \in Iterations
  PROVE  \E r \in 0..(Height \div 2) - 1, s \in 0..HalfWidth - 1 : n = r * HalfWidth + s
  <1>1. HalfWidth \in Nat \ {0} /\ Height \div 2 \in Nat
    BY Halves
  <1>2. /\ n \div HalfWidth \in 0..(Height \div 2) - 1 /\ n % HalfWidth \in 0..HalfWidth - 1
        /\ n = (n \div HalfWidth) * HalfWidth + (n % HalfWidth)
    BY <1>1, Place DEF Iterations
  <1> QED
    BY <1>2

\* The places of a line and a column in the half-size planes
LEMMA HalfPlace ==
  ASSUME NEW l \in 0..Height - 1, NEW c \in 0..Width - 1
  PROVE  /\ l \div 2 \in 0..(Height \div 2) - 1 /\ c \div 2 \in 0..HalfWidth - 1
         /\ l = 2 * (l \div 2) \/ l = 2 * (l \div 2) + 1
         /\ c = 2 * (c \div 2) \/ c = 2 * (c \div 2) + 1
  BY Halves

\* The loop over rows and columns writes exactly the three planes: every
\* sample at its place, and nothing else.
LEMMA PlanarExact ==
  ASSUME NEW yuyv
  PROVE  YUYV422toYUV420P(yuyv) = PlanarImage(yuyv)
  <1> DEFINE Half == (0..Height \div 2 - 1) \X (0..HalfWidth - 1)
             Y == {<<l * Width + c, yuyv[LumaAt(l, c)]>> :
                       l \in 0..Height - 1, c \in 0..Width - 1}
             U == {<<Width * Height + x[1] * HalfWidth + x[2],
                     MeanAt(yuyv, BlueAt(2 * x[1], 2 * x[2]))>> : x \in Half}
             V == {<<(5 * Width * Height) \div 4 + x[1] * HalfWidth + x[2],
                     MeanAt(yuyv, BlueAt(2 * x[1], 2 * x[2]) + 2)>> : x \in Half}
             P == YUYV422toYUV420P(yuyv)
  <1>1. PlanarImage(yuyv) = Y \cup U \cup V
    BY DEF PlanarImage, MeanAt
  <1>2. ASSUME NEW r \in 0..(Height \div 2) - 1, NEW s \in 0..HalfWidth - 1
        PROVE  Block(yuyv, r, s) \subseteq P
    <2>1. r * HalfWidth + s \in Iterations
      BY IterationWrites
    <2>2. Written(yuyv, r * HalfWidth + s) = Block(yuyv, r, s)
      BY IterationWrites
    <2> QED
      BY <2>1, <2>2 DEF YUYV422toYUV420P
  <1>3. ASSUME NEW r \in 0..(Height \div 2) - 1, NEW s \in 0..HalfWidth - 1
        PROVE  Block(yuyv, r, s) \subseteq Y \cup U \cup V
    <2>1. /\ 2 * r \in 0..Height - 1 /\ 2 * r + 1 \in 0..Height - 1
          /\ 2 * s \in 0..Width - 1 /\ 2 * s + 1 \in 0..Width - 1
      BY Halves
    <2>2. <<r, s>> \in Half
      OBVIOUS
    <2>3. /\ <<(2 * r) * Width + 2 * s, yuyv[LumaAt(2 * r, 2 * s)]>> \in Y
          /\ <<(2 * r + 1) * Width + 2 * s, yuyv[LumaAt(2 * r + 1, 2 * s)]>> \in Y
          /\ <<(2 * r) * Width + (2 * s + 1), yuyv[LumaAt(2 * r, 2 * s + 1)]>> \in Y
          /\ <<(2 * r + 1) * Width + (2 * s + 1), yuyv[LumaAt(2 * r + 1, 2 * s + 1)]>> \in Y
      <3>1. ASSUME NEW l \in 0..Height - 1, NEW c \in 0..Width - 1
            PROVE  <<l * Width + c, yuyv[LumaAt(l, c)]>> \in Y
        OBVIOUS
      <3> HIDE DEF Y
      <3> QED
        BY <2>1, <3>1, Zenon
    <2>4. <<Width * Height + r * HalfWidth + s, MeanAt(yuyv, BlueAt(2 * r, 2 * s))>> \in U
      BY <2>2
    <2>5. <<(5 * Width * Height) \div 4 + r * HalfWidth + s,
            MeanAt(yuyv, BlueAt(2 * r, 2 * s) + 2)>> \in V
      BY <2>2
    <2> HIDE DEF Y, U, V
    <2> QED
      BY <2>3, <2>4, <2>5, Zenon DEF Block
  <1>4. P \subseteq Y \cup U \cup V
    <2> SUFFICES ASSUME NEW n \in Iterations, NEW x \in Written(yuyv, n)
                 PROVE  x \in Y \cup U \cup V
      BY DEF YUYV422toYUV420P
    <2>1. PICK r \in 0..(Height \div 2) - 1, s \in 0..HalfWidth - 1 : n = r * HalfWidth + s
      BY IterationPlace
    <2>2. Written(yuyv, n) = Block(yuyv, r, s)
      BY <2>1, IterationWrites
    <2> HIDE DEF Y, U, V
    <2> QED
      BY <1>3, <2>2
  <1>5. Y \subseteq P
    <2> SUFFICES ASSUME NEW l \in 0..Height - 1, NEW c \in 0..Width - 1
                 PROVE  <<l * Width + c, yuyv[LumaAt(l, c)]>> \in P
      <3> HIDE DEF P
      <3> QED
        OBVIOUS
    <2> DEFINE r == l \div 2
               s == c \div 2
    <2>1. /\ r \in 0..(Height \div 2) - 1 /\ s \in 0..HalfWidth - 1
          /\ l = 2 * r \/ l = 2 * r + 1
          /\ c = 2 * s \/ c = 2 * s + 1
      BY HalfPlace
    <2> HIDE DEF r, s, P
    <2>2. <<l * Width + c, yuyv[LumaAt(l, c)]>> \in Block(yuyv, r, s)
      BY <2>1, Zenon DEF Block
    <2> QED
      BY <1>2, <2>1, <2>2
  <1>6. U \subseteq P /\ V \subseteq P
    <2> SUFFICES ASSUME NEW x \in Half
                 PROVE  /\ <<Width * Height + x[1] * HalfWidth + x[2],
                             MeanAt(yuyv, BlueAt(2 * x[1], 2 * x[2]))>> \in P
                        /\ <<(5 * Width * Height) \div 4 + x[1] * HalfWidth + x[2],
                             MeanAt(yuyv, BlueAt(2 * x[1], 2 * x[2]) + 2)>> \in P
      BY Zenon
    <2>1. x[1] \in 0..(Height \div 2) - 1 /\ x[2] \in 0..HalfWidth - 1
      OBVIOUS
    <2> HIDE DEF P
    <2>2. Block(yuyv, x[1], x[2]) \subseteq P
      BY <1>2, <2>1
    <2> QED
      BY <2>2, Zenon DEF Block
  <1> HIDE DEF Y, U, V, P
  <1>7. P = Y \cup U \cup V
    BY <1>4, <1>5, <1>6
  <1> QED
    BY <1>1, <1>7 DEF P

\* The three planes are filled, and nothing is written outside of them.
LEMMA PlanarFilled ==
  ASSUME NEW yuyv
  PROVE  {x[1] : x \in YUYV422toYUV420P(yuyv)} = Planar
  <1> DEFINE w == HalfWidth
             h == Height \div 2
             m == w * h
             Q == PlanarImage(yuyv)
             Half == (0..h - 1) \X (0..w - 1)
  <1>1. /\ m \in Nat /\ Width * Height = 4 * m
        /\ (5 * Width * Height) \div 4 = 5 * m /\ (3 * Width * Height) \div 2 = 6 * m
    BY PlaneSize
  <1>2. w \in Nat \ {0} /\ h \in Nat
    BY Halves
  <1>3. ASSUME NEW x \in Q PROVE x[1] \in 0..6 * m - 1
    <2>1. \/ \E l \in 0..Height - 1, c \in 0..Width - 1 : x[1] = l * Width + c
          \/ \E y \in Half : x[1] = Width * Height + y[1] * HalfWidth + y[2]
          \/ \E y \in Half : x[1] = (5 * Width * Height) \div 4 + y[1] * HalfWidth + y[2]
      BY DEF PlanarImage
    <2>2. ASSUME NEW l \in 0..Height - 1, NEW c \in 0..Width - 1
          PROVE  l * Width + c \in 0..4 * m - 1
      BY <1>1, SizeAssumption, Position
    <2>3. ASSUME NEW y \in Half PROVE y[1] * HalfWidth + y[2] \in 0..m - 1
      BY <1>2, Position
    <2>4. ASSUME NEW y \in Half
          PROVE  /\ y[1] * HalfWidth \in Int /\ y[2] \in Int
      BY <1>2
    <2> HIDE DEF w, h, m, Half
    <2>5. CASE \E l \in 0..Height - 1, c \in 0..Width - 1 : x[1] = l * Width + c
      BY <1>1, <2>2, <2>5
    <2>6. CASE \E y \in Half : x[1] = Width * Height + y[1] * HalfWidth + y[2]
      <3>1. PICK y \in Half : x[1] = Width * Height + y[1] * HalfWidth + y[2]
        BY <2>6
      <3> QED
        BY <1>1, <2>3, <2>4, <3>1
    <2>7. CASE \E y \in Half : x[1] = (5 * Width * Height) \div 4 + y[1] * HalfWidth + y[2]
      <3>1. PICK y \in Half : x[1] = (5 * Width * Height) \div 4 + y[1] * HalfWidth + y[2]
        BY <2>7
      <3> QED
        BY <1>1, <2>3, <2>4, <3>1
    <2> QED
      BY <2>1, <2>5, <2>6, <2>7
  <1>4. ASSUME NEW d \in 0..6 * m - 1 PROVE \E x \in Q : x[1] = d
    <2>1. CASE d < 4 * m
      <3>1. d \in 0..Width * Height - 1
        BY <1>1, <2>1
      <3>2. PICK l \in 0..Height - 1, c \in 0..Width - 1 : d = l * Width + c
        <4>1. /\ d \div Width \in 0..Height - 1 /\ d % Width \in 0..Width - 1
              /\ d = (d \div Width) * Width + (d % Width)
          BY <3>1, SizeAssumption, Place
        <4> QED
          BY <4>1
      <3>3. <<l * Width + c, yuyv[LumaAt(l, c)]>> \in Q
        BY DEF PlanarImage
      <3> QED
        BY <3>2, <3>3
    <2>2. ASSUME NEW e \in 0..m - 1
          PROVE  \E y \in Half : e = y[1] * HalfWidth + y[2] /\ y[1] * HalfWidth \in Int /\ y[2] \in Int
      <3>1. /\ e \div w \in 0..h - 1 /\ e % w \in 0..w - 1
            /\ e = (e \div w) * w + (e % w)
        BY <1>2, Place
      <3>2. <<e \div w, e % w>> \in Half
        BY <3>1
      <3>3. (e \div w) * w \in Int /\ e % w \in Int
        BY <1>2, <3>1
      <3> QED
        BY <3>1, <3>2, <3>3
    <2>3. CASE 4 * m <= d /\ d < 5 * m
      <3>1. PICK y \in Half : /\ d - 4 * m = y[1] * HalfWidth + y[2]
                              /\ y[1] * HalfWidth \in Int /\ y[2] \in Int
        <4>1. d - 4 * m \in 0..m - 1
          BY <1>1, <2>3
        <4> QED
          BY <2>2, <4>1
      <3>2. <<Width * Height + y[1] * HalfWidth + y[2],
              (yuyv[BlueAt(2 * y[1], 2 * y[2])]
                 + yuyv[BlueAt(2 * y[1], 2 * y[2]) + 2 * Width]) \div 2>> \in Q
        BY DEF PlanarImage
      <3>3. Width * Height + y[1] * HalfWidth + y[2] = d
        <4> HIDE DEF m
        <4> QED
          BY <1>1, <3>1
      <3> HIDE DEF Q
      <3> QED
        BY <3>2, <3>3
    <2>4. CASE 5 * m <= d
      <3>1. PICK y \in Half : /\ d - 5 * m = y[1] * HalfWidth + y[2]
                              /\ y[1] * HalfWidth \in Int /\ y[2] \in Int
        <4>1. d - 5 * m \in 0..m - 1
          BY <1>1, <2>4
        <4> QED
          BY <2>2, <4>1
      <3>2. <<(5 * Width * Height) \div 4 + y[1] * HalfWidth + y[2],
              (yuyv[BlueAt(2 * y[1], 2 * y[2]) + 2]
                 + yuyv[BlueAt(2 * y[1], 2 * y[2]) + 2 + 2 * Width]) \div 2>> \in Q
        BY DEF PlanarImage
      <3>3. (5 * Width * Height) \div 4 + y[1] * HalfWidth + y[2] = d
        <4> HIDE DEF m
        <4> QED
          BY <1>1, <3>1
      <3> HIDE DEF Q
      <3> QED
        BY <3>2, <3>3
    <2>5. d < 4 * m \/ (4 * m <= d /\ d < 5 * m) \/ 5 * m <= d
      <3> HIDE DEF m
      <3> QED
        BY <1>1
    <2> QED
      BY <2>1, <2>3, <2>4, <2>5
  <1>5. Planar = 0..6 * m - 1
    BY <1>1 DEF Planar
  <1>6. YUYV422toYUV420P(yuyv) = Q
    BY PlanarExact
  <1> HIDE DEF Q, m
  <1> QED
    BY <1>3, <1>4, <1>5, <1>6
=============================================================================
