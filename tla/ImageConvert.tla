---------------------------- MODULE ImageConvert ----------------------------
(***************************************************************************)
(* The pixel algorithms of src/client/image_convert.c.  An image is a      *)
(* function from byte offsets to 0..255, in the packed order Y0 U0 Y1 V0   *)
(* of the camera.  The loops are recursive functions over their            *)
(* iterations; each is followed by what it should compute, stated with     *)
(* the coordinates of a pixel.                                             *)
(***************************************************************************)
EXTENDS Integers, FiniteSets

CONSTANTS
    Width, Height,      \* image_width and image_height
    DiffPixels,         \* diff_pixels
    DiffDeviation       \* diff_deviation

\* The camera delivers pairs of pixels and YUV420P halves the lines
ASSUME SizeAssumption ==
    /\ Width \in Nat \ {0} /\ Height \in Nat \ {0}
    /\ Width % 2 = 0 /\ Height % 2 = 0
ASSUME DiffAssumption == DiffPixels \in Nat /\ DiffDeviation \in Nat

Pixels == 0..Width * Height - 1
Offsets == 0..2 * Width * Height - 1
Planar == 0..(3 * Width * Height) \div 2 - 1

Abs(n) == IF n < 0 THEN -n ELSE n

----------------------------------------------------------------------------
(* The pointers of the loops over single pixels *)

\* py moves with every pixel; pu, pv and index after every odd column
py[k \in Nat] == IF k = 0 THEN 0 ELSE py[k - 1] + 2
index[k \in Nat] ==
    IF k = 0 THEN 0
    ELSE index[k - 1] + (IF ((k - 1) % Width) % 2 = 1 THEN 4 ELSE 0)
pu(k) == index[k] + 1
pv(k) == index[k] + 3

\* Mutant of RefY: every pixel is compared with the first of its pair.
RefYFirst(k) == index[k]

\* The reference is read at offset 0 or 2 of its macro pixel
RefY(k) == index[k] + (IF (k % Width) % 2 = 0 THEN 0 ELSE 2)

PixelChanged(ref, yuyv, k) ==
    \/ Abs(ref[RefY(k)] - yuyv[py[k]]) >= DiffDeviation
    \/ Abs(ref[pu(k)] - yuyv[pu(k)]) >= DiffDeviation
    \/ Abs(ref[pv(k)] - yuyv[pv(k)]) >= DiffDeviation

\* What the iteration for pixel k makes of counter; it does not take place
\* once counter is above DIFF (goto exit)
Iteration(ref, yuyv, k) ==
    [counter \in Nat |->
        IF counter <= DiffPixels /\ PixelChanged(ref, yuyv, k)
        THEN counter + 1 ELSE counter]

\* counter after the loop
Counter(ref, yuyv) ==
    LET counter[k \in Nat] ==
            IF k = 0 THEN 0 ELSE Iteration(ref, yuyv, k - 1)[counter[k - 1]]
    IN counter[Width * Height]

\* YUYV422_motion_detect() returns 0
YUYV422_motion_detect(ref, yuyv) == Counter(ref, yuyv) >= DiffPixels

\* The bytes of the pixel in a line and a column
LumaAt(line, column) == (line * Width + column) * 2
BlueAt(line, column) == (line * Width + 2 * (column \div 2)) * 2 + 1
RedAt(line, column) == BlueAt(line, column) + 2

ChangedPixels(ref, yuyv) ==
    {x \in (0..Height - 1) \X (0..Width - 1) :
        \E d \in {LumaAt(x[1], x[2]), BlueAt(x[1], x[2]), RedAt(x[1], x[2])} :
            Abs(ref[d] - yuyv[d]) >= DiffDeviation}

----------------------------------------------------------------------------
(* YUYV422toRGB888INT *)

\* An arithmetic right shift by 8 rounds down
Shift8(n) == n \div 256

\* Mutant of CLIP: what uint8_t makes of the value.
ClipWraps(x) == x % 256

CLIP(x) == IF x >= 255 THEN 255 ELSE IF x <= 0 THEN 0 ELSE x

\* The three bytes the loop writes for pixel k
YUYV422toRGB888INT(yuyv, k) ==
    LET y == yuyv[py[k]]
        u == yuyv[pu(k)] - 128
        v == yuyv[pv(k)] - 128
    IN <<CLIP(y + v + Shift8(v * 103)),
         CLIP(y - (Shift8(u * 88) + Shift8(v * 183))),
         CLIP(y + u + Shift8(u * 198))>>

\* The formulas in the comment above the function, times 100000
ExactRGB(yuyv, line, column) ==
    LET y == 100000 * yuyv[LumaAt(line, column)]
        u == yuyv[BlueAt(line, column)] - 128
        v == yuyv[RedAt(line, column)] - 128
        Clip(x) == IF x > 25500000 THEN 25500000 ELSE IF x < 0 THEN 0 ELSE x
    IN <<Clip(y + 140200 * v), Clip(y - 34414 * u - 71414 * v),
         Clip(y + 177200 * u)>>

----------------------------------------------------------------------------
(* YUYV422toYUV420P *)

\* The iterations of the inner loop, counted through: HalfWidth of them make
\* one of the outer loop.  What the pointers are at the start of iteration n
HalfWidth == Width \div 2
Iterations == 0..HalfWidth * (Height \div 2) - 1

\* Mutant of RowEnds: the pointers are not moved at the end of a row.
RowNeverEnds(n) == FALSE

RowEnds(n) == n % HalfWidth = 0
pYUVTemp[n \in Nat] ==
    IF n = 0 THEN 0
    ELSE pYUVTemp[n - 1] + 4 + (IF RowEnds(n) THEN 2 * Width ELSE 0)
pYUVTempNext(n) == pYUVTemp[n] + 2 * Width
pY[n \in Nat] ==
    IF n = 0 THEN 0 ELSE pY[n - 1] + (IF RowEnds(n) THEN 2 * Width ELSE 0)
pU[n \in Nat] ==
    IF n = 0 THEN Width * Height
    ELSE pU[n - 1] + (IF RowEnds(n) THEN HalfWidth ELSE 0)
pV(n) == pU[n] + (Width * Height) \div 4

\* The bytes iteration n writes, as <<where, what>>
Written(yuyv, n) ==
    LET j == 2 * (n % HalfWidth)
        t == pYUVTemp[n]
        s == pYUVTempNext(n)
    IN {<<pY[n] + j, yuyv[t]>>, <<pY[n] + j + Width, yuyv[s]>>,
        <<pU[n] + j \div 2, (yuyv[t + 1] + yuyv[s + 1]) \div 2>>,
        <<pY[n] + j + 1, yuyv[t + 2]>>,
        <<pY[n] + j + 1 + Width, yuyv[s + 2]>>,
        <<pV(n) + j \div 2, (yuyv[t + 3] + yuyv[s + 3]) \div 2>>}

YUYV422toYUV420P(yuyv) == UNION {Written(yuyv, n) : n \in Iterations}

\* Three planes: Y, then the means of U and of V over two lines
PlanarImage(yuyv) ==
    LET Mean(d) == (yuyv[d] + yuyv[d + 2 * Width]) \div 2
        Half == (0..Height \div 2 - 1) \X (0..HalfWidth - 1)
        blue(x) == BlueAt(2 * x[1], 2 * x[2])
    IN {<<l * Width + c, yuyv[LumaAt(l, c)]>> :
            l \in 0..Height - 1, c \in 0..Width - 1}
       \cup {<<Width * Height + x[1] * HalfWidth + x[2], Mean(blue(x))>> :
                 x \in Half}
       \cup {<<(5 * Width * Height) \div 4 + x[1] * HalfWidth + x[2],
               Mean(blue(x) + 2)>> : x \in Half}
=============================================================================
