----------------------------- MODULE MCCamera -----------------------------
(* Images of 4 x 4 pixels: a base image whose bytes are all different and  *)
(* cover the corners of the colour space, black, what one or two changed   *)
(* bytes make of the base image, and the colour whose conversion is worst. *)
EXTENDS Camera

Base == [d \in Offsets |-> (d * 73 + 255 * ((d \div 3) % 2)) % 256]

Changed(f, d) == [f EXCEPT ![d] = IF @ > 127 THEN @ - 90 ELSE @ + 90]

Worst == [d \in Offsets |-> IF d % 4 = 1 THEN 253 ELSE IF d % 4 = 3 THEN 2 ELSE 90]

MCFrames ==
    {Base, Black, Worst} \cup {Changed(Base, d) : d \in {1, 2, 7, 12, 16, 31}}
    \cup {Changed(Changed(Base, d), e) : d \in {3, 9, 16}, e \in {2, 21, 30}}
    \cup {[d \in Offsets |-> IF d % 4 = 1 THEN u ELSE IF d % 4 = 3 THEN v ELSE y] :
              u \in {0, 127, 255}, v \in {0, 129, 255}, y \in {1, 254}}
=============================================================================
