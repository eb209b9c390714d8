------------------------------ MODULE MCHelpers ------------------------------
(***************************************************************************)
(* Helpers with bytes of four bits and words of four bytes: eight byte     *)
(* lanes, so that an index can name the first vector, the second and       *)
(* neither; floats of 8 and 16 bits with four bits of exponent.            *)
(***************************************************************************)
EXTENDS Helpers

\* Zero, all ones, the ends of the signed ranges of every lane, and two
\* patterns whose lanes are all different.
MCVectors == {
  <<0, 0>>, <<65535, 65535>>, <<32768, 32767>>, <<0, 35080>>,
  <<12816, 30292>>, <<65244, 47768>>, <<128, 33023>>, <<62194, 24959>>}

\* f32 lanes: 0.0 and -0.0, the infinities, signalling and quiet NaNs, 1.0 and
\* its neighbours; the same words are f64 lanes.
MCFloatVectors == {
  <<32768, 128>>, <<30976, 31744>>, <<63608, 61440>>, <<14384, 47288>>,
  <<28680, 28400>>, <<64889, 14336>>, <<0, 32768>>}

MCShuffles == {<<12816, 30292>>, <<61182, 5241>>}

MCNumbers == {0, 1, 2, 3, 7, 8, 9, 15, 16, 100, 127, 128, 129, 200, 254, 255}

\* Zeros, the least, 1.0 and -1.0, two neighbours, the infinities, NaNs.
MCFloats == {0, 128, 1, 129, 56, 184, 57, 119, 120, 248, 121, 124, 249, 255}

\* -0.5, -1.0, 127.5, 128.0, -128.0, -128.5, -129.0, the largest finite one,
\* the infinities, a NaN of each kind, small numbers and zeros.
MCDoubles == {0, 32768, 45056, 47104, 28656, 28672, 61440, 61448, 61456, 30719,
              63487, 30720, 63488, 30721, 64512, 14336, 16384, 49152, 1, 32769}

MCMemory0 == <<1, 2, 3, 4, 5, 6, 7, 8, 9, 10, 11, 12, 13, 14, 15, 0, 9, 9>>
MCSegments == <<<<6, 7, 8>>, <<5>>>>
MCWideAddresses == {0, 2, 15, 16, 60}

\* Zero, one, shift counts at and beyond the width, the ends of the ranges; for
\* the floats -0.0, 1.0 and -1.0, 1.25, an infinity and a NaN of each kind.
MCCodeValues == [
  i32 |-> {0, 1, 7, 9, 127, 128, 255},
  i64 |-> {0, 1, 16, 17, 255, 32767, 32768, 65535},
  f32 |-> {0, 128, 56, 184, 58, 120, 121, 124},
  f64 |-> {0, 32768, 14336, 47104, 14848, 30720, 30721, 31744}]

\* Ends of the ranges of 4 and of 8 bits, and what rounds to them: floats of 7
\* bits from -0.0 and 0.75 to 224.0, and of 9 bits from -0.5 to 248.0.
MCShortValues == [
  i32 |-> {0, 1, 7, 8, 15},
  i64 |-> {0, 1, 100, 127, 128, 129, 200, 201, 203, 204, 255},
  f32 |-> {0, 64, 28, 92, 26, 90, 39, 40, 104, 105, 43, 44, 55, 56, 120, 121, 59, 60, 61, 62, 124},
  f64 |-> {0, 256, 112, 96, 352, 368, 158, 160, 416, 417, 418, 175, 176, 223, 224, 480, 481,
           239, 240, 241, 248, 496}]

\* A rounded operation: any function of its name and operands, except that a sum
\* of equals is twice the number.  Only Code has floats of 4 and 8 bytes.
MCIEEE(op, w, x, y) ==
  LET bits == IF w \in {4, 8} THEN 2 * w ELSE w
      one  == 2^(bits - 1 - ExpBits)
  IN  IF op = "add" /\ x = y /\ x \in one..(2^ExpBits - 1) * one
      THEN IF x \div one = 2^ExpBits - 1 THEN x ELSE x + one
      ELSE (7 * x + 3 * y + Len(op) + (IF op \in {"add", "mul", "ceil"} THEN 1 ELSE 0)) % 2^bits
================================================================================
