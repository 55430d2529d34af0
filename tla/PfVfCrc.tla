-------------------------------- MODULE PfVfCrc --------------------------------
(***************************************************************************)
(* The CRC-8 that protects a block read through the PF-VF mailbox: the     *)
(* driver's table and the loop over it, next to the bitwise division the   *)
(* table stands for.                                                       *)
(***************************************************************************)
EXTENDS Integers, Sequences, Bitwise, SequencesExt

pfvf_crc8_table == <<
  0, 151, 185, 46, 229, 114, 92, 203, 93, 202, 228, 115, 184, 47, 1, 150,
  186, 45, 3, 148, 95, 200, 230, 113, 231, 112, 94, 201, 2, 149, 187, 44,
  227, 116, 90, 205, 6, 145, 191, 40, 190, 41, 7, 144, 91, 204, 226, 117,
  89, 206, 224, 119, 188, 43, 5, 146, 4, 147, 189, 42, 225, 118, 88, 207,
  81, 198, 232, 127, 180, 35, 13, 154, 12, 155, 181, 34, 233, 126, 80, 199,
  235, 124, 82, 197, 14, 153, 183, 32, 182, 33, 15, 152, 83, 196, 234, 125,
  178, 37, 11, 156, 87, 192, 238, 121, 239, 120, 86, 193, 10, 157, 179, 36,
  8, 159, 177, 38, 237, 122, 84, 195, 85, 194, 236, 123, 176, 39, 9, 158,
  162, 53, 27, 140, 71, 208, 254, 105, 255, 104, 70, 209, 26, 141, 163, 52,
  24, 143, 161, 54, 253, 106, 68, 211, 69, 210, 252, 107, 160, 55, 25, 142,
  65, 214, 248, 111, 164, 51, 29, 138, 28, 139, 165, 50, 249, 110, 64, 215,
  251, 108, 66, 213, 30, 137, 167, 48, 166, 49, 31, 136, 67, 212, 250, 109,
  243, 100, 74, 221, 22, 129, 175, 56, 174, 57, 23, 128, 75, 220, 242, 101,
  73, 222, 240, 103, 172, 59, 21, 130, 20, 131, 173, 58, 241, 102, 72, 223,
  16, 135, 169, 62, 245, 98, 76, 219, 77, 218, 244, 99, 168, 63, 17, 134,
  170, 61, 19, 132, 79, 216, 246, 97, 247, 96, 78, 217, 18, 133, 171, 60 >>

ADF_CRC8_INIT_VALUE == 255

\* One turn of the loop of adf_pfvf_crc.
CrcStep(c, byte) == pfvf_crc8_table[(c ^^ byte) + 1]

\* adf_pfvf_crc over a whole sequence.  The set makes TLC evaluate c once per
\* byte, also inside ENABLED.
adf_pfvf_crc(bytes) ==
  FoldLeft(LAMBDA c, byte : CHOOSE r \in {CrcStep(x, byte) : x \in {c}} : TRUE,
           ADF_CRC8_INIT_VALUE, bytes)

-----------------------------------------------------------------------------
\* Eight steps of the division by x^8 + x^7 + x^4 + x^2 + x + 1.
Shift(c) == IF c >= 128 THEN ((2 * c) % 256) ^^ 151 ELSE 2 * c
Divide(c) == Shift(Shift(Shift(Shift(Shift(Shift(Shift(Shift(c))))))))

\* Every entry of the table is the remainder it should be.
ASSUME TableDivides == \A c \in 0..255 : pfvf_crc8_table[c + 1] = Divide(c)

\* The table is a permutation, so a block in which one byte was changed never
\* has the same CRC.
ASSUME OneByteDetected == \A c, d \in 0..255 : c # d => pfvf_crc8_table[c + 1] # pfvf_crc8_table[d + 1]
================================================================================
