------------------------------ MODULE CoreUtil ------------------------------
(***************************************************************************)
(* The service functions of CoreMark (coremark/core_util.c): the 16-bit    *)
(* CRC every other part folds its results into, the seeds of a build       *)
(* (coremark/core_portme.c) and the check of the data types.  A 16-bit     *)
(* value is a member of Halfwords; ee_s16 reads it as a signed number.     *)
(***************************************************************************)
EXTENDS Integers, FiniteSets

MaxU8  == 255
MaxU16 == 65535
MaxS16 == 32767
Bytes     == 0..MaxU8
Halfwords == 0..MaxU16
Shorts    == 0..MaxS16     \* the members of ee_s16 that are not negative

U16(n) == n % 65536
S16(n) == IF U16(n) < 32768 THEN U16(n) ELSE U16(n) - 65536

(* The operation op on each bit of two 16-bit values.                      *)
BitByBit(a, b, op(_, _)) ==
    LET bit(w) == w * op((a \div w) % 2, (b \div w) % 2)
    IN  bit(1) + bit(2) + bit(4) + bit(8) + bit(16) + bit(32) + bit(64) + bit(128)
        + bit(256) + bit(512) + bit(1024) + bit(2048) + bit(4096) + bit(8192)
        + bit(16384) + bit(32768)

BitXor(a, b) == BitByBit(a, b, LAMBDA x, y : (x + y) % 2)
BitOr(a, b)  == BitByBit(a, b, LAMBDA x, y : IF x + y = 0 THEN 0 ELSE 1)

(* Exclusive or with a one-bit mask.                                       *)
Flip(n, mask) == IF (n \div mask) % 2 = 1 THEN n - mask ELSE n + mask

(* The round for the bit w of the data: when it and the low bit of the CRC *)
(* differ the polynomial 0x4002 is applied, and the carry is shifted in at *)
(* bit 15.                                                                 *)
crcround(data, w, crc) ==
    IF (data \div w + crc) % 2 = 1
    THEN Flip(Flip(crc, 2), 16384) \div 2 + 32768
    ELSE crc \div 2

crcu8(data, crc) ==
    LET round(w) == [c \in Halfwords |-> crcround(data, w, c)]
    IN  round(128)[round(64)[round(32)[round(16)[
          round(8)[round(4)[round(2)[round(1)[crc]]]]]]]]

crcu16(newval, crc) ==
    LET n == U16(newval)
    IN  crcu8(n \div 256, crcu8(n % 256, crc))

crc16(newval, crc) == crcu16(newval, crc)

crcu32(newval, crc) == crc16(newval \div 65536, crc16(newval, crc))

-----------------------------------------------------------------------------
(* Unless the build names its kind, the size of the memory block does.     *)
BuildKind(total) ==
    IF total = 1200 THEN "PROFILE_RUN"
    ELSE IF total = 2000 THEN "PERFORMANCE_RUN" ELSE "VALIDATION_RUN"

(* The volatile seeds of a kind of build.                                  *)
SeedsOf(kind) ==
    CASE kind = "VALIDATION_RUN"  -> <<\h3415, \h3415, 102>>
      [] kind = "PERFORMANCE_RUN" -> <<0, 0, 102>>
      [] kind = "PROFILE_RUN"     -> <<8, 8, 8>>

(* get_seed_32 returns seeds 1 to 3, as seed 4 the number of iterations    *)
(* and as seed 5, which selects algorithms, 0.                             *)
get_seed_32(kind, iterations, i) ==
    IF i \in 1..3 THEN SeedsOf(kind)[i] ELSE IF i = 4 THEN iterations ELSE 0

(* The sizes of the types of core_portme.h on the 32-bit core, and those   *)
(* the benchmark requires: check_data_types counts the types that differ.  *)
SizeOfType == [ee_u8 |-> 1, ee_u16 |-> 2, ee_s16 |-> 2, ee_s32 |-> 4,
               ee_u32 |-> 4, ee_ptr_int |-> 4]

RequiredSize == [ee_u8 |-> 1, ee_u16 |-> 2, ee_s16 |-> 2, ee_s32 |-> 4,
                 ee_u32 |-> 4, ee_ptr_int |-> 4]

check_data_types ==
    Cardinality({t \in DOMAIN RequiredSize : SizeOfType[t] # RequiredSize[t]})
=============================================================================
