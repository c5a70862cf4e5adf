--------------------------- MODULE BranchImmediate ---------------------------
(* The immediate of the vendor's compare-and-branch instruction, as             *)
(* crates/hisi-rf-link/src/normalize.rs encodes it (encode_branchi). A word of  *)
(* 32 bits is the pair of its low and high halfword: bits 1..5 of the           *)
(* displacement go to bits 7..11 of the word, bits 6..9 to bits 20..23.         *)
EXTENDS Integers

HALFWORDS == {half \in Nat : half < 65536}

\* Displacements that encode_branchi accepts: even, and ten bits signed.
Encodable(offset) == offset % 2 = 0 /\ offset \in -512 .. 510

\* faulty variant: the upper four bits are taken one bit too low.
EncodeBranchiShifted(word, offset) ==
  LET encoded == offset % 1024
  IN  << (word[1] % 128) + 128 * ((encoded \div 2) % 32)
           + 4096 * (word[1] \div 4096),
         (word[2] % 16) + 16 * ((encoded \div 32) % 16)
           + 256 * (word[2] \div 256) >>

EncodeBranchi(word, offset) ==
  LET encoded == offset % 1024
  IN  << (word[1] % 128) + 128 * ((encoded \div 2) % 32)
           + 4096 * (word[1] \div 4096),
         (word[2] % 16) + 16 * (encoded \div 64) + 256 * (word[2] \div 256) >>

\* What the processor reads back: the ten bits, with their sign.
DecodeBranchi(word) ==
  LET encoded == 2 * ((word[1] \div 128) % 32) + 64 * ((word[2] \div 16) % 16)
  IN  IF encoded < 512 THEN encoded ELSE encoded - 1024

\* The bits of a word outside the immediate (0x00f00f80): opcode, registers,
\* and the comparand.
OtherBits(word) ==
  << word[1] % 128, word[1] \div 4096, word[2] % 16, word[2] \div 256 >>
=============================================================================
