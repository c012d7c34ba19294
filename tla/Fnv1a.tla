-------------------------------- MODULE Fnv1a --------------------------------
(***************************************************************************)
(* _fnv1a_hash of danube/message_router.py, which has to give the numbers  *)
(* that the Rust and Go clients compute. TLC's integers have 32 bits, so a *)
(* 64-bit word is a sequence of four limbs of 16 bits, the least           *)
(* significant one first. A key is the sequence of bytes that key.encode() *)
(* yields.                                                                 *)
(***************************************************************************)
EXTENDS Integers, Sequences, SequencesExt, Bitwise

Limb == 65536

\* 0xCBF29CE484222325.
OffsetBasis == <<8997, 33826, 40164, 52210>>

\* 0x100000001B3 = PrimeLow + PrimeHigh * Limb^2.
PrimeLow == 435
PrimeHigh == 256

(***************************************************************************)
(* w * (low + high * base^2), cut to four limbs: what is carried out of    *)
(* the last limb is what the mask 0xFFFFFFFFFFFFFFFF takes away.           *)
(***************************************************************************)
Column(low, high, w, i) == low * w[i] + (IF i > 2 THEN high * w[i - 2] ELSE 0)

Times(base, low, high, w) ==
    LET carry[i \in 0 .. 4] ==
            IF i = 0 THEN 0
            ELSE (Column(low, high, w, i) + carry[i - 1]) \div base
    IN  [i \in 1 .. 4 |-> (Column(low, high, w, i) + carry[i - 1]) % base]

XorByte(w, byte) == [w EXCEPT ![1] = @ ^^ byte]

\* A defect to detect: multiply first, then XOR, which is FNV-1.
HashByteFnv1(h, byte) == XorByte(Times(Limb, PrimeLow, PrimeHigh, h), byte)

\* One round of the loop.
HashByte(h, byte) == Times(Limb, PrimeLow, PrimeHigh, XorByte(h, byte))

fnv1a_hash(key) == FoldLeft(HashByte, OffsetBasis, key)

\* The remainder of word w modulo n, limb by limb.
Remainder(w, n) == FoldRight(LAMBDA limb, r : (r * Limb + limb) % n, w, 0)
=============================================================================
