----------------------------- MODULE RsaChunking -----------------------------
(***************************************************************************)
(* eular::Rsa (src/crypto/rsa.cpp): messages longer than one RSA block are *)
(* cut into chunks, each chunk encrypted with one RSA_*_encrypt call into a *)
(* block of KeySize bytes, and a ciphertext is decrypted block by block.    *)
(* Data is abstracted to lengths: a chunk is the number of plaintext bytes  *)
(* handed to one call, a ciphertext is the sequence of the chunk lengths    *)
(* its blocks hold.  The OpenSSL calls are the environment: which padding   *)
(* each accepts, the length limits, and what a decryption returns.         *)
(*                                                                         *)
(* A client picks a message length and uses one of the two directions:    *)
(* "public"  = publicEncode, then privateDecode of its output;             *)
(* "private" = privateEncode, then publicDecode of its output.             *)
(* defaultPadding is fixed in rsa.h (not in the repository), so it is     *)
(* chosen from Paddings.                                                   *)
(***************************************************************************)
EXTENDS Integers, Sequences, SequencesExt

CONSTANTS KeySize,   \* RSA_size of both keys of the pair, in bytes
          MaxLen,    \* the longest message
          Paddings,  \* the values defaultPadding may have
          Ops        \* the directions clients use

Pkcs1 == "RSA_PKCS1_PADDING"
NoPad == "RSA_NO_PADDING"
X931  == "RSA_X931_PADDING"

ASSUME /\ KeySize \in Nat /\ KeySize > 11 /\ MaxLen \in Nat \ {0}
       /\ Paddings \subseteq {Pkcs1, NoPad, X931}
       /\ Ops \subseteq {"public", "private"}

UNKNOWN_ERROR == -1

VARIABLES len,     \* srcLen of the encode call
          pad,     \* defaultPadding
          op,      \* the direction
          phase,   \* "encode", "decode", "done"
          cipher,  \* chunk lengths of the blocks the encode wrote, in order
          encRet,  \* what the encode returned
          decRet   \* what the decode returned

vars == <<len, pad, op, phase, cipher, encRet, decRet>>

(* The switch on defaultPadding in publicEncode, privateEncode and the     *)
(* space helpers: the plaintext bytes one block can carry.                 *)
RealLen(p, keySize) ==
    CASE p = Pkcs1 -> keySize - 11
      [] p = NoPad -> keySize
      [] p = X931  -> keySize - 2

(* OpenSSL: RSA_public_encrypt knows PKCS#1 and no padding, RSA_private_   *)
(* encrypt also X9.31; no padding needs exactly KeySize bytes, the others *)
(* at most RealLen.                                                         *)
EncryptAccepts(dir, p, flen) ==
    /\ dir = "public" => p # X931
    /\ IF p = NoPad THEN flen = KeySize ELSE flen <= RealLen(p, KeySize)

\* RSA_private_decrypt knows no X9.31; RSA_public_decrypt does.  Both read a
\* whole block.
DecryptAccepts(dir, p, flen) ==
    /\ dir = "private" => p # X931
    /\ flen = KeySize

\* publicEncode's loop stepping srcLen by the block written (encodeLen).
RECURSIVE PublicEncodeCallsByBlock(_, _)
PublicEncodeCallsByBlock(srcLen, realLen) ==
    IF srcLen > realLen
       THEN <<realLen>> \o PublicEncodeCallsByBlock(srcLen - KeySize, realLen)
       ELSE <<srcLen>>

(* The lengths passed to the encrypt calls of publicEncode: `while (srcLen  *)
(* > realLen)` whole chunks, then the remaining srcLen bytes.              *)
RECURSIVE PublicEncodeCalls(_, _)
PublicEncodeCalls(srcLen, realLen) ==
    IF srcLen > realLen
       THEN <<realLen>> \o PublicEncodeCalls(srcLen - realLen, realLen)
       ELSE <<srcLen>>

(* The lengths passed by privateEncode: the same loop, but its last call   *)
(* is RSA_private_encrypt(metaSize, ...) whatever srcLen remains.          *)
RECURSIVE PrivateEncodeCalls(_, _)
PrivateEncodeCalls(srcLen, metaSize) ==
    IF srcLen > metaSize
       THEN <<metaSize>> \o PrivateEncodeCalls(srcLen - metaSize, metaSize)
       ELSE <<metaSize>>

(* The decode loops of privateDecode and publicDecode: `while (srcLen >    *)
(* canDecodeLen)` whole blocks, then the rest.                             *)
RECURSIVE DecodeCalls(_, _)
DecodeCalls(srcLen, canDecodeLen) ==
    IF srcLen > canDecodeLen
       THEN <<canDecodeLen>> \o DecodeCalls(srcLen - canDecodeLen, canDecodeLen)
       ELSE <<srcLen>>

(* One encode: the calls in order (bad: the first OpenSSL refuses), with   *)
(* UNKNOWN_ERROR at the first refused one;                                 *)
(* each accepted call writes one KeySize block.                           *)
Encode(dir, calls) ==
    LET bad == SelectInSeq(calls, LAMBDA n : ~EncryptAccepts(dir, pad, n))
    IN  IF bad = 0
           THEN /\ cipher' = calls
                /\ encRet' = KeySize * Len(calls)
           ELSE /\ cipher' = SubSeq(calls, 1, bad - 1)
                /\ encRet' = UNKNOWN_ERROR

(* One decode of the encRet bytes the encode returned: the calls of the    *)
(* decode loop, the i-th reading block i, which decrypts to the chunk it  *)
(* holds; the first refused call returns UNKNOWN_ERROR.                    *)
Decode(dir, calls) ==
    LET bad == SelectInSeq(calls, LAMBDA n : ~DecryptAccepts(dir, pad, n))
    IN  decRet' = IF bad = 0 THEN SumFunction(cipher) ELSE UNKNOWN_ERROR

Init ==
    /\ len \in 1..MaxLen
    /\ pad \in Paddings
    /\ op \in Ops
    /\ phase = "encode"
    /\ cipher = <<>>
    /\ encRet = 0
    /\ decRet = 0

(* Rsa::publicEncode (the BufferPtr and ByteBuffer forms call the pointer *)
(* form) or Rsa::privateEncode; a negative result ends the client.  The    *)
(* forms' resize (buffer.h) only clamps to the capacity the ByteBuffer     *)
(* already has, which is set by code not in the repository: the model      *)
(* follows the lengths, not the bytes, and says nothing of that buffer.    *)
EncodeStep ==
    /\ phase = "encode"
    /\ IF op = "public"
          THEN Encode("public", PublicEncodeCalls(len, RealLen(pad, KeySize)))
          ELSE Encode("private", PrivateEncodeCalls(len, RealLen(pad, KeySize)))
    /\ phase' = IF encRet' > 0 THEN "decode" ELSE "done"
    /\ UNCHANGED <<len, pad, op, decRet>>

\* Rsa::privateDecode or Rsa::publicDecode of the encode's output.
DecodeStep ==
    /\ phase = "decode"
    /\ Decode(IF op = "public" THEN "private" ELSE "public",
              DecodeCalls(encRet, KeySize))
    /\ phase' = "done"
    /\ UNCHANGED <<len, pad, op, cipher, encRet>>

Terminated == phase = "done" /\ UNCHANGED vars

Next == EncodeStep \/ DecodeStep \/ Terminated

Spec == Init /\ [][Next]_vars

-----------------------------------------------------------------------------

TypeOK ==
    /\ len \in 1..MaxLen
    /\ pad \in Paddings
    /\ op \in Ops
    /\ phase \in {"encode", "decode", "done"}
    /\ cipher \in Seq(0..KeySize)
    /\ encRet \in {UNKNOWN_ERROR} \cup 0..(KeySize * MaxLen)
    /\ decRet \in {UNKNOWN_ERROR} \cup Nat

(* Decoding what publicEncode produced gives the message back: when both   *)
(* calls succeed, privateDecode returns srcLen.                            *)
PublicRoundTrip ==
    op = "public" /\ phase = "done" /\ encRet > 0 /\ decRet >= 0 => decRet = len

(* The same for privateEncode and publicDecode.  privateEncode's last call *)
(* encrypts metaSize bytes however few remain, so the decode returns more  *)
(* bytes than the message had (and the encode read past its input).       *)
PrivateRoundTrip ==
    op = "private" /\ phase = "done" /\ encRet > 0 /\ decRet >= 0 => decRet = len
====
