---------------------------- MODULE MCRsaChunking ----------------------------
(***************************************************************************)
(* A 16-byte modulus: one block carries 5 (PKCS#1), 16 (none) or 14       *)
(* (X9.31) plaintext bytes.  Messages of 1..40 bytes take up to 8 chunks  *)
(* and include exact multiples of each chunk size and of the block size.  *)
(***************************************************************************)
EXTENDS RsaChunking

MCPaddings == {Pkcs1, NoPad, X931}
MCOps == {"public", "private"}
====
