------------------------------ MODULE RsaKeys ------------------------------
(***************************************************************************)
(* The key files and key lifecycle of eular::Rsa (src/crypto/rsa.cpp).    *)
(* Rsa::GenerateKey writes a fresh pair to a public and a private key file *)
(* in two separate fopen/PEM_write/fclose steps; an Rsa object loads both  *)
(* files in reinit() when it is constructed and frees the keys in          *)
(* destroy() when it is destroyed.  A key is abstracted to the number of   *)
(* the GenerateKey call that made its pair; a file is Absent, a key, or    *)
(* Corrupt (PEM_write's result is not checked, so a failed write leaves    *)
(* a file PEM_read cannot parse).  The file system is the environment:    *)
(* RSA_generate_key or either fopen may fail.                             *)
(***************************************************************************)
EXTENDS Integers

CONSTANT MaxGen   \* GenerateKey calls

ASSUME MaxGen \in Nat \ {0}

Keys == 1..MaxGen
None == 0
Absent == -1
Corrupt == -2
Files == Keys \cup {Absent, Corrupt}

VARIABLES pubFile,  \* content of pubkeyFile
          priFile,  \* content of prikeyFile
          gens,     \* GenerateKey calls made
          live,     \* an Rsa object exists
          pubKey,   \* mPublicKey
          priKey,   \* mPrivatKey
          loaded    \* what reinit() returned

vars == <<pubFile, priFile, gens, live, pubKey, priKey, loaded>>

Init ==
    /\ pubFile = Absent /\ priFile = Absent
    /\ gens = 0
    /\ live = FALSE /\ pubKey = None /\ priKey = None /\ loaded = FALSE

\* fopen(path, "w+"), PEM_write_..., fclose: the key, or a truncated file.
Written(k) == {k, Corrupt}

(* Rsa::GenerateKey: RSA_generate_key, then the public file, then the     *)
(* private file, leaving the do/while(0) at the first failure.  The       *)
(* public file is replaced before the private file is opened.             *)
GenerateKey ==
    /\ gens < MaxGen
    /\ gens' = gens + 1
    /\ \/ UNCHANGED <<pubFile, priFile>>
       \/ pubFile' \in Written(gens + 1) /\ UNCHANGED priFile
       \/ pubFile' \in Written(gens + 1) /\ priFile' \in Written(gens + 1)
    /\ UNCHANGED <<live, pubKey, priKey, loaded>>

\* fopen(path, "r") and PEM_read_RSA...Key: the key it holds, or NULL.
Read(f) == IF f \in Keys THEN f ELSE None

(* Rsa::Rsa, which calls reinit(): the public key is read first and kept  *)
(* when the private key then fails to load; reinit returns true when both *)
(* PEM_read calls returned a key.                                          *)
Construct ==
    /\ ~live
    /\ live' = TRUE
    /\ pubKey' = Read(pubFile)
    /\ priKey' = IF Read(pubFile) = None THEN None ELSE Read(priFile)
    /\ loaded' = (Read(pubFile) # None /\ Read(priFile) # None)
    /\ UNCHANGED <<pubFile, priFile, gens>>

\* Rsa::~Rsa, which calls destroy(): RSA_free of each key that is set.
Destroy ==
    /\ live
    /\ live' = FALSE /\ pubKey' = None /\ priKey' = None /\ loaded' = FALSE
    /\ UNCHANGED <<pubFile, priFile, gens>>

Next == GenerateKey \/ Construct \/ Destroy

Spec == Init /\ [][Next]_vars

-----------------------------------------------------------------------------

TypeOK ==
    /\ pubFile \in Files /\ priFile \in Files
    /\ gens \in 0..MaxGen
    /\ live \in BOOLEAN /\ loaded \in BOOLEAN
    /\ pubKey \in Keys \cup {None} /\ priKey \in Keys \cup {None}

(* The comment at the top of rsa.cpp: the public and the private key are  *)
(* one pair, and what one encrypts only the other decrypts.  An Rsa whose *)
(* reinit() succeeded holds the two halves of one pair.  GenerateKey       *)
(* replaces the public file before it opens the private one, so when that *)
(* second fopen fails the files hold halves of two different pairs, and   *)
(* the next Rsa loads both without error.                                  *)
KeyPairMatches == live /\ loaded => pubKey = priKey
====
