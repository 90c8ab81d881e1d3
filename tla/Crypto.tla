------------------------------- MODULE Crypto -------------------------------
(***************************************************************************)
(* Encrypt and Decrypt of internal/security/crypto.go, with which the      *)
(* server seals what it stores, by what they do to their data.  SHA-256    *)
(* and AES-GCM are taken as ideal: a digest is told from every other, a    *)
(* ciphertext opens under the key that sealed it and under no other.  The  *)
(* nonce makes equal plaintexts look different; nothing compares           *)
(* ciphertexts, so it is left out.  A text in base64 is a record; what     *)
(* opens has a field "lock".                                               *)
(*                                                                         *)
(* The X25519 half of the file (GenerateX25519KeyPair, DeriveSharedSecret, *)
(* E2EEncrypt, E2EDecrypt) has no caller and is not modelled.              *)
(***************************************************************************)
CONSTANT Error  \* a result whose err is not nil

deriveKey(key) == [sha256 |-> key]

Encrypt(plaintext, key) == [lock |-> deriveKey(key), inside |-> plaintext]

\* No base64, too short or another key: the tag of GCM does not match.
Decrypt(encoded, key) ==
  IF "lock" \in DOMAIN encoded /\ encoded.lock = deriveKey(key)
  THEN encoded.inside ELSE Error
=============================================================================
