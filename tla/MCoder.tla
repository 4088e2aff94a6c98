------------------------------- MODULE MCoder -------------------------------
(***************************************************************************)
(* The coder (src/gmbus/mcoder.c): a datagram is the digest of the text, on *)
(* a line of its own, and the text.  Nothing is encrypted: the one          *)
(* encryptor there is copies.  The digest (src/gmbus/hmac.c) is idealised:  *)
(* it is the key and the text it was made of, so that no two are the same   *)
(* by accident, and nobody makes one without the key.                       *)
(***************************************************************************)
EXTENDS MConfig, MText

\* The tables of what is implemented, by the numbers of the algorithms.
Digestors == {"M_HMAC_MD5_96"}

\* __mbus_coder_init; without it the coder's functions are not set.
CoderIsOk(config) == config.hash_algo \in Digestors

\* hmac_md5.
Digest(key, text) == [key |-> key, text |-> text]

Encode(config, text) == [digest |-> Digest(config.hash_key, text), text |-> text]

\* Mutant: the digest is not compared.
DigestMatchesMutant(config, data) == TRUE

DigestMatches(config, data) == data.digest = Digest(config.hash_key, data.text)

=============================================================================
