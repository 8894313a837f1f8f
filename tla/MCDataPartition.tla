--------------------------- MODULE MCDataPartition ---------------------------
\* A phone with two users and one companion of each kind, or fewer.
EXTENDS DataPartition

MCUsers  == {"u0", "u10"}
MCSecret == [u \in MCUsers |-> IF u = "u0" THEN "pin" ELSE "word"]

\* As in the fstab of the phone: the names of the ciphers are left out.
MCFileEncryption     == <<"", "", "inlinecrypt_optimized+wrappedkey_v0">>
MCMetadataEncryption == <<"", "wrappedkey_v0">>
=============================================================================
