------------------------------ MODULE MCServices ------------------------------
\* Every kind of .weaver file, chip, KeyMint and spblob, on a ramdisk
\* of two programs that are packed.
EXTENDS Services

Yogi == [size |-> 5, keySize |-> 0, keymint |-> 400, blob |-> 4]
MCPhones == {Yogi, [Yogi EXCEPT !.size = 8], [Yogi EXCEPT !.keySize = 16], [Yogi EXCEPT !.blob = 3],
             [Yogi EXCEPT !.keymint = 300], [Yogi EXCEPT !.keymint = 200]}
=============================================================================
