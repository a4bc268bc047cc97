----------------------------- MODULE MCDictData -----------------------------
EXTENDS DictData

\* With chunks of 2 bytes: 4 has a last chunk that is full, 7 one that is not.
MCLengths == {4, 7}
\* No optional field, a comment and a checksum, and all of them.
MCFlags == {4, 4 + 16 + 2, 4 + 16 + 8 + 2}
=============================================================================
