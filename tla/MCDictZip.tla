------------------------------ MODULE MCDictZip ------------------------------
EXTENDS DictZipHeap

\* Three full chunks of 2 bytes, and a header without optional fields.
MCFullLengths == {6}
MCFlags == {4}
==============================================================================
