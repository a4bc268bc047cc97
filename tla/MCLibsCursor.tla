---------------------------- MODULE MCLibsCursor ----------------------------
EXTENDS LibsCursor

MCWords == 0 .. 3
MCFold == [w \in Words |-> w]
MCOffsets == {-1, 0, 1, 2, 5}
MCLengths == {0, 2, 3}
MCNoSynonyms == {{}}
=============================================================================
