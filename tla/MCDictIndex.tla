---------------------------- MODULE MCDictIndex ----------------------------
EXTENDS DictIndex

\* Words 0..3 in two case classes, so that strcasecmp finds words that
\* stardict_strcmp does not.
MCWords == 0 .. 3
MCFold == [w \in Words |-> w \div 2]
============================================================================
