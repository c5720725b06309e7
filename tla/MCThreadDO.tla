------------------------------ MODULE MCThreadDO ------------------------------
(* Small instances of ThreadDO for TLC.                                    *)
EXTENDS ThreadDO, TLC

CONSTANTS c1, c2, c3, h1, h2, s1

MCKinds == {"create", "rename", "archive", "unarchive", "delete", "read", "prompt", "fire"}

\* A thread that starts so, and the calls of a few words, in any order and at once.
Of(s, words) ==
    [start |-> s,
     calls |-> [k \in MCKinds |-> Cardinality({i \in DOMAIN words : words[i] = k})]]
Scene(s, x, y, z) == Of(s, <<x, y, z>>)

MCScenes ==
    {Scene("evicted", "prompt", "prompt", "fire"),
     Scene("evicted", "prompt", "rename", "archive"), Scene("evicted", "fire", "prompt", "delete"),
     Scene("created", "prompt", "prompt", "none"),
     Scene("created", "prompt", "archive", "delete"), Scene("created", "prompt", "read", "unarchive"),
     Scene("new", "create", "prompt", "delete"), Scene("new", "create", "prompt", "rename"),
     Of("evicted", <<"prompt", "prompt", "read", "delete">>)}

Symmetry == Permutations({c1, c2, c3}) \cup Permutations({h1, h2})
=============================================================================
