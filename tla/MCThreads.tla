------------------------------ MODULE MCThreads ------------------------------
(* An instance of Threads for TLC. *)
EXTENDS Threads, TLC

CONSTANTS c1, c2, c3

\* The k-th line of a file of well-formed lines: its id is k.
Lines(k) ==
    {Line(t, k, p, Root) : t \in {"message", "session_info"}, p \in 0 .. k - 1}
    \cup {Line("label", k, p, x) : p \in 0 .. k - 1, x \in 1 .. k - 1}
    \cup {Line("compaction", k, p, x) : p \in 0 .. k - 1, x \in 1 .. k - 1}

Files == [format : {"v3"}, lines : {<<m>> \o f : m \in {Line("message", 1, Root, Root)},
             f \in {<<i, j, k>> : i \in Lines(2), j \in Lines(3), k \in Lines(4)}}]

V3(ls) == [format |-> "v3", lines |-> ls]
First == Line("message", 1, Root, Root)
Plain == V3(<<First, Line("custom", 2, 1, Root)>>)
Oddities ==
    {[format |-> "unreadable"],
     [format |-> "v4", log |-> <<Mutation("message", 1, Root), Mutation("name", Root, Root)>>,
                       lanes |-> <<[lane |-> "side", leaf |-> Root], [lane |-> Main, leaf |-> 1]>>],
     V3(<<First, Line("message", 1, Root, Root)>>), V3(<<First, Line("message", Bad, 1, Root)>>),
     V3(<<First, Line("message", 2, 9, Root)>>), V3(<<First, Line("session_info", 2, Root, Root)>>),
     V3(<<First, Line("label", 2, 1, Bad)>>), V3(<<First, Line("unknown", 2, 1, Root)>>),
     V3(<<First, Line("session_info", 2, 3, Root), Line("session_info", 3, 2, Root),
          Line("message", 4, 3, Root)>>)}
\* A label of an entry that has not been read: the file parses, its trail does not load.
Unloadable == V3(<<First, Line("label", 2, 1, 9)>>)

Scene(f, x, y, z) == [file |-> f, kinds |-> (c1 :> x @@ c2 :> y @@ c3 :> z)]
Alone == {Scene(f, "import", "none", "none") : f \in Files \cup Oddities}
Beside == {"create", "rename", "archive", "delete", "prompt", "read"}
Together ==
    {Scene(Plain, "prompt", y, z) : y \in {"read", "prompt"}, z \in Beside}
    \cup {Scene(Plain, "rename", "archive", "delete"), Scene(Plain, "create", "archive", "unarchive")}
    \cup {Scene(Plain, "import", y, "prompt") : y \in {"import", "delete"}}
    \cup {Scene(Unloadable, "import", "import", "none"), Scene(Unloadable, "import", "delete", "read")}
MCScenes == Alone \cup Together
=============================================================================
