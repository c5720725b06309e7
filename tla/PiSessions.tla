----------------------------- MODULE PiSessions -----------------------------
(***************************************************************************)
(* How a pi session file becomes the mutations of a thread's trail         *)
(* (worker/src/pi-sessions/v3.ts, v4.ts, index.ts), and when a trail of    *)
(* mutations can be loaded (worker/src/session-state.ts).                  *)
(*                                                                         *)
(* Abstracted: texts, names, timestamps, and how a line is spelled.  A     *)
(* line keeps its type and the ids the parsers read; a line that is blank  *)
(* or no JSON object is of type "unknown", which they skip as well.        *)
(***************************************************************************)
EXTENDS Integers, SequencesExt

Root == 0        \* JSON null: the parent of a first entry
Bad == -1        \* a field that is absent or no string
Main == "main"   \* the lane a thread's conversation is on

EntryTypes == {"message", "custom", "compaction"}
FactTypes == {"session_info", "label"}

\* target: what a label names, or the first entry a compaction keeps.
Line(t, i, p, x) == [type |-> t, id |-> i, parent |-> p, target |-> x]

\* id: an entry's own, or a lane's name; ref: an entry's parent, a label's
\* target, a lane's leaf; tail: the messages a compaction retains.
Mutation(k, i, r) == [kind |-> k, id |-> i, ref |-> r, tail |-> <<>>]

EntriesOf(muts) == {muts[k].id : k \in {j \in DOMAIN muts : muts[j].kind \in EntryTypes}}
EntryOf(muts, i) ==
    muts[CHOOSE k \in DOMAIN muts : muts[k].kind \in EntryTypes /\ muts[k].id = i]

----------------------------------------------------------------------------
(* v3: one line after another; facts are chained like entries, but no      *)
(* nodes of the tree.                                                      *)

Parsing == [failed |-> FALSE, muts |-> <<>>, factParent |-> <<>>, last |-> Root]

\* The first ancestor that is no fact, as far as facts have been read.
\* Mutant: a fact's children are given to its parent, whatever that is.
ResolveParent_Once(p, i) == IF i \in DOMAIN p.factParent THEN p.factParent[i] ELSE i
ResolveParent(p, i) ==
    LET facts == DOMAIN p.factParent
        up[seen \in SUBSET facts, j \in Int] ==
            IF j \in facts \ seen THEN up[seen \cup {j}, p.factParent[j]] ELSE j
    IN up[{}, i]

ParentOf(p, line) == IF line.parent = Root THEN Root ELSE ResolveParent(p, line.parent)

RegisterEntry(p, line) ==
    IF \/ line.id = Bad \/ line.id \in EntriesOf(p.muts)
       \/ line.parent = Bad \/ ParentOf(p, line) \notin EntriesOf(p.muts) \cup {Root}
    THEN [p EXCEPT !.failed = TRUE]
    ELSE [p EXCEPT !.muts = Append(@, Mutation(line.type, line.id, ParentOf(p, line))),
                   !.last = line.id]

ApplyFactLine(p, line) ==
    IF \/ line.id \in {Bad} \cup DOMAIN p.factParent
       \/ line.parent \in {Bad, Root}
       \/ line.type = "label" /\ line.target = Bad
    THEN [p EXCEPT !.failed = TRUE]
    ELSE [p EXCEPT
            !.factParent = [i \in DOMAIN @ \cup {line.id} |->
                              IF i = line.id THEN line.parent ELSE @[i]],
            !.muts = Append(@, IF line.type = "label"
                               THEN Mutation("label", Root, line.target)
                               ELSE Mutation("name", Root, Root))]

ApplyV3Line(p, line) ==
    IF p.failed THEN p
    ELSE IF line.type \in FactTypes THEN ApplyFactLine(p, line)
    ELSE IF line.type \in EntryTypes THEN RegisterEntry(p, line)
    ELSE p

\* The path from the root to an entry.
PathTo(muts, leaf) ==
    LET back[i \in EntriesOf(muts) \cup {Root}] ==
            IF i = Root THEN <<>> ELSE Append(back[EntryOf(muts, i).ref], i)
    IN back[leaf]

\* A v3 compaction names the first entry it keeps; its tail is the messages
\* from there to the leaf, the compaction itself left out.
RetainedTail(muts, path, c, kept) ==
    LET at(i) == IF i \in ToSet(path) THEN SelectInSeq(path, LAMBDA x : x = i) ELSE 0
        start == IF at(kept) # 0 /\ at(kept) < at(c) THEN at(kept) ELSE at(c) + 1
    IN SelectSeq(SubSeq(path, start, Len(path)),
                 LAMBDA i : EntryOf(muts, i).kind = "message")

PinMain(p, muts) ==
    IF p.last = Root THEN muts ELSE Append(muts, Mutation("lane", Main, p.last))

ParseV3(lines) ==
    LET p == FoldLeft(ApplyV3Line, Parsing, lines)
        kept(i) == (CHOOSE l \in ToSet(lines) : l.type = "compaction" /\ l.id = i).target
        path == PathTo(p.muts, p.last)
        tails == [k \in DOMAIN p.muts |->
            IF p.muts[k].kind # "compaction" THEN p.muts[k]
            ELSE [p.muts[k] EXCEPT !.tail =
                    RetainedTail(p.muts, path, p.muts[k].id, kept(p.muts[k].id))]]
    IN IF p.failed THEN [ok |-> FALSE, muts |-> <<>>]
       ELSE [ok |-> TRUE, muts |-> PinMain(p, tails)]

----------------------------------------------------------------------------
\* v4: pi's own repo reads the log, without its lanes; each is pinned again.
ReadV4(file) ==
    [ok |-> TRUE,
     muts |-> file.log \o [k \in DOMAIN file.lanes |->
                              Mutation("lane", file.lanes[k].lane, file.lanes[k].leaf)]]

ReadPiSession(file) ==
    CASE file.format = "v3" -> ParseV3(file.lines)
      [] file.format = "v4" -> ReadV4(file)
      [] OTHER -> [ok |-> FALSE, muts |-> <<>>]

----------------------------------------------------------------------------
(* SessionState.applyMutation, of mutations numbered in order.             *)

Applied(s, m) ==
    CASE m.kind \in EntryTypes ->
            IF m.id \in s.ids \/ m.ref \notin s.ids \cup {Root} THEN [s EXCEPT !.failed = TRUE]
            ELSE [s EXCEPT !.ids = @ \cup {m.id}]
      [] m.kind = "label" -> IF m.ref \in s.ids THEN s ELSE [s EXCEPT !.failed = TRUE]
      [] m.kind = "lane" ->
            IF m.ref \notin s.ids \cup {Root} THEN [s EXCEPT !.failed = TRUE]
            ELSE IF m.id = Main THEN [s EXCEPT !.leaf = m.ref] ELSE s
      [] OTHER -> s

Load(muts) == FoldLeft(Applied, [ids |-> {}, leaf |-> Root, failed |-> FALSE], muts)
=============================================================================
