------------------------------- MODULE MCMemory -------------------------------
(* Two projects with a collection each, texts of up to five lines that are *)
(* empty, shorter than the overlap, shorter than a chunk, or longer, and   *)
(* conversations with and without a system message.                        *)
EXTENDS Memory, TLC

CONSTANTS c1, c2, c3

Does(op, project, tree, msgs) == [op |-> op, project |-> project, tree |-> tree, msgs |-> msgs]
Of(lines) == [lines |-> lines, indexed |-> TRUE]
Tree(lines) == <<Of(lines), [Of(<<2>>) EXCEPT !.indexed = FALSE], Of(<<2>>)>>

SomeTexts == UNION {[1..n -> {0, 2, 5, 9}] : n \in 1..5}
U(t) == Message("user", {t})
A(t) == Message("assistant", {t})
S(t) == Message("system", {t})
Talks == {<<U("a")>>, <<S("a"), U("b")>>, <<U("a"), A("b"), U("c")>>,
          <<U("a"), S("b"), U("c"), A("d")>>, <<S("a"), U("b"), A("c"), U("d"), A("e"), U("f")>>}

SomeWords == {"a", "b", "c", "d", "e", "f", "context"}

SomeJobs ==
    c1 :> {Does("index", "p", Tree(<<2, 5, 2, 0>>), <<>>)}
    @@ c2 :> {Does("index", "p", <<Of(<<2>>)>>, <<>>), Does("entry", "p", <<>>, <<>>),
              Does("conversation", "q", <<>>, <<>>), Does("delete", "p", <<>>, <<>>)}
    @@ c3 :> {Does("enrich", "p", <<>>, talk) : talk \in Talks}
             \cup {Does("conversation", "p", <<>>, <<>>), Does("entry", "q", <<>>, <<>>)}

SomeNames == "p" :> "project_p" @@ "q" :> "project_q"
=============================================================================
