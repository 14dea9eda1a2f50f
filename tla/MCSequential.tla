---------------------------- MODULE MCSequential ----------------------------
(* Small instances of the parts that run on one thread. *)
EXTENDS Sequential, FiniteSets

CONSTANTS a, b, star, t1, t2, t3

\* Patterns of up to 3 characters and a few longer ones, against names of up to 4.
Texts == BoundedSeq({a, b, star}, 3) \cup
  {<<star, a, b, star>>, <<star, a, a, b>>, <<star, a, star, b>>, <<a, star, a, b>>, <<star, a, b, a>>}
Strings == BoundedSeq({a, b}, 4)

Hashes == <<2, 3, 5, 8, 9>>
Sels == [first : {"none", "s", ".", "other"}, hash : 1..10]

\* Structs and unions of two members, nested once, and structs of three; pointers
\* to what has no size, inside them and alone.
O == Token("object")
To(t) == <<Token("pointer")>> \o t
Struct(t) == <<Token("struct")>> \o t \o <<Token("close")>>
Union(t) == <<Token("union")>> \o t \o <<Token("close")>>
Scalars == {<<Scalar(n)>> : n \in Alignments}
Few == {<<Scalar(1)>>, <<Scalar(2)>>, <<Scalar(8)>>, <<O>>}
Opaque == {<<Token("other")>>, <<O, Token("mark")>>, To(<<Token("mark")>>),
           To(Struct(<<Token("other"), O>>)), To(Struct(Struct(<<Scalar(4), O, O>>)))}
Leaves == Scalars \cup Opaque \cup {<<O>>, To(<<Token("void")>>), To(<<O>>)}
Inner == {Struct(x) : x \in Few} \cup {Struct(x \o y) : x, y \in Few}
           \cup {Union(x \o y) : x, y \in Few}
Types == Leaves \cup {Struct(x \o y \o z) : x, y, z \in Few \cup Opaque}
           \cup {Struct(x \o y) : x, y \in Leaves \cup Inner}
           \cup {Union(x \o y) : x \in Few, y \in Leaves \cup Inner}

Line(t, n) == [thread |-> t, text |-> TRUE, length |-> n]
Lines == {Line(t1, 1), Line(t1, 3), Line(t2, 2), [Line(t3, 1) EXCEPT !.text = FALSE]}
=============================================================================
