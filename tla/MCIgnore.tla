------------------------------ MODULE MCIgnore ------------------------------
(***************************************************************************)
(* The folders a walk is taken of: their names, their ignore files, what   *)
(* of them cannot be read, and the bounds.  The two matchers are compared  *)
(* with what they mean, over all short patterns and names.                 *)
(***************************************************************************)
EXTENDS Ignore, TLC

NA == <<"a">>
ND == <<"d">>
NE == <<"e">>
NX == <<"x">>
NN == <<"n">>
NB == <<"b">>
WalkOrder == <<NA, NB, ND, NE, NN, NX>>
WalkPlaces == {<<NA>>, <<ND>>, <<ND, NA>>, <<ND, NE>>, <<ND, NE, NA>>,
               <<ND, NE, NX>>, <<ND, NB>>, <<NE>>, <<NE, NA>>, <<NN>>, <<NN, NA>>, <<NX>>}
Dirs == {<<>>, <<ND>>, <<ND, NE>>, <<NE>>, <<NN>>}
Pattern(neg, dir, anchored, segments) ==
    [negated |-> neg, directoryOnly |-> dir, anchored |-> anchored, segments |-> segments]
Lit(c) == <<{c}>>
Deep == <<Star, Star>>
WalkPatterns == {
    Pattern(FALSE, FALSE, FALSE, <<Lit("a")>>),
    Pattern(TRUE, FALSE, FALSE, <<Lit("a")>>),
    Pattern(FALSE, TRUE, FALSE, <<Lit("e")>>),
    Pattern(FALSE, FALSE, TRUE, <<Lit("d"), Deep>>),
    Pattern(TRUE, FALSE, TRUE, <<Lit("d"), Lit("a")>>),
    Pattern(FALSE, FALSE, TRUE, <<Deep, Lit("e"), <<Star>>>>)}
Rules == {<<>>} \cup {<<p>> : p \in WalkPatterns}
RootRules == Rules \cup {<<p, q>> : p, q \in WalkPatterns}
Kind(k) ==
    [p \in WalkPlaces |->
        IF p = <<NX>> THEN k ELSE IF p \in Dirs THEN "directory" ELSE "file"]
RulesOf(r, s, t) ==
    (<<>> :> r) @@ (<<ND>> :> s) @@ (<<ND, NE>> :> t) @@ (<<NE>> :> <<>>) @@ (<<NN>> :> <<>>)
OnlyA == <<Pattern(FALSE, FALSE, FALSE, <<Lit("a")>>)>>
ButA == <<Pattern(TRUE, FALSE, FALSE, <<Lit("a")>>)>>
WalkFolders ==
    {[kind |-> Kind("file"), rules |-> RulesOf(r, s, t), exclude |-> x,
      unread |-> {}, gone |-> {}, unfit |-> {},
      most |-> [paths |-> 9, bytes |-> 30, nodes |-> 15]] :
        r \in RootRules, s \in Rules, t \in {<<>>, ButA}, x \in {<<>>, OnlyA}}
    \cup
    {[kind |-> Kind(k), rules |-> RulesOf(r, <<>>, <<>>), exclude |-> <<>>,
      unread |-> u, gone |-> g, unfit |-> n, most |-> [paths |-> 2, bytes |-> 6, nodes |-> 6]] :
        k \in {"file", "directory", "other"}, r \in {<<>>, OnlyA},
        u \in {{}, {<<>>}, {<<ND>>}, {<<ND, NE>>}}, g \in {{}, {<<ND>>}, {<<ND, NE>>}},
        n \in {{}, {<<NA>>}, {<<NA>>, <<ND, NA>>}}}

Elements == {Star, {"a"}, {"d"}, {"a", "d"}}
Some(set, n) == UNION {[1..k -> set] : k \in 1..n}
ASSUME \A elements \in Some(Elements, 3), name \in Some({"a", "d"}, 3) :
          SegmentMatches(elements, name) = NameMeans(elements, name)
ASSUME \A segments \in Some({Deep, Lit("a"), <<Star>>}, 3), path \in Some({NA, ND}, 3) :
          SegmentsMatch(segments, path) = PathMeans(segments, path)
=============================================================================
