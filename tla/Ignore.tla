------------------------------- MODULE Ignore -------------------------------
(***************************************************************************)
(* The ignore files of a shared folder (src/bridge/grant.ts, isIgnoredPath *)
(* and what it calls).                                                     *)
(*                                                                         *)
(* A path is a sequence of names and a name a sequence of characters.  An  *)
(* ignore file is its patterns, compiled: a segment of a pattern is a      *)
(* sequence of the sets of characters its elements match.                  *)
(***************************************************************************)
EXTENDS Naturals, Sequences, SequencesExt

Root == <<>>
Leaf(p) == Last(p)
Above(p) == {SubSeq(p, 1, n) : n \in 0..(Len(p) - 1)}

Star == {"*"}
IsDeep(segment) == segment = <<Star, Star>>

\* segmentMatches: one pass that comes back to the last star when it fails, and has it take
\* one character more.
SegmentMatches(elements, name) ==
    LET n == Len(elements)
        k == Len(name)
        Walks[e \in 1..(n + 1), i \in 1..(k + 1), star \in 0..n, from \in 1..(k + 1)] ==
            IF i > k THEN \A x \in e..n : elements[x] = Star
            ELSE IF e <= n /\ elements[e] = Star THEN Walks[e + 1, i, e, i]
            ELSE IF e <= n /\ name[i] \in elements[e] THEN Walks[e + 1, i + 1, star, from]
            ELSE star # 0 /\ Walks[star + 1, from + 1, star, from + 1]
    IN  Walks[1, 1, 0, 1]

\* segmentsMatch: a deep segment spans directories, and at the end at least one name.
SegmentsMatch(segments, path) ==
    LET n == Len(segments)
        k == Len(path)
        At[e \in 1..(n + 1), i \in 1..(k + 1)] ==
            IF e > n THEN i > k
            ELSE IF IsDeep(segments[e]) /\ e = n THEN i <= k
            ELSE IF IsDeep(segments[e]) THEN \E next \in i..(k + 1) : At[e + 1, next]
            ELSE i <= k /\ SegmentMatches(segments[e], path[i]) /\ At[e + 1, i + 1]
    IN  At[1, 1]

\* matchesPattern: a name alone matches at any depth.
MatchesPattern(pattern, relative, isDirectory) ==
    /\ pattern.directoryOnly => isDirectory
    /\ IF pattern.anchored THEN SegmentsMatch(pattern.segments, relative)
       ELSE SegmentMatches(pattern.segments[1], Leaf(relative))

\* decides: the last pattern that matches, sources lowest first.  A source governs what is
\* strictly inside its directory.
Decides(sources, p, isDirectory) ==
    LET Matches(s, i) ==
            /\ IsStrictPrefix(sources[s].dir, p)
            /\ MatchesPattern(sources[s].patterns[i],
                              SubSeq(p, Len(sources[s].dir) + 1, Len(p)), isDirectory)
    IN  \E s \in DOMAIN sources : \E i \in DOMAIN sources[s].patterns :
            /\ Matches(s, i) /\ ~sources[s].patterns[i].negated
            /\ \A t \in s..Len(sources) : \A j \in DOMAIN sources[t].patterns :
                  Matches(t, j) => t = s /\ j <= i

\* isIgnoredPath: an ignored folder leaves out everything below it.
IsIgnored(sources, p, isDirectory) ==
    \/ \E folder \in Above(p) \ {Root} : Decides(sources, folder, TRUE)
    \/ Decides(sources, p, isDirectory)

-----------------------------------------------------------------------------
\* What a name and a pattern of segments mean, with no pass over them: each element takes
\* the characters, each segment the names, between two cuts.
NameMeans(elements, name) ==
    \E ends \in [0..Len(elements) -> 0..Len(name)] :
        /\ ends[0] = 0 /\ ends[Len(elements)] = Len(name)
        /\ \A e \in 1..Len(elements) :
              IF elements[e] = Star THEN ends[e] >= ends[e - 1]
              ELSE ends[e] = ends[e - 1] + 1 /\ name[ends[e]] \in elements[e]
PathMeans(segments, path) ==
    \E ends \in [0..Len(segments) -> 0..Len(path)] :
        /\ ends[0] = 0 /\ ends[Len(segments)] = Len(path)
        /\ \A e \in 1..Len(segments) :
              IF IsDeep(segments[e])
              THEN ends[e] >= ends[e - 1] /\ (e = Len(segments) => ends[e] > ends[e - 1])
              ELSE ends[e] = ends[e - 1] + 1 /\ NameMeans(segments[e], path[ends[e]])
=============================================================================
