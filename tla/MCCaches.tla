------------------------------ MODULE MCCaches ------------------------------
(* Small instances of Caches for TLC. *)
EXTENDS Caches, TLC

CONSTANTS r1, r2, t1, t2, chat, dry, warm, cold, p, q, w, image, d1, d2

TwoRequests == {r1, r2}
TwoTenants == {t1, t2}
TwoPaths == {chat, dry}
TwoShapes == {warm, cold}
FourPrompts == {p, q, w, image}
ThreeTexts == {p, q, w}

\* q is near p and near w; p and w are not near each other.
SomeText == [x \in FourPrompts |-> IF x = image THEN NoText ELSE x]
SomeScores == [x \in ThreeTexts |-> [y \in ThreeTexts |->
                 IF x = y THEN 3 ELSE IF q \in {x, y} THEN 2 ELSE 1]]

NeverDry == [path \in {dry} |-> 0]

AskOf(tenant, path, shape, prompt, stream, bypass) ==
    [tenant |-> tenant, path |-> path, shape |-> shape, prompt |-> prompt,
     stream |-> stream, bypass |-> bypass]
SomeAsks == {AskOf(t1, chat, warm, x, FALSE, FALSE) : x \in ThreeTexts}
            \cup {AskOf(t2, chat, warm, q, FALSE, FALSE), AskOf(t1, chat, cold, q, FALSE, FALSE),
                  AskOf(t1, chat, warm, image, FALSE, FALSE), AskOf(t1, dry, warm, q, FALSE, FALSE),
                  AskOf(t1, chat, warm, q, TRUE, FALSE), AskOf(t1, chat, warm, q, FALSE, TRUE)}
TwoDims == {d1, d2}
RequestSymmetry == Permutations(Requests)
\* q stands between p and w, which nothing tells apart.
Symmetry == RequestSymmetry \cup Permutations(Dims) \cup Permutations({p, w})
=============================================================================
