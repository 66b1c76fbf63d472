------------------------------ MODULE MCLayout ------------------------------
(* All short documents over the kinds of line the splitter tells apart, and *)
(* longer tables and paragraphs, alone or under a heading.                  *)
EXTENDS Layout

CONSTANTS h, tight, title, p, wide, fence, blank, r, broad, rule

\* Of the headings the first leaves a unit most of the cap, the second one token
\* and the third none.
MCWords ==
    [k \in {h, tight, title, p, wide, fence, blank, r, broad, rule} |->
        CASE k \in {h, p, fence, r} -> <<1>>
          [] k = tight -> <<3, 1, 2>>
          [] k = title -> <<3, 2, 3>>
          [] k = wide  -> <<3, 1, 1, 9>>
          [] k = broad -> <<1, 5, 1, 2>>
          [] k = rule  -> <<4>>
          [] k = blank -> <<>>]

Structured == BoundedSeq({h, p, fence, blank, r}, 5)
Tables == {<<first>> \o rest : first \in {r, broad, rule}, rest \in BoundedSeq({r, broad, rule}, 3)}
Paragraphs == BoundedSeq({p, wide}, 3)
MCDocuments ==
    Structured \cup
    {above \o below : above \in {<<>>, <<h>>, <<tight>>, <<title>>},
                      below \in Tables \cup Paragraphs}
=============================================================================
