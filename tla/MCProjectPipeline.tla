-------------------------- MODULE MCProjectPipeline --------------------------
(***************************************************************************)
(* Three contents of the HLD; the plan of the second has a flagged spec,   *)
(* and the prework of the third is refused until people change its plan.   *)
(* Sections of four lines are large.                                       *)
(***************************************************************************)
EXTENDS ProjectPipeline, TLC

H(n) == [kind |-> "heading", n |-> n]
Text == [kind |-> "text", n |-> 0]
Fence == [kind |-> "fence", n |-> 0]

\* A title, a small section and a large one with two sections and a heading in a code block.
Long == <<H(1), H(2), Text, H(2), H(3), Fence, H(2), Fence, H(3), Text>>
\* One large section that shows an anchor in a code block.
Sample == <<H(2), Fence, [kind |-> "anchor", n |-> 7], Fence>>
\* A large section without inner headings, after one too small to be a section.
Plain == <<H(3), H(2), Text, Text, Text>>
\* Anchored by hand, without the HLD-ID line.
Half == <<[kind |-> "anchor", n |-> 1], Text>>
\* A converted one.
Whole == <<[kind |-> "anchor", n |-> 1], [kind |-> "id", n |-> 1], Text>>

MCGiven == 1 :> {Half, Sample, Plain} @@ 2 :> {Long, Whole} @@ 3 :> {Whole}
MCHandSplits == {{<<2, 2>>, <<3, 4>>}}
MCFlags == 1 :> {} @@ 2 :> {"spec"} @@ 3 :> {}
MCRework == {<<3, FALSE>>}
=============================================================================
