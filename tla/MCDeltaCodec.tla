---------------------------- MODULE MCDeltaCodec ----------------------------
EXTENDS DeltaCodec

CONSTANTS b0, b1, b2, MaxLen

MCBytes == {b0, b1, b2}

\* Every non-empty chunk of at most MaxLen bytes, as target and as base.
MCBuffers == {s \in BoundedSeq(MCBytes, MaxLen) : Len(s) > 0}

\* Chunks at the code's own sizes: a 17-byte common head followed by
\* unrelated bytes, a base that is the target, and disjoint content.
Run(b, n) == [i \in 1..n |-> b]
HeadTarget == Run(b0, 17) \o Run(b1, 23)
HeadBase == Run(b0, 17) \o <<b2>>
MCRealTargets == {HeadTarget, Run(b1, 20) \o <<b2>> \o Run(b0, 4)}
MCRealBases == {HeadBase, Run(b1, 20) \o <<b2>> \o Run(b0, 4)}
====
