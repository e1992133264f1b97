--------------------------- MODULE MCSuperFeature ---------------------------
EXTENDS SuperFeature

\* two 8-byte chunks: four 2-byte sub-ranges of one window each
MCChunk1 == <<1, 2, 0, 2, 1, 1, 0, 2>>
MCChunk2 == <<2, 2, 1, 0, 0, 1, 2, 1>>

MCChunks == [s \in Sessions |-> IF s = CHOOSE x \in Sessions : TRUE
                                THEN <<MCChunk1>> ELSE <<MCChunk2>>]
====
