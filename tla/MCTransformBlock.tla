-------------------------- MODULE MCTransformBlock --------------------------
EXTENDS TransformBlock

Square == {<<n, n>> : n \in 1 .. 16}
Wide == {<<2 * n, n>> : n \in 1 .. 8}
Tall == {<<n, 2 * n>> : n \in 1 .. 8}
AllSizes == Square \cup Wide \cup Tall

\* Every routine but those whose row pass is not the DCT (see the run of
\* RowsOfTwelve).
SoundForward == {s \in AllSizes : s[1] \notin {12, 14}}
RowsOfTwelve == {<<12, 12>>, <<12, 6>>, <<14, 14>>, <<14, 7>>}
MCSamples == {0, 255}
MCGrey == {0, 37, 255}
MCQuants == {1, 3}
OnlyOne == {1}
NoSizes == {}
MCLevels == {-900, 300}
=============================================================================
