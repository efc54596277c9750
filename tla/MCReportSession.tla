--------------------------- MODULE MCReportSession ---------------------------
EXTENDS ReportSession, TLC
CONSTANTS s1, s2, s3, s4, s5, c0, c1, c2
ServerIds4 == {s1, s2, s3, s4}
ServerIds5 == {s1, s2, s3, s4, s5}
Symmetry == Permutations(ServerIds)
OwnIds2 == <<c1, c2>>
Nested2 == <<0, 1>>
=============================================================================
