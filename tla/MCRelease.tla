---------------------------------- MODULE MCRelease ----------------------------------
(***************************************************************************)
(* One line of development: 0.1 (main), 0.2, a later commit that still     *)
(* says 0.2, and a candidate of 0.3.                                       *)
(***************************************************************************)
EXTENDS Release

CONSTANTS c0, c1, d1, r2, v1, v2, v3rc, whl

MCLine == <<c0, c1, d1, r2>>
MCCommits == {c0, c1, d1, r2}
MCVersions == {v1, v2, v3rc}
MCAnc == [c \in MCCommits |->
            {MCLine[i] : i \in {k \in 1..4 : \E j \in k..4 : MCLine[j] = c}}]
MCVersion == [c \in MCCommits |->
                CASE c = c0 -> v1 [] c \in {c1, d1} -> v2 [] c = r2 -> v3rc]
MCRc == {v3rc}
MCFiles == {whl}
======================================================================================
