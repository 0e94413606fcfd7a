----------------------------- MODULE MCMyMalloc -----------------------------
(* Instances of MyMalloc for TLC.                                          *)
EXTENDS MyMalloc

\* Blocks of 7, 10 and 11 words for arenas of 12, 8 words between fenceposts:
\* the first leaves a gap when it starts an arena, the second fits exactly
\* there, the last passes the arena's end. Of arenas that merge each is split off.
MixedRequests == {40, 64, 72}

\* Blocks of 4, 6 and 10 words for arenas of 18.
SeamRequests == {16, 32, 64}

AnySbrk == {"fail", "adjacent", "apart"}
=============================================================================
