--------------------------- MODULE MCCredentials ----------------------------
(* Instances of Credentials for TLC.                                       *)
EXTENDS Credentials, TLC

CONSTANTS cli, window, t1, t2, k1, k2, v1, v2

MCPrograms == {cli, window}
MCThreads == {t1, t2}
MCKeys == {k1, k2}
MCValues == {v1, v2}

(* Programs, threads, keys and values may be exchanged among themselves.   *)
Alike ==
    Permutations(MCPrograms) \cup Permutations(MCThreads)
    \cup Permutations(MCKeys) \cup Permutations(MCValues)
=============================================================================
