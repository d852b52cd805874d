-------------------------- MODULE MC_SessionStore --------------------------
(* One session file with two spellings of its key: the file name itself    *)
(* and the form with colons that /clear uses.                              *)
EXTENDS SessionStore, TLC

CONSTANTS main, l1, l2, v1, f1, plain, colon

MCFileOf == [k \in {plain, colon} |-> f1]

(* Two sub-agents of a turn are interchangeable.                           *)
MCSymmetry == Permutations(Loggers)
=============================================================================
