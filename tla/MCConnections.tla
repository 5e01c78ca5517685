----------------------------- MODULE MCConnections -----------------------------
(* Two users of one browser, two approvals, two requests at a time.         *)
EXTENDS Connections, TLC

MCSymmetry ==
    Permutations(Users) \cup Permutations(Sessions) \cup Permutations(Flows)
        \cup Permutations(Workers)
==============================================================================
