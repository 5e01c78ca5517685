-------------------------- MODULE RequirementStates --------------------------
(***************************************************************************)
(* The nine-status life of a requirement card and the two ways a status    *)
(* may change: the transition table, which people follow, and the demotion *)
(* rule, through which every status proposed by the language model passes. *)
(* Constant-level: the handlers that use it are in RequirementCards.       *)
(*                                                                         *)
(* The source's Korean status names, in the order of core/domain.py:       *)
(*   mihwakjeong   "unconfirmed"       jean        "proposed"              *)
(*   munui         "inquiry"           naebugeomto "internal_review"       *)
(*   yocheong      "requested"         gogaekgeomto "client_review"        *)
(*   habui         "agreed"   geojeol  "rejected"  wanryo  "done"          *)
(***************************************************************************)

RequirementStatus ==
    {"unconfirmed", "inquiry", "requested", "proposed", "internal_review",
     "client_review", "agreed", "rejected", "done"}

TRANSITIONS ==
    [s \in RequirementStatus |->
        CASE s = "unconfirmed"     -> {"inquiry", "requested", "rejected"}
          [] s = "inquiry"         -> {"requested", "proposed", "rejected"}
          [] s = "requested"       -> {"internal_review", "proposed", "rejected"}
          [] s = "internal_review" -> {"proposed", "rejected"}
          [] s = "proposed"        -> {"client_review", "agreed", "rejected"}
          [] s = "client_review"   -> {"agreed", "requested", "rejected"}
          [] s = "agreed"          -> {"done"}
          [] s = "rejected"        -> {}
          [] s = "done"            -> {}]

\* What the model may propose.  The L1 schema of its output is this very list.
LLM_PROPOSABLE_and_rejected ==
    {"unconfirmed", "inquiry", "requested", "proposed", "internal_review",
     "client_review", "rejected"}

LLM_PROPOSABLE ==
    {"unconfirmed", "inquiry", "requested", "proposed", "internal_review",
     "client_review"}

\* The statuses that state a decision a person took.
HumanOnly == {"agreed", "rejected", "done"}

CanTransition(current, target) == target \in TRANSITIONS[current]

\* L3: a repeated status passes, a proposable and reachable one passes, and
\* everything else becomes "unconfirmed" for a person to judge.
Demote(current, proposed) ==
    IF \/ proposed = current
       \/ proposed \in LLM_PROPOSABLE /\ CanTransition(current, proposed)
    THEN proposed
    ELSE "unconfirmed"
==============================================================================
