---------------------------- MODULE VerdictLadder ----------------------------
(***************************************************************************)
(* How a rule comes to its outcome once its backend, if it has one, has    *)
(* answered (evaluateRule, internal/runtime/rule_execution_agent.go).  A   *)
(* definition has at least the fields url, NoURL when no backend is        *)
(* configured, and conds, which of its condition lists are not empty.      *)
(***************************************************************************)

CONSTANT NoURL

Outcomes == {"pass", "fail", "error"}

HasBackend(def) == def.url # NoURL

\* What the rule's expressions yield: the local variables evaluate or not, and
\* each condition list holds, does not hold, or fails to evaluate.
ListResults == {"yes", "no", "err"}

Evaluations ==
  [locals : BOOLEAN, error : ListResults, fail : ListResults, pass : ListResults]

\* The result of a list; an empty list never matches.
Listed(def, ev, list) == IF list \in def.conds THEN ev[list] ELSE "no"

Verdict(def, accepted, ev) ==
  IF \/ ~ev.locals
     \/ Listed(def, ev, "error") \in {"yes", "err"}
     \/ Listed(def, ev, "fail") = "err"
    THEN "error"
  ELSE IF Listed(def, ev, "fail") = "yes" THEN "fail"
  ELSE IF Listed(def, ev, "pass") = "err" THEN "error"
  ELSE IF Listed(def, ev, "pass") = "yes" THEN "pass"
  ELSE IF "pass" \in def.conds \/ (HasBackend(def) /\ ~accepted) THEN "fail"
  ELSE "pass"

Verdicts(def, accepted) == {Verdict(def, accepted, ev) : ev \in Evaluations}
=============================================================================
