----------------------------- MODULE Violations -----------------------------
(***************************************************************************)
(* How the incidents of a rule become a violation (createViolation in      *)
(* engine/engine.go) and the lines of a file that are shown with one       *)
(* (getCodeLocation).                                                      *)
(*                                                                         *)
(* An incident is [file, line, message, place]: line is 0 when there is    *)
(* none, place says whether it has a code location.  The limits are 0 when *)
(* they are not set.                                                       *)
(***************************************************************************)
EXTENDS Integers, FiniteSets, Scopes

Same(a, b) == a.file = b.file /\ a.message = b.message /\ a.line = b.line

(* One turn of the loop: nothing once the limit is reached or when the     *)
(* scope takes the incident away; else it is added unless the incident     *)
(* selector leaves it out (`unselected`) or there is one like it.  A file  *)
(* gets as many snippets as codeSnipLimit allows; one is spent on every    *)
(* incident, also on the ones that are then left out or have no location.  *)
AddIncident(acc, m, limit, snips, scope, unselected) ==
    LET snip == snips = 0 \/ acc.count[m.file] # snips
        seen == \E k \in 1..Len(acc.out) : Same(acc.out[k], m)
    IN  IF (limit # 0 /\ Len(acc.out) = limit) \/ FilterResponse(scope, m.file) THEN acc
        ELSE [out |-> IF m \in unselected \/ seen THEN acc.out
                      ELSE Append(acc.out, IF snip THEN m ELSE [m EXCEPT !.place = FALSE]),
              count |-> IF snip THEN [acc.count EXCEPT ![m.file] = @ + 1] ELSE acc.count]

(* createViolation: what it has after each of the incidents.               *)
ViolationSteps(incidents, limit, snips, scope, unselected) ==
    LET none == [f \in {incidents[i].file : i \in 1..Len(incidents)} |-> 0]
        After[n \in 0..Len(incidents)] ==
            IF n = 0 THEN [out |-> <<>>, count |-> none]
            ELSE AddIncident(After[n - 1], incidents[n], limit, snips, scope, unselected)
    IN  After

createViolation(incidents, limit, snips, scope, unselected) ==
    ViolationSteps(incidents, limit, snips, scope, unselected)[Len(incidents)].out

\* Mutant: the line after the context ends the snippet.
getCodeLocationLong(lines, start, end, context) ==
    {n \in 0..lines - 1 : n >= start - context /\ n =< end + context + 1}

(* getCodeLocation: the lines (from 0) that are in the snippet after each  *)
(* line of the file; the scan ends with the last line of the context.      *)
CodeLocationSteps(lines, start, end, context) ==
    LET After[n \in 0..lines] ==
            IF n = 0 THEN [snip |-> {}, scan |-> "on"]
            ELSE LET acc == After[n - 1]
                     stop == n - 1 - context = end
                 IN  IF acc.scan = "over" THEN acc
                     ELSE [snip |-> IF stop \/ n - 1 + context >= start
                                    THEN acc.snip \cup {n - 1} ELSE acc.snip,
                           scan |-> IF stop THEN "over" ELSE "on"]
    IN  After

getCodeLocation(lines, start, end, context) ==
    CodeLocationSteps(lines, start, end, context)[lines].snip
-----------------------------------------------------------------------------
(* Properties                                                              *)

Incidents(S) == [file : S, line : Nat, message : S, place : BOOLEAN]

(* A violation has no two incidents alike and no more than the limit, in   *)
(* the order the conditions found them in (out[k] is the incident at[k]);  *)
(* it leaves out none that the scope and the selector let through, except  *)
(* behind the last one when the limit is reached; and no file has more     *)
(* snippets than allowed.                                                  *)
ViolationComplete(incidents, limit, snips, scope, unselected) ==
    LET out == createViolation(incidents, limit, snips, scope, unselected)
        full == limit # 0 /\ Len(out) = limit
        Kept(i) == ~FilterResponse(scope, incidents[i].file) /\ incidents[i] \notin unselected
    IN  /\ \A i, k \in 1..Len(out) : i # k => ~Same(out[i], out[k])
        /\ limit # 0 => Len(out) =< limit
        /\ \E at \in [1..Len(out) -> 1..Len(incidents)] :
              /\ \A k \in 1..Len(out) : Kept(at[k]) /\ Same(incidents[at[k]], out[k])
              /\ \A i, k \in 1..Len(out) : i < k => at[i] < at[k]
              /\ \A i \in 1..Len(incidents) : Kept(i) =>
                    \/ \E k \in 1..Len(out) : Same(incidents[i], out[k])
                    \/ full /\ \A k \in 1..Len(out) : at[k] < i
        /\ snips # 0 => \A f \in {out[k].file : k \in 1..Len(out)} :
              Cardinality({k \in 1..Len(out) : out[k].file = f /\ out[k].place}) =< snips

(* A snippet is the lines of the incident with contextLines around them,   *)
(* at both ends of the file.                                               *)
SnippetExact(lines, start, end, context) ==
    start =< end => getCodeLocation(lines, start, end, context)
                        = {n \in 0..lines - 1 : n >= start - context /\ n =< end + context}
=============================================================================
