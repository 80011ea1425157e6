---------------------------- MODULE MCRuleEngine ----------------------------
(***************************************************************************)
(* RuleEngine for TLC.  One rule of each kind filterRules tells apart: t   *)
(* only tags, h and i ask for t's tag, s has tags and a message with an    *)
(* effort (split), p only has a message, u is not selected.  The runs      *)
(* differ in which of them the rule files contain.                         *)
(***************************************************************************)
EXTENDS RuleEngine, TLC

CONSTANTS t, h, i

MCHasTags == [q \in Rules |-> IF q \in {h, i} THEN {t} ELSE {}]

\* Workers are interchangeable (used by the runs that check safety only).
WorkerSymmetry == Permutations(Workers)
=============================================================================
