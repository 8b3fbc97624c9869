---------------------------- MODULE MCRuleUpdater ----------------------------
EXTENDS RuleUpdater
(* Three writes of the rules file; the middle one is half-written. *)
MCRulesets == <<<<>>, <<>>, <<>>>>
====
