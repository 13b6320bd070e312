---------------------------- MODULE MCWorktrees ----------------------------
(***************************************************************************)
(* Instances of Worktrees for TLC: the scheduler's runs, and calls of one  *)
(* task and of a preview of all.                                           *)
(***************************************************************************)
EXTENDS Worktrees

MCCalls == {[only |-> {}, dry |-> FALSE], [only |-> {}, dry |-> TRUE],
            [only |-> {"output-base-gc"}, dry |-> FALSE]}
============================================================================
