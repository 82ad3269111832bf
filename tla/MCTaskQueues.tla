------------------------------ MODULE MCTaskQueues ------------------------------
(* Small instances of TaskQueues for TLC. *)
EXTENDS TaskQueues, TLC

Reprocess == {<<"dead_letter", "celery">>}
Outward   == Reprocess \cup {<<"dead_letter", "worker">>}
AllMoves  ==
    Outward \cup {<<"celery", "dead_letter">>, <<"dead_letter", "dead_letter">>}
Symmetry  == Permutations(Workers) \cup Permutations(Operators)
=================================================================================
