------------------------------ MODULE MCCycleCount ------------------------------
(* Instances of CycleCount for TLC. *)
EXTENDS CycleCount, FiniteSets, TLC

\* No action tells users, handlers, sessions or rows apart.
Symmetry == Permutations(User) \union Permutations(Call) \union Permutations(Session)
            \union Permutations(Row)

\* Bound: while there are two sessions, one of them closed but not forgotten or
\* opened again, only one handler or movement is at work.
OneAtATime ==
    LET atWork == Cardinality({h \in Call : call[h] # Idle}) + (IF mover = Still THEN 0 ELSE 1)
    IN  (\A s \in Session : session[s] # "NONE") => atWork <= 1

================================================================================
