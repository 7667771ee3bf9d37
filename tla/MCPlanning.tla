------------------------------- MODULE MCPlanning -------------------------------
(* Instances of Planning and Templates for TLC.  The two share no table, so a *)
(* behaviour is of the one or of the other.                                   *)
EXTENDS Planning, Templates, TLC

\* Handlers are interchangeable, and so are the users but for the creator.
Symmetry == Permutations(Call) \union Permutations(User \ {Creator})

VARIABLE area      \* which of the two works

MCInit == area \in {"projects", "templates"} /\ Init /\ TemplatesInit

MCNext ==
    /\ UNCHANGED area
    /\ \/ area = "projects" /\ Next /\ UNCHANGED templateVars
       \/ area = "templates" /\ TemplatesNext /\ UNCHANGED vars

MCSpec == MCInit /\ [][MCNext]_<<vars, templateVars, area>>

=================================================================================
