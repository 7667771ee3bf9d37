-------------------------------- MODULE Templates --------------------------------
(***************************************************************************)
(* Company planning templates: PlanningTemplatesService.  A template is    *)
(* saved as a draft, confirmed by a second person, and then retired, by    *)
(* hand or by the confirmation of the template that replaces it.           *)
(*                                                                         *)
(* confirm, update and retire write under the version and the status they  *)
(* read: each is one action (update changes wording only and is left out). *)
(* create and remove read first and then write without a guard.            *)
(***************************************************************************)
EXTENDS Naturals, FiniteSets

CONSTANTS
    Template, NoTemplate,      \* the rows that may exist at one time
    Author, NoAuthor,
    Handler                    \* handlers of create and remove at work at the same time

ASSUME TemplatesAssumption == NoTemplate \notin Template /\ NoAuthor \notin Author

VARIABLES
    template,      \* PlanningTemplate
    handler        \* the running handlers

templateVars == <<template, handler>>

NoRow == [status |-> "NONE", author |-> NoAuthor, replaces |-> NoTemplate]
RowRecord == [status : {"NONE", "DRAFT", "CONFIRMED", "RETIRED"},
              author : Author \union {NoAuthor}, replaces : Template \union {NoTemplate}]

NoWork == [op |-> "idle", author |-> NoAuthor, of |-> NoTemplate]
WorkRecord == [op : {"idle", "create", "remove"}, author : Author \union {NoAuthor},
               of : Template \union {NoTemplate}]

TemplatesTypeOK ==
    /\ template \in [Template -> RowRecord]
    /\ handler \in [Handler -> WorkRecord]

TemplatesInit ==
    /\ template = [t \in Template |-> NoRow]
    /\ handler = [h \in Handler |-> NoWork]

-----------------------------------------------------------------------------

Existing == {t \in Template : template[t].status # "NONE"}

\* create: what it replaces must be confirmed when the handler looks.
BeginSave(h, a, old) ==
    /\ handler[h] = NoWork
    /\ old # NoTemplate => template[old].status = "CONFIRMED"
    /\ handler' = [handler EXCEPT ![h] = [op |-> "create", author |-> a, of |-> old]]
    /\ UNCHANGED template

\* Ids are never used again: no draft replaces t already.
Unreferenced(t) ==
    /\ t \notin Existing
    /\ \A o \in Existing : template[o].replaces # t
    /\ \A h \in Handler : handler[h].of # t

Save(h, t) ==
    /\ handler[h].op = "create" /\ Unreferenced(t)
    /\ template' = [template EXCEPT ![t] =
           [status |-> "DRAFT", author |-> handler[h].author, replaces |-> handler[h].of]]
    /\ handler' = [handler EXCEPT ![h] = NoWork]

\* Mutant of Retired: what is replaced stays.
RetiredNone(t) == {}

\* What the confirmation of t retires.
Retired(t) == {o \in Template : template[t].replaces = o /\ template[o].status = "CONFIRMED"}

Confirm(t, u) ==
    /\ template[t].status = "DRAFT" /\ u # template[t].author
    /\ template' = [o \in Template |->
                      IF o = t THEN [template[o] EXCEPT !.status = "CONFIRMED"]
                      ELSE IF o \in Retired(t) THEN [template[o] EXCEPT !.status = "RETIRED"]
                      ELSE template[o]]
    /\ UNCHANGED handler

Retire(t) ==
    /\ template[t].status = "CONFIRMED"
    /\ template' = [template EXCEPT ![t].status = "RETIRED"]
    /\ UNCHANGED handler

BeginRemove(h, t) ==
    /\ handler[h] = NoWork /\ template[t].status = "DRAFT"
    /\ handler' = [handler EXCEPT ![h] = [op |-> "remove", author |-> NoAuthor, of |-> t]]
    /\ UNCHANGED template

\* Whatever the status has become; a row already gone is an error.
Remove(h) ==
    /\ handler[h].op = "remove"
    /\ template' = [template EXCEPT ![handler[h].of] = NoRow]
    /\ handler' = [handler EXCEPT ![h] = NoWork]

-----------------------------------------------------------------------------

TemplatesNext ==
    \/ \E h \in Handler :
         \/ \E a \in Author, old \in Template \union {NoTemplate} : BeginSave(h, a, old)
         \/ Remove(h)
         \/ \E t \in Template : Save(h, t) \/ BeginRemove(h, t)
    \/ \E t \in Template : Retire(t) \/ \E u \in Author : Confirm(t, u)

TemplatesSpec == TemplatesInit /\ [][TemplatesNext]_templateVars

-----------------------------------------------------------------------------
(* Properties *)

\* confirm "Retires the template it replaces": never are a template and the one
\* that replaced it offered for new projects together, however many drafts
\* replace the same one, in whatever order they are saved and confirmed.
ReplacedIsRetired ==
    \A t \in Existing :
      template[t].status # "DRAFT" /\ template[t].replaces # NoTemplate
        => template[template[t].replaces].status \notin {"DRAFT", "CONFIRMED"}

==================================================================================
