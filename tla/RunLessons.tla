------------------------------ MODULE RunLessons ------------------------------
(* Lessons drawn from runs (knowledge/sqlalchemy_store.py): created for      *)
(* review, confirmed and archived by requests that read and then write the   *)
(* row, and found by memory queries once they are active.                    *)
EXTENDS Naturals, FiniteSets

CONSTANTS LessonRefs,   \* references, unique in the project
          Reviewers,    \* requests that confirm or archive
          Memories      \* memory queries

VARIABLES lesson,    \* reference -> status, "none" before it is created
          reviewing, \* request -> what it is about to write, and where
          memory     \* query -> the lessons it has found

lessonVars == <<lesson, reviewing, memory>>

NoReview == [ref |-> "none", status |-> "none"]

LessonInit ==
    /\ lesson = [l \in LessonRefs |-> "none"]
    /\ reviewing = [v \in Reviewers |-> NoReview]
    /\ memory = [m \in Memories |-> {}]

\* A reference that exists is refused.
CreateLesson(l) ==
    /\ lesson[l] = "none"
    /\ lesson' = [lesson EXCEPT ![l] = "pending_review"]
    /\ UNCHANGED <<reviewing, memory>>

\* Any status may be replaced: an archived lesson may be confirmed again.
ReadLesson(v, l, next) ==
    /\ reviewing[v] = NoReview
    /\ lesson[l] # "none"
    /\ reviewing' = [reviewing EXCEPT ![v] = [ref |-> l, status |-> next]]
    /\ UNCHANGED <<lesson, memory>>

ConfirmLesson(v, l) == ReadLesson(v, l, "active")
ArchiveLesson(v, l) == ReadLesson(v, l, "archived")

WriteLesson(v) ==
    /\ reviewing[v] # NoReview
    /\ lesson' = [lesson EXCEPT ![reviewing[v].ref] = reviewing[v].status]
    /\ reviewing' = [reviewing EXCEPT ![v] = NoReview]
    /\ UNCHANGED memory

\* A query ranks the active lessons and returns those that share a term.
QueryLessons(m) == \E S \in SUBSET {l \in LessonRefs : lesson[l] = "active"} :
    /\ memory' = [memory EXCEPT ![m] = S]
    /\ UNCHANGED <<lesson, reviewing>>

LessonNext ==
    \/ \E l \in LessonRefs : CreateLesson(l) \/ \E v \in Reviewers : ConfirmLesson(v, l) \/ ArchiveLesson(v, l)
    \/ \E v \in Reviewers : WriteLesson(v)
    \/ \E m \in Memories : QueryLessons(m)
=============================================================================
