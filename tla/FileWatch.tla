----------------------------- MODULE FileWatch ------------------------------
(***************************************************************************)
(* osysmon_file.c: each poll shows the first line of a file.  The file is  *)
(* opened and then read, and others may replace, rewrite or remove it in   *)
(* between.  One file: the files of a report share nothing.                *)
(***************************************************************************)
CONSTANTS
    Lines,      \* first lines
    NoFile,     \* nothing has the path; shown as "<NOTFOUND>"
    NoLine      \* a file without a byte; shown as "<EMPTY>"

ASSUME FileAssumption == NoFile # NoLine /\ NoFile \notin Lines /\ NoLine \notin Lines

VARIABLES
    path,       \* what has the path
    file_pc,    \* "off", "fopen", "fgets"
    behind,     \* the file that is open: the one at the path, or replaced since
    held,       \* what is in it if it was replaced
    file_shown, \* the value in the section of the report
    window      \* history: what was at the path during the poll

fileVars == <<path, file_pc, behind, held, file_shown, window>>

FileContents == Lines \cup {NoLine}

FileTypeOK ==
    /\ path \in FileContents \cup {NoFile}
    /\ file_pc \in {"off", "fopen", "fgets"}
    /\ behind \in {"closed", "path", "replaced"}
    /\ held \in FileContents
    /\ file_shown \in FileContents \cup {NoFile}
    /\ window \subseteq FileContents \cup {NoFile}

FileInit ==
    /\ path = NoFile
    /\ file_pc = "off"
    /\ behind = "closed"
    /\ held = NoLine
    /\ file_shown = NoFile
    /\ window = {}

Noted == window' = IF file_pc = "off" THEN window ELSE window \cup {path'}

\* rename() onto the path, or unlink(): a file that is open stays what it is.
Replaced(c) ==
    /\ path # c
    /\ path' = c
    /\ behind' = IF behind = "path" THEN "replaced" ELSE behind
    /\ held' = IF behind = "path" THEN path ELSE held
    /\ Noted
    /\ UNCHANGED <<file_pc, file_shown>>

\* Truncated, or written.
Rewritten(c) ==
    /\ path # NoFile /\ path # c
    /\ NoLine \in {path, c}
    /\ path' = c
    /\ Noted
    /\ UNCHANGED <<file_pc, behind, held, file_shown>>

FilePoll ==
    /\ file_pc = "off"
    /\ file_pc' = "fopen"
    /\ window' = {path}
    /\ UNCHANGED <<path, behind, held, file_shown>>

Fopen ==
    /\ file_pc = "fopen"
    /\ IF path = NoFile
       THEN file_pc' = "off" /\ file_shown' = NoFile /\ UNCHANGED behind
       ELSE file_pc' = "fgets" /\ behind' = "path" /\ UNCHANGED file_shown
    /\ UNCHANGED <<path, held, window>>

FgetsUnchecked ==                   \* mutant: the result of fgets is not looked at
    /\ file_pc = "fgets"
    /\ LET c == IF behind = "path" THEN path ELSE held
       IN  file_shown' = IF c = NoLine THEN file_shown ELSE c
    /\ behind' = "closed"
    /\ held' = NoLine
    /\ file_pc' = "off"
    /\ UNCHANGED <<path, window>>
\* One line is read, and the file is closed.
Fgets ==
    /\ file_pc = "fgets"
    /\ file_shown' = IF behind = "path" THEN path ELSE held
    /\ behind' = "closed"
    /\ held' = NoLine
    /\ file_pc' = "off"
    /\ UNCHANGED <<path, window>>
\* History is kept until the value has been looked at.
FileForgets ==
    /\ window' = {}
    /\ UNCHANGED <<path, file_pc, behind, held, file_shown>>

FileStep == Fopen \/ Fgets
FileChanges ==
    \/ \E c \in FileContents \cup {NoFile} : Replaced(c)
    \/ \E c \in FileContents : Rewritten(c)
=============================================================================
