---------------------------- MODULE PromptVersions ----------------------------
(***************************************************************************)
(* The versions of one employee's prompt (handlers/prompts.rs, the         *)
(* employee handlers of opc.rs): rows of prompt_versions, whose body is    *)
(* empty for an employee, and the files that hold the text, one for each   *)
(* version, prompt.md and current.txt.                                     *)
(*                                                                         *)
(* Nothing is locked and no statements share a transaction: each statement *)
(* and each file written is a step, and requests interleave between them.  *)
(* A request cut short, by a file error, its client or the process, takes  *)
(* no further step.  A file is written and read whole.                     *)
(***************************************************************************)
EXTENDS Integers, FiniteSetsExt

CONSTANTS
  Request,    \* handlers that may be under way at once; each serves one request after another
  Text,       \* what requests write
  Blank,      \* the empty text, and that of a file that is not there
  MaxVersion  \* bound on version numbers

NoFile == "absent"

ASSUME PromptAssumption ==
  /\ Blank \notin Text /\ NoFile \notin Text \cup {Blank}
  /\ MaxVersion \in Nat

Numbers == 1..MaxVersion
Contents == Text \cup {Blank}

VARIABLES
  status,    \* of the row of each version: "none" while there is no row
  file,      \* v{n}.md: a text or NoFile
  prompt,    \* prompt.md
  current,   \* the number in current.txt, 0 while there is no such file
  system,    \* the employee's system_prompt
  req,       \* what each request is, where it stands, its version, its text and what it keeps
  quiet,     \* history: requests since whose start no other has taken a step
  published  \* history: a version has been published

vars == <<status, file, prompt, current, system, req, quiet, published>>

Rows == {n \in Numbers : status[n] # "none"}
Latest == Max(Rows \cup {0})
Published == {n \in Numbers : status[n] = "PUBLISHED"}

\* What ensure_company_employee_files writes to prompt.md: what is there or, when
\* that is empty, system_prompt.
Kept == IF prompt = Blank THEN system ELSE prompt

Free(r) == req[r].at \in {"idle", "over"}

\* r takes a step of its own: whatever others have under way is no longer quiet.
Begins(r, kind, at, n, text) ==
  /\ Free(r)
  /\ req' = [req EXCEPT ![r] = [kind |-> kind, at |-> at, n |-> n, text |-> text,
                                seen |-> IF kind = "update" THEN Kept ELSE Blank]]
  /\ quiet' = {r}

Goes(r, from, to) ==
  /\ req[r].at = from
  /\ req' = [req EXCEPT ![r].at = to]
  /\ quiet' = quiet \cap {r}

-----------------------------------------------------------------------------
(* How each kind of request begins: what it reads before its first write. *)

\* POST /opc/prompts/versions
Draft(r) == \E t \in Text :
  /\ Latest < MaxVersion
  /\ Begins(r, "draft", "insert", Latest + 1, t)
  /\ UNCHANGED <<status, file, prompt, current, system, published>>

\* POST /opc/prompts/versions/{version_id}/publish
Publish(r) == \E n \in Rows :
  /\ Begins(r, "publish", "unpublish", n, Blank)
  /\ UNCHANGED <<status, file, prompt, current, system, published>>

\* The end of approve_proposal: record_and_publish_version.
Record(r) == \E t \in Text :
  /\ Latest < MaxVersion
  /\ Begins(r, "record", "unpublish", Latest + 1, t)
  /\ UNCHANGED <<status, file, prompt, current, system, published>>

\* PUT of an employee's prompt: what is kept is read now and written next, the
\* version is chosen later.
Update(r) == \E t \in Text :
  /\ Begins(r, "update", "ensure", 0, t)
  /\ UNCHANGED <<status, file, prompt, current, system, published>>

\* POST of an employee's prompt/rollback: the text is that of the version's file.
Rollback(r) == \E n \in Numbers :
  /\ file[n] # NoFile
  /\ Begins(r, "rollback", "own_file", n, file[n])
  /\ UNCHANGED <<status, file, prompt, current, system, published>>

-----------------------------------------------------------------------------
(* The steps requests share. *)

Ensure(r) ==
  /\ Goes(r, "ensure", "number")
  /\ prompt' = req[r].seen
  /\ UNCHANGED <<status, file, current, system, published>>

(* Mutant: an update leaves the version's file to the publication behind it. *)
NumberOnly(r) ==
  /\ req[r].at = "number"
  /\ current < MaxVersion
  /\ req' = [req EXCEPT ![r] = [@ EXCEPT !.at = "own_prompt", !.n = current + 1,
                                         !.seen = Blank]]
  /\ quiet' = quiet \cap {r}
  /\ UNCHANGED <<status, file, prompt, current, system, published>>

\* An update is numbered after current.txt and not after the rows.
Number(r) ==
  /\ req[r].at = "number"
  /\ current < MaxVersion
  /\ req' = [req EXCEPT ![r] = [@ EXCEPT !.at = "own_file", !.n = current + 1,
                                         !.seen = Blank]]
  /\ quiet' = quiet \cap {r}
  /\ UNCHANGED <<status, file, prompt, current, system, published>>

\* The text files: an update and a rollback write all three before any row and
\* again behind it, a draft writes the version's file alone.
WriteFile(r) ==
  /\ \/ Goes(r, "own_file", "own_prompt")
     \/ Goes(r, "file", IF req[r].kind = "draft" THEN "over" ELSE "prompt")
  /\ file' = [file EXCEPT ![req[r].n] = req[r].text]
  /\ UNCHANGED <<status, prompt, current, system, published>>

WritePrompt(r) ==
  /\ Goes(r, "own_prompt", "own_current") \/ Goes(r, "prompt", "current")
  /\ prompt' = req[r].text
  /\ UNCHANGED <<status, file, current, system, published>>

WriteCurrent(r) ==
  /\ \/ Goes(r, "own_current", "unpublish")
     \/ Goes(r, "current", IF req[r].kind \in {"update", "rollback"} THEN "system" ELSE "over")
  /\ current' = req[r].n
  /\ UNCHANGED <<status, file, prompt, system, published>>

WriteSystem(r) ==
  /\ Goes(r, "system", "over")
  /\ system' = req[r].text
  /\ UNCHANGED <<status, file, prompt, current, published>>

(* Mutant: only the version itself is unpublished. *)
UnpublishOwn(r) ==
  /\ Goes(r, "unpublish", IF req[r].kind = "publish" THEN "mark" ELSE "look_up")
  /\ status' = [n \in Numbers |->
                 IF n \in Published /\ n = req[r].n THEN "DRAFT" ELSE status[n]]
  /\ UNCHANGED <<file, prompt, current, system, published>>

\* UPDATE ... SET status = 'DRAFT' WHERE status = 'PUBLISHED'
Unpublish(r) ==
  /\ Goes(r, "unpublish", IF req[r].kind = "publish" THEN "mark" ELSE "look_up")
  /\ status' = [n \in Numbers |-> IF n \in Published THEN "DRAFT" ELSE status[n]]
  /\ UNCHANGED <<file, prompt, current, system, published>>

LookUp(r) ==
  /\ Goes(r, "look_up", IF req[r].n \in Rows THEN "rewrite" ELSE "insert")
  /\ UNCHANGED <<status, file, prompt, current, system, published>>

(* Mutant: a row found by its number gets the new text and keeps its status. *)
MarkById(r) ==
  /\ Goes(r, "mark", "read_text") \/ Goes(r, "rewrite", "file")
  /\ status' = IF req[r].at = "mark" THEN [status EXCEPT ![req[r].n] = "PUBLISHED"] ELSE status
  /\ published' = (published \/ req[r].at = "mark")
  /\ UNCHANGED <<file, prompt, current, system>>

\* The row is marked: by its id when a request publishes it, by its number when
\* an update, a rollback or a record finds it there.
Mark(r) ==
  /\ Goes(r, "mark", "read_text") \/ Goes(r, "rewrite", "file")
  /\ status' = [status EXCEPT ![req[r].n] = "PUBLISHED"]
  /\ published' = TRUE
  /\ UNCHANGED <<file, prompt, current, system>>

\* hydrate_company_prompt_version: without its file a version has the row's empty body.
ReadText(r) ==
  /\ req[r].at = "read_text"
  /\ LET n == req[r].n
         text == IF file[n] = NoFile THEN Blank ELSE file[n]
     IN req' = [req EXCEPT ![r] = [@ EXCEPT !.at = "file", !.text = text]]
  /\ quiet' = quiet \cap {r}
  /\ UNCHANGED <<status, file, prompt, current, system, published>>

Insert(r) ==
  LET draft == req[r].kind = "draft"
  IN /\ req[r].n \notin Rows
     /\ Goes(r, "insert", "file")
     /\ status' = [status EXCEPT ![req[r].n] = IF draft THEN "DRAFT" ELSE "PUBLISHED"]
     /\ published' = (published \/ ~draft)
     /\ UNCHANGED <<file, prompt, current, system>>

\* UNIQUE(prompt_id, version_number): another request has taken the number.  A
\* draft's handler panics on it, the others answer with the error.
Refuse(r) ==
  /\ req[r].n \in Rows
  /\ Goes(r, "insert", "refused")
  /\ UNCHANGED <<status, file, prompt, current, system, published>>

-----------------------------------------------------------------------------

Init ==
  /\ status = [n \in Numbers |-> "none"]
  /\ file = [n \in Numbers |-> NoFile]
  /\ prompt \in Contents
  /\ current = 0
  /\ system \in Contents
  /\ req = [r \in Request |-> [kind |-> "draft", at |-> "idle", n |-> 0, text |-> Blank,
                           seen |-> Blank]]
  /\ quiet = {}
  /\ published = FALSE

Step(r) ==
  \/ Draft(r) \/ Publish(r) \/ Record(r) \/ Update(r) \/ Rollback(r)
  \/ Ensure(r) \/ Number(r) \/ WriteFile(r) \/ WritePrompt(r) \/ WriteCurrent(r)
  \/ WriteSystem(r) \/ Unpublish(r) \/ LookUp(r) \/ Mark(r) \/ ReadText(r)
  \/ Insert(r) \/ Refuse(r)

Next == \E r \in Request : Step(r)

Spec == Init /\ [][Next]_vars

-----------------------------------------------------------------------------

\* A request that publishes and has met no other leaves its version as the only
\* published one, named by current.txt and with its text in v{n}.md and prompt.md
\* (and, for an update or a rollback, in system_prompt), whatever earlier
\* requests left behind half-way: the stores it writes one after the other agree
\* (prompts.rs, publish_prompt_version and publish_prompt_version_number_in_company;
\* opc.rs, update_company_employee_prompt).
QuietPublishStands ==
  \A r \in quiet :
    req[r].at = "over" /\ req[r].kind # "draft" =>
      /\ Published = {req[r].n}
      /\ current = req[r].n
      /\ file[current] = req[r].text
      /\ prompt = req[r].text
      /\ req[r].kind \in {"update", "rollback"} => system = req[r].text

\* Requests that unpublish each other's versions in any order never leave the
\* prompt without a published one, once there has been one and as long as none
\* is between its two statements or was refused there (prompts.rs,
\* publish_prompt_version_number).
SomeVersionStaysPublished ==
  published /\ Published = {} =>
    \E r \in Request : /\ req[r].kind # "draft"
                       /\ req[r].at \in {"mark", "look_up", "rewrite", "insert", "refused"}

\* current.txt names a version whose text is there, and which has a row or is
\* that of an update or a rollback yet to write it, however requests overlap and
\* wherever they are cut short (company_workspace.rs,
\* write_company_employee_prompt_version, before the row is written).
CurrentIsBacked ==
  current # 0 =>
    /\ file[current] # NoFile
    /\ \/ current \in Rows
       \/ \E r \in Request : /\ req[r].n = current
                             /\ req[r].kind \in {"update", "rollback"}
                             /\ req[r].at \in {"unpublish", "look_up", "insert"}

=============================================================================
