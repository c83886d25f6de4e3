------------------------- MODULE PromptVersionsProofs -------------------------
(* Proofs about the versions of a prompt, for any number of requests under    *)
(* way at once, any texts and any bound on the version numbers.               *)
EXTENDS PromptVersions, WellFoundedInduction, TLAPS

-----------------------------------------------------------------------------
(* Types, and the way of each kind of request. *)

(* Where a request of each kind may stand. *)
Shared == {"unpublish", "file", "prompt", "current", "over"}
Late == Shared \cup {"look_up", "rewrite", "insert", "refused"}
Own == {"own_file", "own_prompt", "own_current"}

Path(kind, at) ==
  /\ kind = "draft" => at \in {"idle", "insert", "file", "over", "refused"}
  /\ kind = "publish" => at \in Shared \cup {"mark", "read_text"}
  /\ kind = "record" => at \in Late
  /\ kind = "update" => at \in Late \cup Own \cup {"ensure", "number", "system"}
  /\ kind = "rollback" => at \in Late \cup Own \cup {"system"}

Kinds == {"draft", "publish", "record", "update", "rollback"}

Places == {"idle", "ensure", "number", "own_file", "own_prompt", "own_current", "unpublish",
           "mark", "look_up", "rewrite", "insert", "refused", "read_text", "file", "prompt",
           "current", "system", "over"}

(* What a handler holds. *)
Stacks == [kind : Kinds, at : Places, n : 0..MaxVersion, text : Contents, seen : Contents]

TypeOK ==
  /\ status \in [Numbers -> {"none", "DRAFT", "PUBLISHED"}]
  /\ file \in [Numbers -> Contents \cup {NoFile}]
  /\ prompt \in Contents /\ system \in Contents
  /\ current \in 0..MaxVersion
  /\ req \in [Request -> Stacks]
  /\ quiet \subseteq Request /\ published \in BOOLEAN

(* A request keeps to its path, and past the choice of its version it has one. *)
OnPath ==
  \A r \in Request :
    /\ Path(req[r].kind, req[r].at)
    /\ req[r].at \notin {"idle", "ensure", "number"} => req[r].n \in Numbers

TypeInv == TypeOK /\ OnPath

(* A set of version numbers has a greatest one. *)
LEMMA MaxOfNumbers ==
  ASSUME NEW S, S \subseteq 0..MaxVersion, S # {}
  PROVE  Max(S) \in S
<1> DEFINE R == OpToRel(<, Nat)
           T == {k \in Nat : MaxVersion - k \in S}
<1>1. \A x, y \in Nat : x < y => <<x, y>> \in R
  BY DEF OpToRel
<1>2. T # {}
  <2>1. PICK n \in S : TRUE
    OBVIOUS
  <2>2. MaxVersion - n \in Nat /\ MaxVersion - (MaxVersion - n) = n
    BY PromptAssumption
  <2> QED
    BY <2>1, <2>2
<1>3. PICK k \in T : \A j \in T : ~ (<<j, k>> \in R)
  BY <1>2, NatLessThanWellFounded, WFMin
<1>4. \A n \in S : MaxVersion - k >= n
  <2> SUFFICES ASSUME NEW n \in S PROVE MaxVersion - k >= n
    OBVIOUS
  <2>1. MaxVersion - n \in T
    BY PromptAssumption
  <2>2. ~ (MaxVersion - n < k)
    BY <1>1, <1>3, <2>1
  <2> QED
    BY <2>2, PromptAssumption
<1> QED
  BY <1>4 DEF Max

LEMMA LatestType ==
  ASSUME TypeOK
  PROVE  Latest \in 0..MaxVersion
<1>1. Rows \cup {0} \subseteq 0..MaxVersion
  BY PromptAssumption DEF Rows, Numbers
<1> QED
  BY <1>1, MaxOfNumbers DEF Latest

(* A step inside a request changes where it stands and nothing else of any stack. *)
LEMMA GoesOnly ==
  ASSUME req \in [Request -> Stacks], NEW r \in Request, NEW from, NEW to \in Places,
         Goes(r, from, to)
  PROVE  /\ req' \in [Request -> Stacks]
         /\ req[r].at = from /\ req'[r].at = to
         /\ req'[r].kind = req[r].kind /\ req'[r].n = req[r].n
         /\ req'[r].text = req[r].text
         /\ \A q \in Request \ {r} : req'[q] = req[q]
         /\ quiet' = quiet \cap {r}
<1>1. req' = [req EXCEPT ![r].at = to] /\ req[r].at = from /\ quiet' = quiet \cap {r}
  BY DEF Goes
<1>2. req'[r] = [req[r] EXCEPT !.at = to] /\ \A q \in Request \ {r} : req'[q] = req[q]
  BY <1>1
<1>3. req[r] \in Stacks
  OBVIOUS
<1> QED
  BY <1>1, <1>2, <1>3 DEF Stacks

(* A request that begins replaces the stack of a free slot. *)
LEMMA BeginsOnly ==
  ASSUME req \in [Request -> Stacks], NEW r \in Request, NEW kind \in Kinds,
         NEW at \in Places, NEW n \in Numbers \cup {0}, NEW text \in Contents,
         Kept \in Contents, Begins(r, kind, at, n, text)
  PROVE  /\ req' \in [Request -> Stacks]
         /\ Free(r)
         /\ req'[r].kind = kind /\ req'[r].at = at /\ req'[r].n = n
         /\ req'[r].text = text
         /\ \A q \in Request \ {r} : req'[q] = req[q]
         /\ quiet' = {r}
<1> DEFINE new == [kind |-> kind, at |-> at, n |-> n, text |-> text,
                   seen |-> IF kind = "update" THEN Kept ELSE Blank]
<1>1. new \in Stacks
  BY PromptAssumption DEF Stacks, Contents, Numbers
<1>2. req' = [req EXCEPT ![r] = new] /\ Free(r) /\ quiet' = {r}
  BY DEF Begins
<1> HIDE DEF new
<1>3. req'[r] = new /\ (\A q \in Request \ {r} : req'[q] = req[q])
        /\ req' \in [Request -> Stacks]
  BY <1>1, <1>2
<1> QED
  BY <1>2, <1>3 DEF new

(* An update that takes its number. *)
LEMMA NumberGoes ==
  ASSUME TypeOK, NEW r \in Request, Number(r)
  PROVE  /\ req' \in [Request -> Stacks]
         /\ req[r].at = "number" /\ req'[r].at = "own_file"
         /\ req'[r].n = current + 1 /\ req'[r].n \in Numbers
         /\ req'[r].kind = req[r].kind /\ req'[r].text = req[r].text
         /\ \A q \in Request \ {r} : req'[q] = req[q]
         /\ quiet' = quiet \cap {r}
<1> DEFINE new == [req[r] EXCEPT !.at = "own_file", !.n = current + 1, !.seen = Blank]
<1>1. req[r] \in Stacks
  BY DEF TypeOK
<1>2. current + 1 \in Numbers
  BY PromptAssumption DEF TypeOK, Number, Numbers
<1>3. /\ new \in Stacks /\ new.at = "own_file" /\ new.n = current + 1
      /\ new.kind = req[r].kind /\ new.text = req[r].text
  <2> DEFINE next == current + 1
  <2>1. next \in 0..MaxVersion /\ Blank \in Contents
    BY <1>2, PromptAssumption DEF Numbers, Contents
  <2> HIDE DEF next
  <2> QED
    BY <1>1, <2>1 DEF Stacks, Places, next
<1>4. req' = [req EXCEPT ![r] = new] /\ quiet' = quiet \cap {r} /\ req[r].at = "number"
  BY DEF Number
<1> HIDE DEF new
<1> QED
  BY <1>2, <1>3, <1>4 DEF TypeOK

(* A publication that reads its version's text. *)
LEMMA ReadTextGoes ==
  ASSUME TypeOK, NEW r \in Request, req[r].n \in Numbers, ReadText(r)
  PROVE  /\ req' \in [Request -> Stacks]
         /\ req[r].at = "read_text" /\ req'[r].at = "file"
         /\ req'[r].kind = req[r].kind /\ req'[r].n = req[r].n
         /\ \A q \in Request \ {r} : req'[q] = req[q]
         /\ quiet' = quiet \cap {r}
<1> DEFINE found == IF file[req[r].n] = NoFile THEN Blank ELSE file[req[r].n]
           new == [req[r] EXCEPT !.at = "file", !.text = found]
<1>1. req[r] \in Stacks
  BY DEF TypeOK
<1>2. found \in Contents
  BY DEF TypeOK, Contents
<1> HIDE DEF found
<1>3. /\ new \in Stacks /\ new.at = "file"
      /\ new.kind = req[r].kind /\ new.n = req[r].n
  BY <1>1, <1>2 DEF Stacks, Places
<1>4. req' = [req EXCEPT ![r] = new] /\ quiet' = quiet \cap {r} /\ req[r].at = "read_text"
  BY DEF ReadText, found
<1> HIDE DEF new
<1> QED
  BY <1>3, <1>4 DEF TypeOK

(* The stores and stacks keep their types. *)
LEMMA StoresStep == TypeInv /\ [Next]_vars => TypeOK'
<1> SUFFICES ASSUME TypeInv, [Next]_vars PROVE TypeOK'
  OBVIOUS
<1> USE PromptAssumption DEF TypeInv, TypeOK, Numbers
<1>1. ASSUME NEW r \in Request, Draft(r) \/ Record(r) PROVE TypeOK'
  <2>1. Latest + 1 \in Numbers
    BY <1>1, LatestType DEF Draft, Record
  <2> QED
    BY <1>1, <2>1, BeginsOnly DEF Draft, Record, Kept, Kinds, Places, Contents
<1>2. ASSUME NEW r \in Request, Publish(r) PROVE TypeOK'
  BY <1>2, BeginsOnly DEF Publish, Rows, Kept, Kinds, Places, Contents
<1>3. ASSUME NEW r \in Request, Update(r) PROVE TypeOK'
  BY <1>3, BeginsOnly DEF Update, Kept, Kinds, Places, Contents
<1>4. ASSUME NEW r \in Request, Rollback(r) PROVE TypeOK'
  BY <1>4, BeginsOnly DEF Rollback, Kept, Kinds, Places, Contents
<1>5. ASSUME NEW r \in Request, Ensure(r) PROVE TypeOK'
  BY <1>5, GoesOnly DEF Ensure, Places, Stacks
<1>6. ASSUME NEW r \in Request, Number(r) PROVE TypeOK'
  BY <1>6, NumberGoes DEF Number
<1>7. ASSUME NEW r \in Request, WriteFile(r) PROVE TypeOK'
  BY <1>7, GoesOnly DEF WriteFile, Places, Stacks
<1>8. ASSUME NEW r \in Request, WritePrompt(r) PROVE TypeOK'
  BY <1>8, GoesOnly DEF WritePrompt, Places, Stacks
<1>9. ASSUME NEW r \in Request, WriteCurrent(r) PROVE TypeOK'
  BY <1>9, GoesOnly DEF WriteCurrent, Places, Stacks
<1>10. ASSUME NEW r \in Request, WriteSystem(r) PROVE TypeOK'
  BY <1>10, GoesOnly DEF WriteSystem, Places, Stacks
<1>11. ASSUME NEW r \in Request, Unpublish(r) PROVE TypeOK'
  BY <1>11, GoesOnly DEF Unpublish, Places, Stacks
<1>12. ASSUME NEW r \in Request, LookUp(r) PROVE TypeOK'
  BY <1>12, GoesOnly DEF LookUp, Places, Stacks
<1>13. ASSUME NEW r \in Request, Mark(r) PROVE TypeOK'
  BY ZenonT(40), <1>13, GoesOnly DEF Mark, Places, Stacks
<1>14. ASSUME NEW r \in Request, Insert(r) PROVE TypeOK'
  BY <1>14, GoesOnly DEF Insert, Places, Stacks
<1>15. ASSUME NEW r \in Request, Refuse(r) PROVE TypeOK'
  BY <1>15, GoesOnly DEF Refuse, Places, Stacks
<1>16. ASSUME NEW r \in Request, ReadText(r) PROVE TypeOK'
  <2>1. req[r].n \in Numbers
    BY <1>16 DEF OnPath, ReadText
  <2> QED
    BY <1>16, <2>1, ReadTextGoes DEF ReadText
<1>17. CASE UNCHANGED vars
  BY <1>17 DEF vars
<1> QED
  BY <1>1, <1>2, <1>3, <1>4, <1>5, <1>6, <1>7, <1>8, <1>9, <1>10, <1>11, <1>12, <1>13,
     <1>14, <1>15, <1>16, <1>17 DEF Next, Step

(* Each step goes on along the path of the request's kind. *)
LEMMA PathStep == TypeInv /\ [Next]_vars => OnPath'
<1> SUFFICES ASSUME TypeInv, [Next]_vars PROVE OnPath'
  OBVIOUS
<1> USE DEF TypeInv
<1> DEFINE Fine(r) ==
      /\ Path(req'[r].kind, req'[r].at)
      /\ req'[r].at \notin {"idle", "ensure", "number"} => req'[r].n \in Numbers
      /\ \A q \in Request \ {r} : req'[q] = req[q]
<1>0. ASSUME NEW r \in Request, Fine(r) PROVE OnPath'
  BY <1>0 DEF OnPath
<1>r. \A r \in Request : /\ Path(req[r].kind, req[r].at)
                         /\ req[r].at \notin {"idle", "ensure", "number"} => req[r].n \in Numbers
                         /\ req[r] \in Stacks
  BY DEF OnPath, TypeOK
<1>t. req \in [Request -> Stacks]
  BY DEF TypeOK
<1>k. Kept \in Contents
  BY DEF TypeOK, Kept
<1> USE DEF Path, Shared, Late, Own
<1>1. ASSUME NEW r \in Request, Draft(r) \/ Record(r) PROVE Fine(r)
  <2>1. Latest + 1 \in Numbers
    BY <1>1, LatestType, PromptAssumption DEF Draft, Record, Numbers
  <2> QED
    BY <1>1, <1>t, <1>k, <2>1, BeginsOnly DEF Draft, Record, Kinds, Places, Contents
<1>2. ASSUME NEW r \in Request, Publish(r) PROVE Fine(r)
  BY <1>2, <1>t, <1>k, BeginsOnly DEF Publish, Rows, Kinds, Places, Contents
<1>3. ASSUME NEW r \in Request, Update(r) PROVE Fine(r)
  <2>1. PICK t \in Text : Begins(r, "update", "ensure", 0, t)
    BY <1>3 DEF Update
  <2>2. t \in Contents /\ "update" \in Kinds /\ "ensure" \in Places /\ 0 \in Numbers \cup {0}
    BY DEF Contents, Kinds, Places
  <2>3. req'[r].kind = "update" /\ req'[r].at = "ensure" /\ \A q \in Request \ {r} : req'[q] = req[q]
    BY <1>t, <1>k, <2>1, <2>2, BeginsOnly
  <2> QED
    BY <2>3
<1>4. ASSUME NEW r \in Request, Rollback(r) PROVE Fine(r)
  BY <1>4, <1>t, <1>k, BeginsOnly DEF Rollback, Kinds, Places, Contents, TypeOK
<1>5. ASSUME NEW r \in Request, Ensure(r) PROVE Fine(r)
  BY <1>5, <1>r, <1>t, GoesOnly DEF Ensure, Places, Stacks, Kinds
<1>6. ASSUME NEW r \in Request, Number(r) PROVE Fine(r)
  BY <1>6, <1>r, <1>t, NumberGoes DEF Stacks, Kinds
<1>7. ASSUME NEW r \in Request, WriteFile(r) PROVE Fine(r)
  BY <1>7, <1>r, <1>t, GoesOnly DEF WriteFile, Places, Stacks, Kinds
<1>8. ASSUME NEW r \in Request, WritePrompt(r) PROVE Fine(r)
  BY <1>8, <1>r, <1>t, GoesOnly DEF WritePrompt, Places, Stacks, Kinds
<1>9. ASSUME NEW r \in Request, WriteCurrent(r) PROVE Fine(r)
  BY <1>9, <1>r, <1>t, GoesOnly DEF WriteCurrent, Places, Stacks, Kinds
<1>10. ASSUME NEW r \in Request, WriteSystem(r) PROVE Fine(r)
  BY <1>10, <1>r, <1>t, GoesOnly DEF WriteSystem, Places, Stacks, Kinds
<1>11. ASSUME NEW r \in Request, Unpublish(r) PROVE Fine(r)
  BY <1>11, <1>r, <1>t, GoesOnly DEF Unpublish, Places, Stacks, Kinds
<1>12. ASSUME NEW r \in Request, LookUp(r) PROVE Fine(r)
  BY <1>12, <1>r, <1>t, GoesOnly DEF LookUp, Places, Stacks, Kinds
<1>13. ASSUME NEW r \in Request, Mark(r) PROVE Fine(r)
  BY <1>13, <1>r, <1>t, GoesOnly DEF Mark, Places, Stacks, Kinds
<1>14. ASSUME NEW r \in Request, Insert(r) PROVE Fine(r)
  BY <1>14, <1>r, <1>t, GoesOnly DEF Insert, Places, Stacks, Kinds
<1>15. ASSUME NEW r \in Request, Refuse(r) PROVE Fine(r)
  BY <1>15, <1>r, <1>t, GoesOnly DEF Refuse, Places, Stacks, Kinds
<1>16. ASSUME NEW r \in Request, ReadText(r) PROVE Fine(r)
  <2>1. req[r].n \in Numbers
    BY <1>16, <1>r DEF ReadText
  <2> QED
    BY <1>16, <1>r, <2>1, ReadTextGoes DEF Stacks, Kinds
<1>17. CASE UNCHANGED vars
  BY <1>17 DEF vars, OnPath
<1> HIDE DEF Fine
<1> QED
  BY <1>0, <1>1, <1>2, <1>3, <1>4, <1>5, <1>6, <1>7, <1>8, <1>9, <1>10, <1>11, <1>12,
     <1>13, <1>14, <1>15, <1>16, <1>17 DEF Next, Step

LEMMA TypeStep == TypeInv /\ [Next]_vars => TypeInv'
BY StoresStep, PathStep DEF TypeInv

LEMMA TypeInit == Init => TypeInv
<1> SUFFICES ASSUME Init PROVE TypeInv
  OBVIOUS
<1> DEFINE first == [kind |-> "draft", at |-> "idle", n |-> 0, text |-> Blank, seen |-> Blank]
<1>1. first \in Stacks
  BY PromptAssumption DEF Stacks, Kinds, Places, Contents
<1>2. first.kind = "draft" /\ first.at = "idle"
  OBVIOUS
<1>3. req = [r \in Request |-> first]
  BY DEF Init
<1> HIDE DEF first
<1>4. req \in [Request -> Stacks] /\ OnPath
  BY <1>1, <1>2, <1>3 DEF OnPath, Path
<1>5. /\ prompt \in Contents /\ system \in Contents /\ quiet \subseteq Request
      /\ published \in BOOLEAN
  BY DEF Init
<1>6. /\ status \in [Numbers -> {"none", "DRAFT", "PUBLISHED"}]
      /\ file \in [Numbers -> Contents \cup {NoFile}]
      /\ current \in 0..MaxVersion
  BY PromptAssumption DEF Init
<1> QED
  BY <1>4, <1>5, <1>6 DEF TypeInv, TypeOK

(* The columns, files and stacks hold what they may, and every request keeps to
   the order of its handler's statements. *)
THEOREM PromptTypes == Spec => []TypeInv
BY TypeInit, TypeStep, PTL DEF Spec

(* Where requests begin: none of them has written anything yet. *)
LEMMA BeginsAt ==
  ASSUME TypeInv, NEW r \in Request,
         Draft(r) \/ Publish(r) \/ Record(r) \/ Update(r) \/ Rollback(r)
  PROVE  /\ Free(r) /\ quiet' = {r}
         /\ req'[r].at \in {"insert", "unpublish", "ensure", "own_file"}
         /\ req'[r].at = "insert" => req'[r].kind = "draft"
         /\ \A q \in Request \ {r} : req'[q] = req[q]
         /\ UNCHANGED <<status, file, prompt, current, system, published>>
<1> USE DEF TypeInv
<1>t. req \in [Request -> Stacks] /\ Kept \in Contents
  BY DEF TypeOK, Kept
<1>1. CASE Draft(r) \/ Record(r)
  <2>1. Latest + 1 \in Numbers
    BY <1>1, LatestType, PromptAssumption DEF Draft, Record, Numbers
  <2> QED
    BY <1>1, <1>t, <2>1, BeginsOnly DEF Draft, Record, Kinds, Places, Contents
<1>2. CASE Publish(r)
  BY <1>2, <1>t, BeginsOnly DEF Publish, Rows, Kinds, Places, Contents
<1>3. CASE Update(r)
  <2>1. PICK t \in Text : Begins(r, "update", "ensure", 0, t)
    BY <1>3 DEF Update
  <2>2. t \in Contents /\ UNCHANGED <<status, file, prompt, current, system, published>>
    BY <1>3 DEF Update, Contents
  <2>3. "update" \in Kinds /\ "ensure" \in Places /\ 0 \in Numbers \cup {0}
    BY DEF Kinds, Places
  <2>4. /\ Free(r) /\ quiet' = {r} /\ req'[r].at = "ensure"
        /\ \A q \in Request \ {r} : req'[q] = req[q]
    BY <1>t, <2>1, <2>2, <2>3, BeginsOnly
  <2> QED
    BY <2>2, <2>4
<1>4. CASE Rollback(r)
  BY <1>4, <1>t, BeginsOnly DEF Rollback, Kinds, Places, Contents, TypeOK
<1> QED
  BY <1>1, <1>2, <1>3, <1>4

-----------------------------------------------------------------------------
(* What current.txt names. *)

(* Rows and files are never removed. *)
LEMMA NothingGoes ==
  ASSUME TypeInv, [Next]_vars
  PROVE  /\ \A n \in Numbers : n \in Rows => n \in Rows'
         /\ \A n \in Numbers : file[n] # NoFile => file'[n] # NoFile
<1> USE DEF TypeInv, TypeOK, Rows
<1>1. ASSUME NEW r \in Request, WriteFile(r)
      PROVE  status' = status /\ \A n \in Numbers : file[n] # NoFile => file'[n] # NoFile
  <2>1. req[r] \in Stacks /\ NoFile \notin Contents
    BY PromptAssumption DEF Contents
  <2>2. req[r].text # NoFile
    BY <2>1 DEF Stacks
  <2>3. status' = status /\ file' = [file EXCEPT ![req[r].n] = req[r].text]
    BY <1>1 DEF WriteFile
  <2> QED
    BY <2>2, <2>3
<1>2. ASSUME NEW r \in Request, Unpublish(r) \/ Mark(r) \/ Insert(r)
      PROVE  file' = file /\ \A n \in Numbers : status[n] # "none" => status'[n] # "none"
  BY <1>2 DEF Unpublish, Mark, Insert
<1>3. ASSUME NEW r \in Request,
             \/ Draft(r) \/ Publish(r) \/ Record(r) \/ Update(r) \/ Rollback(r)
             \/ Ensure(r) \/ Number(r) \/ WritePrompt(r) \/ WriteCurrent(r)
             \/ WriteSystem(r) \/ LookUp(r) \/ ReadText(r) \/ Refuse(r)
      PROVE  UNCHANGED <<status, file>>
  BY <1>3 DEF Draft, Publish, Record, Update, Rollback, Ensure, Number, WritePrompt,
              WriteCurrent, WriteSystem, LookUp, ReadText, Refuse
<1>4. CASE UNCHANGED vars
  BY <1>4 DEF vars
<1> QED
  BY <1>1, <1>2, <1>3, <1>4 DEF Next, Step

(* A request that has marked or written its row has one, and past the file of its
   version the file is there. *)
BackedOf(r) ==
  /\ req[r].at \in {"read_text", "file", "prompt", "current"} => req[r].n \in Rows
  /\ req[r].at \in {"own_prompt", "own_current", "prompt", "current"} =>
       file[req[r].n] # NoFile

Backed == \A r \in Request : BackedOf(r)

LEMMA BackedStep == TypeInv /\ Backed /\ [Next]_vars => Backed'
<1> SUFFICES ASSUME TypeInv, Backed, [Next]_vars PROVE Backed'
  OBVIOUS
<1>0. ASSUME NEW r \in Request, BackedOf(r)', \A q \in Request \ {r} : req'[q] = req[q]
      PROVE  Backed'
  <2>1. ASSUME NEW q \in Request, q # r PROVE BackedOf(q)'
    <3>1. BackedOf(q) /\ req'[q] = req[q]
      BY <1>0, <2>1 DEF Backed
    <3>2. req[q].at \notin {"idle", "ensure", "number"} => req[q].n \in Numbers
      BY DEF TypeInv, OnPath
    <3> QED
      BY <3>1, <3>2, NothingGoes DEF BackedOf
  <2> QED
    BY <1>0, <2>1 DEF Backed
<1>r. \A r \in Request : /\ Path(req[r].kind, req[r].at) /\ BackedOf(r) /\ req[r] \in Stacks
                         /\ req[r].at \notin {"idle", "ensure", "number"} => req[r].n \in Numbers
  BY DEF TypeInv, OnPath, TypeOK, Backed
<1>t. /\ req \in [Request -> Stacks] /\ Kept \in Contents /\ TypeOK
      /\ NoFile \notin Contents /\ Blank \in Contents
  BY PromptAssumption DEF TypeInv, TypeOK, Kept, Contents
<1>1. ASSUME NEW r \in Request, Draft(r) \/ Record(r) \/ Publish(r) \/ Update(r) \/ Rollback(r)
      PROVE  Backed'
  <2>1. /\ req'[r].at \in {"insert", "unpublish", "ensure", "own_file"}
        /\ \A q \in Request \ {r} : req'[q] = req[q]
    BY <1>1, BeginsAt
  <2> QED
    BY <1>0, <2>1 DEF BackedOf
<1>2. ASSUME NEW r \in Request, Ensure(r) \/ LookUp(r) \/ Refuse(r) \/ WriteSystem(r)
                                \/ Unpublish(r)
      PROVE  Backed'
  <2>1. /\ req'[r].at \in {"number", "rewrite", "insert", "refused", "over", "mark", "look_up"}
        /\ \A q \in Request \ {r} : req'[q] = req[q]
    BY <1>2, <1>t, GoesOnly DEF Ensure, LookUp, Refuse, WriteSystem, Unpublish, Places
  <2> QED
    BY <1>0, <2>1 DEF BackedOf
<1>3. ASSUME NEW r \in Request, Number(r) PROVE Backed'
  <2>1. req'[r].at = "own_file" /\ \A q \in Request \ {r} : req'[q] = req[q]
    BY <1>3, <1>t, NumberGoes
  <2> QED
    BY <1>0, <2>1 DEF BackedOf
<1>4. ASSUME NEW r \in Request, WriteFile(r) PROVE Backed'
  <2>1. /\ req[r].at \in {"own_file", "file"} /\ req'[r].n = req[r].n
        /\ req'[r].at \in {"own_prompt", "over", "prompt"}
        /\ req[r].at = "own_file" => req'[r].at = "own_prompt"
        /\ \A q \in Request \ {r} : req'[q] = req[q]
    BY <1>4, <1>t, GoesOnly DEF WriteFile, Places
  <2>2. req[r].n \in Numbers /\ req[r].text \in Contents
    BY <1>r, <2>1 DEF Stacks
  <2>3. file'[req[r].n] # NoFile
    BY <1>4, <1>t, <2>2 DEF WriteFile, TypeOK
  <2>4. req'[r].at = "prompt" => req[r].n \in Rows'
    BY <1>r, <2>1, <2>2, NothingGoes DEF BackedOf
  <2> QED
    BY <1>0, <2>1, <2>3, <2>4 DEF BackedOf
<1>5. ASSUME NEW r \in Request, WritePrompt(r) \/ WriteCurrent(r) PROVE Backed'
  <2>1. /\ req'[r].n = req[r].n
        /\ \/ req[r].at = "own_prompt" /\ req'[r].at = "own_current"
           \/ req[r].at = "prompt" /\ req'[r].at = "current"
           \/ req'[r].at \in {"unpublish", "system", "over"}
        /\ \A q \in Request \ {r} : req'[q] = req[q]
    BY <1>5, <1>t, GoesOnly DEF WritePrompt, WriteCurrent, Places
  <2>2. BackedOf(r)'
    BY <1>r, <2>1, NothingGoes DEF BackedOf
  <2> QED
    BY <1>0, <2>1, <2>2
<1>6. ASSUME NEW r \in Request, Mark(r) \/ Insert(r) PROVE Backed'
  <2>1. /\ req'[r].n = req[r].n /\ req[r].at \in {"mark", "rewrite", "insert"}
        /\ req'[r].at \in {"read_text", "file"}
        /\ \A q \in Request \ {r} : req'[q] = req[q]
    BY <1>6, <1>t, GoesOnly DEF Mark, Insert, Places
  <2>2. req[r].n \in Numbers
    BY <1>r, <2>1
  <2>3. req[r].n \in Rows'
    BY <1>6, <1>t, <2>2 DEF Mark, Insert, Rows, TypeOK
  <2> QED
    BY <1>0, <2>1, <2>3 DEF BackedOf
<1>7. ASSUME NEW r \in Request, ReadText(r) PROVE Backed'
  <2>1. req[r].n \in Numbers
    BY <1>7, <1>r DEF ReadText
  <2>2. /\ req'[r].n = req[r].n /\ req[r].at = "read_text" /\ req'[r].at = "file"
        /\ \A q \in Request \ {r} : req'[q] = req[q]
    BY <1>7, <1>t, <2>1, ReadTextGoes
  <2>3. BackedOf(r)'
    BY <1>r, <2>1, <2>2, NothingGoes DEF BackedOf
  <2> QED
    BY <1>0, <2>2, <2>3
<1>8. CASE UNCHANGED vars
  BY <1>8 DEF vars, Backed, BackedOf, Rows
<1> QED
  BY <1>1, <1>2, <1>3, <1>4, <1>5, <1>6, <1>7, <1>8 DEF Next, Step

(* CurrentIsBacked is kept by every step: the request that moves on from between
   its files and its row finds the row or inserts it. *)
LEMMA CurrentStep == TypeInv /\ Backed /\ CurrentIsBacked /\ [Next]_vars => CurrentIsBacked'
<1> SUFFICES ASSUME TypeInv, Backed, CurrentIsBacked, [Next]_vars, current' # 0
             PROVE  CurrentIsBacked'
  BY DEF CurrentIsBacked
<1> DEFINE Brings(r) == /\ req[r].n = current
                        /\ req[r].kind \in {"update", "rollback"}
                        /\ req[r].at \in {"unpublish", "look_up", "insert"}
<1>t. req \in [Request -> Stacks] /\ TypeOK
  BY DEF TypeInv, TypeOK
<1>r. \A r \in Request : /\ Path(req[r].kind, req[r].at) /\ BackedOf(r)
                         /\ req[r].at \notin {"idle", "ensure", "number"} => req[r].n \in Numbers
                         /\ req[r].kind \in Kinds
  BY DEF TypeInv, OnPath, TypeOK, Backed, Stacks
<1>1. ASSUME NEW r \in Request, WriteCurrent(r) PROVE CurrentIsBacked'
  <2>1. /\ req[r].at \in {"own_current", "current"} /\ current' = req[r].n
        /\ req'[r].n = req[r].n /\ req'[r].kind = req[r].kind
        /\ req[r].at = "own_current" => req'[r].at = "unpublish"
    BY <1>1, <1>t, GoesOnly DEF WriteCurrent, Places
  <2>2. req[r].n \in Numbers /\ file'[req[r].n] # NoFile
    BY <1>r, <2>1, NothingGoes DEF BackedOf
  <2>3. CASE req[r].at = "current"
    <3>1. req[r].n \in Rows'
      BY <1>r, <2>1, <2>2, <2>3, NothingGoes DEF BackedOf
    <3> QED
      BY <2>1, <2>2, <3>1 DEF CurrentIsBacked
  <2>4. CASE req[r].at = "own_current"
    <3>1. req[r].kind \in {"update", "rollback"}
      BY <1>r, <2>4 DEF Path, Shared, Late, Kinds
    <3> QED
      BY <2>1, <2>2, <2>4, <3>1 DEF CurrentIsBacked
  <2> QED
    BY <2>1, <2>3, <2>4
<1>2. ASSUME current' = current PROVE /\ file'[current'] # NoFile
                                      /\ current' \in Rows => current' \in Rows'
                                      /\ ~ (current' \in Rows) => \E r \in Request : Brings(r)
  <2>1. current \in Numbers
    BY <1>2, PromptAssumption DEF TypeInv, TypeOK, Numbers
  <2> QED
    BY <1>2, <2>1, NothingGoes DEF CurrentIsBacked
<1>3. ASSUME current' = current, NEW q \in Request, req'[q] = req[q], Brings(q)
      PROVE  CurrentIsBacked'
  BY <1>2, <1>3 DEF CurrentIsBacked
<1>4. ASSUME current' = current, current \in Rows PROVE CurrentIsBacked'
  BY <1>2, <1>4 DEF CurrentIsBacked
<1>5. ASSUME NEW r \in Request, current' = current,
             \A q \in Request \ {r} : req'[q] = req[q],
             Brings(r) => current' \in Rows' \/ Brings(r)'
      PROVE  CurrentIsBacked'
  <2>1. CASE current \in Rows
    BY <1>4, <1>5, <2>1
  <2>2. ASSUME NEW q \in Request, Brings(q), q # r PROVE CurrentIsBacked'
    BY <1>3, <1>5, <2>2
  <2>3. CASE Brings(r)
    BY <1>2, <1>5, <2>3 DEF CurrentIsBacked
  <2> QED
    BY <1>2, <1>5, <2>1, <2>2, <2>3
<1>6. ASSUME NEW r \in Request, Draft(r) \/ Publish(r) \/ Record(r) \/ Update(r) \/ Rollback(r)
      PROVE  CurrentIsBacked'
  BY <1>5, <1>6, BeginsAt DEF Free
<1>7. ASSUME NEW r \in Request, Ensure(r) \/ WriteFile(r) \/ WritePrompt(r) \/ WriteSystem(r)
                                \/ Mark(r)
      PROVE  CurrentIsBacked'
  <2>1. /\ req[r].at \in {"ensure", "own_file", "file", "own_prompt", "prompt", "system",
                          "mark", "rewrite"}
        /\ \A q \in Request \ {r} : req'[q] = req[q]
        /\ current' = current
    BY <1>7, <1>t, GoesOnly DEF Ensure, WriteFile, WritePrompt, WriteSystem, Mark, Places
  <2> QED
    BY <1>5, <2>1
<1>8. ASSUME NEW r \in Request, Number(r) PROVE CurrentIsBacked'
  <2>1. /\ req[r].at = "number" /\ current' = current
        /\ \A q \in Request \ {r} : req'[q] = req[q]
    BY <1>8, <1>t, NumberGoes DEF Number
  <2> QED
    BY <1>5, <2>1
<1>9. ASSUME NEW r \in Request, ReadText(r) PROVE CurrentIsBacked'
  <2>1. req[r].n \in Numbers
    BY <1>9, <1>r DEF ReadText
  <2>2. /\ req[r].at = "read_text" /\ current' = current
        /\ \A q \in Request \ {r} : req'[q] = req[q]
    BY <1>9, <1>t, <2>1, ReadTextGoes DEF ReadText
  <2> QED
    BY <1>5, <2>2
<1>10. ASSUME NEW r \in Request, Unpublish(r) PROVE CurrentIsBacked'
  <2>1. /\ req'[r].at = IF req[r].kind = "publish" THEN "mark" ELSE "look_up"
        /\ req'[r].n = req[r].n /\ req'[r].kind = req[r].kind /\ current' = current
        /\ \A q \in Request \ {r} : req'[q] = req[q]
    BY <1>10, <1>t, GoesOnly DEF Unpublish, Places
  <2> QED
    BY <1>5, <2>1
<1>11. ASSUME NEW r \in Request, LookUp(r) PROVE CurrentIsBacked'
  <2>1. /\ req'[r].at = IF req[r].n \in Rows THEN "rewrite" ELSE "insert"
        /\ req'[r].n = req[r].n /\ req'[r].kind = req[r].kind /\ current' = current
        /\ \A q \in Request \ {r} : req'[q] = req[q]
    BY <1>11, <1>t, GoesOnly DEF LookUp, Places
  <2>2. CASE current \in Rows
    BY <1>4, <2>1, <2>2
  <2>3. CASE ~ (current \in Rows)
    BY <1>5, <2>1, <2>3
  <2> QED
    BY <2>2, <2>3
<1>12. ASSUME NEW r \in Request, Insert(r) PROVE CurrentIsBacked'
  <2>1. /\ req[r].at = "insert" /\ current' = current
        /\ \A q \in Request \ {r} : req'[q] = req[q]
    BY <1>12, <1>t, GoesOnly DEF Insert, Places
  <2>2. req[r].n \in Rows'
    BY <1>12, <1>r, <1>t, <2>1 DEF Insert, Rows, TypeOK
  <2> QED
    BY <1>5, <2>1, <2>2
<1>13. ASSUME NEW r \in Request, Refuse(r) PROVE CurrentIsBacked'
  <2>1. /\ req[r].n \in Rows /\ current' = current
        /\ \A q \in Request \ {r} : req'[q] = req[q]
    BY <1>13, <1>t, GoesOnly DEF Refuse, Places
  <2>2. CASE current \in Rows
    BY <1>4, <2>1, <2>2
  <2>3. CASE ~ (current \in Rows)
    BY <1>5, <2>1, <2>3
  <2> QED
    BY <2>2, <2>3
<1>14. CASE UNCHANGED vars
  BY <1>14 DEF vars, CurrentIsBacked, Rows
<1> QED
  BY <1>1, <1>6, <1>7, <1>8, <1>9, <1>10, <1>11, <1>12, <1>13, <1>14 DEF Next, Step

(* Requests in any number, interleaved between any two of their statements and
   files and left off anywhere, leave current.txt naming a version whose text is
   there and which has its row or a request about to write it. *)
THEOREM CurrentStaysBacked == Spec => []CurrentIsBacked
<1>1. Init => TypeInv /\ Backed /\ CurrentIsBacked
  <2>1. Init => Backed /\ CurrentIsBacked
    BY DEF Init, Backed, BackedOf, CurrentIsBacked
  <2> QED
    BY <2>1, TypeInit
<1>2. TypeInv /\ Backed /\ CurrentIsBacked /\ [Next]_vars =>
        TypeInv' /\ Backed' /\ CurrentIsBacked'
  BY TypeStep, BackedStep, CurrentStep
<1> QED
  BY <1>1, <1>2, PTL DEF Spec

-----------------------------------------------------------------------------
(* What stays published. *)

(* A step that publishes leaves its version published; only the statement that
   unpublishes takes any away. *)
LEMMA PublishedAfter ==
  ASSUME TypeInv, NEW r \in Request, req[r].n \in Numbers
  PROVE  /\ Unpublish(r) => Published' = {}
         /\ Mark(r) => Published' = Published \cup {req[r].n}
         /\ Insert(r) => Published' = IF req[r].kind = "draft" THEN Published
                                      ELSE Published \cup {req[r].n}
<1> USE DEF TypeInv, TypeOK, Published
<1>1. Unpublish(r) => Published' = {}
  BY DEF Unpublish
<1>2. Mark(r) => Published' = Published \cup {req[r].n}
  BY DEF Mark
<1>3. Insert(r) => Published' = IF req[r].kind = "draft" THEN Published
                                ELSE Published \cup {req[r].n}
  BY DEF Insert, Rows
<1> QED
  BY <1>1, <1>2, <1>3

LEMMA SomeVersionStep ==
  TypeInv /\ SomeVersionStaysPublished /\ [Next]_vars => SomeVersionStaysPublished'
<1> DEFINE Between(q) ==
      /\ req[q].kind # "draft"
      /\ req[q].at \in {"mark", "look_up", "rewrite", "insert", "refused"}
<1> SUFFICES ASSUME TypeInv, SomeVersionStaysPublished, [Next]_vars, published',
                    Published' = {}
             PROVE  \E q \in Request : Between(q)'
  BY DEF SomeVersionStaysPublished
<1>t. req \in [Request -> Stacks] /\ TypeOK
  BY DEF TypeInv, TypeOK
<1>r. \A r \in Request : /\ Path(req[r].kind, req[r].at)
                         /\ req[r].at \notin {"idle", "ensure", "number"} => req[r].n \in Numbers
                         /\ req[r].kind \in Kinds
  BY DEF TypeInv, OnPath, TypeOK, Stacks
<1>0. ASSUME NEW r \in Request, published' = published, Published' = Published,
             Between(r) => Between(r)', \A q \in Request \ {r} : req'[q] = req[q]
      PROVE  \E q \in Request : Between(q)'
  <2>1. PICK q \in Request : Between(q)
    BY <1>0 DEF SomeVersionStaysPublished
  <2> QED
    BY <1>0, <2>1
<1>1. ASSUME NEW r \in Request, Draft(r) \/ Publish(r) \/ Record(r) \/ Update(r) \/ Rollback(r)
      PROVE  \E q \in Request : Between(q)'
  <2>1. /\ req[r].at \in {"idle", "over"} /\ status' = status /\ published' = published
        /\ \A q \in Request \ {r} : req'[q] = req[q]
    BY <1>1, BeginsAt DEF Free
  <2> QED
    BY <1>0, <2>1 DEF Published
<1>2. ASSUME NEW r \in Request, Ensure(r) \/ WriteFile(r) \/ WritePrompt(r) \/ WriteCurrent(r)
                                \/ WriteSystem(r)
      PROVE  \E q \in Request : Between(q)'
  <2>1. /\ req[r].at \in {"ensure", "own_file", "file", "own_prompt", "prompt", "own_current",
                          "current", "system"}
        /\ \A q \in Request \ {r} : req'[q] = req[q]
        /\ status' = status /\ published' = published
    BY <1>2, <1>t, GoesOnly DEF Ensure, WriteFile, WritePrompt, WriteCurrent, WriteSystem, Places
  <2> QED
    BY <1>0, <2>1 DEF Published
<1>3. ASSUME NEW r \in Request, LookUp(r) \/ Refuse(r)
      PROVE  \E q \in Request : Between(q)'
  <2>1. /\ req'[r].at \in {"rewrite", "insert", "refused"} /\ req'[r].kind = req[r].kind
        /\ \A q \in Request \ {r} : req'[q] = req[q]
        /\ status' = status /\ published' = published
    BY <1>3, <1>t, GoesOnly DEF LookUp, Refuse, Places
  <2> QED
    BY <1>0, <2>1 DEF Published
<1>4. ASSUME NEW r \in Request, Number(r) PROVE \E q \in Request : Between(q)'
  <2>1. /\ req[r].at = "number" /\ status' = status /\ published' = published
        /\ \A q \in Request \ {r} : req'[q] = req[q]
    BY <1>4, <1>t, NumberGoes DEF Number
  <2> QED
    BY <1>0, <2>1 DEF Published
<1>5. ASSUME NEW r \in Request, ReadText(r) PROVE \E q \in Request : Between(q)'
  <2>1. req[r].n \in Numbers
    BY <1>5, <1>r DEF ReadText
  <2>2. /\ req[r].at = "read_text" /\ status' = status /\ published' = published
        /\ \A q \in Request \ {r} : req'[q] = req[q]
    BY <1>5, <1>t, <2>1, ReadTextGoes DEF ReadText
  <2> QED
    BY <1>0, <2>2 DEF Published
<1>6. ASSUME NEW r \in Request, Unpublish(r) PROVE \E q \in Request : Between(q)'
  <2>1. /\ req[r].at = "unpublish" /\ req'[r].at \in {"mark", "look_up"}
        /\ req'[r].kind = req[r].kind
    BY <1>6, <1>t, GoesOnly DEF Unpublish, Places
  <2>2. req[r].kind # "draft"
    BY <1>r, <2>1 DEF Path
  <2> QED
    BY <2>1, <2>2
<1>7. ASSUME NEW r \in Request, Mark(r) PROVE FALSE
  <2>1. req[r].n \in Numbers
    BY <1>r, <1>7 DEF Mark, Goes
  <2> QED
    BY <1>7, <2>1, PublishedAfter
<1>8. ASSUME NEW r \in Request, Insert(r) PROVE \E q \in Request : Between(q)'
  <2>1. req[r].n \in Numbers
    BY <1>r, <1>8 DEF Insert, Goes
  <2>2. req[r].kind = "draft" /\ Published' = Published
    BY <1>8, <2>1, PublishedAfter
  <2>3. published' = published
    BY <1>8, <1>t, <2>2 DEF Insert, TypeOK
  <2>4. \A q \in Request \ {r} : req'[q] = req[q]
    BY <1>8, <1>t, GoesOnly DEF Insert, Places
  <2> QED
    BY <1>0, <2>2, <2>3, <2>4
<1>9. CASE UNCHANGED vars
  BY <1>9 DEF vars, SomeVersionStaysPublished, Published
<1> QED
  BY <1>1, <1>2, <1>3, <1>4, <1>5, <1>6, <1>7, <1>8, <1>9 DEF Next, Step

(* Publications, updates, rollbacks and records that unpublish each other's
   versions in any order leave the prompt without a published one only while one
   of them is between its statements, or was refused or left off there. *)
THEOREM VersionStaysPublished == Spec => []SomeVersionStaysPublished
<1>1. Init => TypeInv /\ SomeVersionStaysPublished
  BY TypeInit DEF Init, SomeVersionStaysPublished
<1>2. TypeInv /\ SomeVersionStaysPublished /\ [Next]_vars =>
        TypeInv' /\ SomeVersionStaysPublished'
  BY TypeStep, SomeVersionStep
<1> QED
  BY <1>1, <1>2, PTL DEF Spec

-----------------------------------------------------------------------------
(* A publication that meets no other. *)

(* How far the stores agree while such a request goes on: with nothing published
   until its row is marked, with its version alone after it, and then file by
   file, whatever they held when it began. *)
QuietOf(r) ==
  /\ req[r].at \in {"mark", "look_up", "rewrite", "insert"} => Published = {}
  /\ req[r].at \in {"read_text", "file", "prompt", "current", "system", "over"} =>
       Published = {req[r].n}
  /\ req[r].at \in {"prompt", "current", "system", "over"} => file[req[r].n] = req[r].text
  /\ req[r].at \in {"current", "system", "over"} => prompt = req[r].text
  /\ req[r].at \in {"system", "over"} => current = req[r].n
  /\ req[r].at = "over" /\ req[r].kind \in {"update", "rollback"} => system = req[r].text

QuietInv == \A r \in quiet : req[r].kind # "draft" => QuietOf(r)

LEMMA QuietStep == TypeInv /\ QuietInv /\ [Next]_vars => QuietInv'
<1> SUFFICES ASSUME TypeInv, QuietInv, [Next]_vars PROVE QuietInv'
  OBVIOUS
<1>t. /\ req \in [Request -> Stacks] /\ TypeOK
  BY DEF TypeInv, TypeOK
<1>r. \A r \in Request : /\ Path(req[r].kind, req[r].at)
                         /\ req[r].at \notin {"idle", "ensure", "number"} => req[r].n \in Numbers
                         /\ req[r].kind \in Kinds
  BY DEF TypeInv, OnPath, TypeOK, Stacks
<1> DEFINE Same(r) == /\ req'[r].kind = req[r].kind /\ req'[r].n = req[r].n
                      /\ req'[r].text = req[r].text
                      /\ quiet' = quiet \cap {r}
<1>0. ASSUME NEW r \in Request, quiet' = quiet \cap {r}, req'[r].kind = req[r].kind,
             req[r].kind # "draft" /\ QuietOf(r) => QuietOf(r)'
      PROVE  QuietInv'
  BY <1>0 DEF QuietInv
<1>1. ASSUME NEW r \in Request, Draft(r) \/ Publish(r) \/ Record(r) \/ Update(r) \/ Rollback(r)
      PROVE  QuietInv'
  <2>1. /\ quiet' = {r} /\ req'[r].at \in {"insert", "unpublish", "ensure", "own_file"}
        /\ req'[r].at = "insert" => req'[r].kind = "draft"
    BY <1>1, BeginsAt
  <2> QED
    BY <2>1 DEF QuietInv, QuietOf
<1>2. ASSUME NEW r \in Request, Ensure(r) PROVE QuietInv'
  <2>1. Same(r) /\ req'[r].at = "number"
    BY <1>2, <1>t, GoesOnly DEF Ensure, Places
  <2> QED
    BY <1>0, <2>1 DEF QuietOf
<1>3. ASSUME NEW r \in Request, Number(r) PROVE QuietInv'
  <2>1. /\ req'[r].kind = req[r].kind /\ quiet' = quiet \cap {r} /\ req'[r].at = "own_file"
    BY <1>3, <1>t, NumberGoes
  <2> QED
    BY <1>0, <2>1 DEF QuietOf
<1>4. ASSUME NEW r \in Request, WriteFile(r) PROVE QuietInv'
  <2>1. /\ Same(r) /\ req[r].at \in {"own_file", "file"}
        /\ \/ req'[r].at = "own_prompt"
           \/ req[r].at = "file" /\ req'[r].at = IF req[r].kind = "draft" THEN "over" ELSE "prompt"
    BY <1>4, <1>t, GoesOnly DEF WriteFile, Places
  <2>2. req[r].n \in Numbers
    BY <1>r, <2>1
  <2>3. file'[req[r].n] = req[r].text /\ Published' = Published
    BY <1>4, <1>t, <2>2 DEF WriteFile, TypeOK, Published
  <2> QED
    BY <1>0, <2>1, <2>3 DEF QuietOf
<1>5. ASSUME NEW r \in Request, WritePrompt(r) PROVE QuietInv'
  <2>1. /\ Same(r)
        /\ \/ req'[r].at = "own_current"
           \/ req[r].at = "prompt" /\ req'[r].at = "current"
    BY <1>5, <1>t, GoesOnly DEF WritePrompt, Places
  <2>2. prompt' = req[r].text /\ file' = file /\ Published' = Published
    BY <1>5 DEF WritePrompt, Published
  <2> QED
    BY <1>0, <2>1, <2>2 DEF QuietOf
<1>6. ASSUME NEW r \in Request, WriteCurrent(r) PROVE QuietInv'
  <2>1. /\ Same(r)
        /\ \/ req'[r].at = "unpublish"
           \/ /\ req[r].at = "current"
              /\ req'[r].at = IF req[r].kind \in {"update", "rollback"} THEN "system" ELSE "over"
    BY <1>6, <1>t, GoesOnly DEF WriteCurrent, Places
  <2>2. current' = req[r].n /\ prompt' = prompt /\ file' = file /\ Published' = Published
    BY <1>6 DEF WriteCurrent, Published
  <2> QED
    BY <1>0, <2>1, <2>2 DEF QuietOf
<1>7. ASSUME NEW r \in Request, WriteSystem(r) PROVE QuietInv'
  <2>1. Same(r) /\ req[r].at = "system" /\ req'[r].at = "over"
    BY <1>7, <1>t, GoesOnly DEF WriteSystem, Places
  <2>2. /\ system' = req[r].text /\ current' = current /\ prompt' = prompt /\ file' = file
        /\ Published' = Published
    BY <1>7 DEF WriteSystem, Published
  <2> QED
    BY <1>0, <2>1, <2>2 DEF QuietOf
<1>8. ASSUME NEW r \in Request, Unpublish(r) PROVE QuietInv'
  <2>1. Same(r) /\ req[r].at = "unpublish" /\ req'[r].at \in {"mark", "look_up"}
    BY <1>8, <1>t, GoesOnly DEF Unpublish, Places
  <2>2. req[r].n \in Numbers
    BY <1>r, <2>1
  <2>3. Published' = {}
    BY <1>8, <2>2, PublishedAfter
  <2> QED
    BY <1>0, <2>1, <2>3 DEF QuietOf
<1>9. ASSUME NEW r \in Request, LookUp(r) PROVE QuietInv'
  <2>1. Same(r) /\ req[r].at = "look_up" /\ req'[r].at \in {"rewrite", "insert"}
    BY <1>9, <1>t, GoesOnly DEF LookUp, Places
  <2>2. Published' = Published
    BY <1>9 DEF LookUp, Published
  <2> QED
    BY <1>0, <2>1, <2>2 DEF QuietOf
<1>10. ASSUME NEW r \in Request, Mark(r) PROVE QuietInv'
  <2>1. /\ Same(r) /\ req[r].at \in {"mark", "rewrite"} /\ req'[r].at \in {"read_text", "file"}
    BY <1>10, <1>t, GoesOnly DEF Mark, Places
  <2>2. req[r].n \in Numbers
    BY <1>r, <2>1
  <2>3. Published' = Published \cup {req[r].n}
    BY <1>10, <2>2, PublishedAfter
  <2> QED
    BY <1>0, <2>1, <2>3 DEF QuietOf
<1>11. ASSUME NEW r \in Request, Insert(r) PROVE QuietInv'
  <2>1. /\ Same(r) /\ req[r].at = "insert" /\ req'[r].at = "file"
    BY <1>11, <1>t, GoesOnly DEF Insert, Places
  <2>2. req[r].n \in Numbers
    BY <1>r, <2>1
  <2>3. Published' = IF req[r].kind = "draft" THEN Published ELSE Published \cup {req[r].n}
    BY <1>11, <2>2, PublishedAfter
  <2> QED
    BY <1>0, <2>1, <2>3 DEF QuietOf
<1>12. ASSUME NEW r \in Request, Refuse(r) PROVE QuietInv'
  <2>1. Same(r) /\ req'[r].at = "refused"
    BY <1>12, <1>t, GoesOnly DEF Refuse, Places
  <2> QED
    BY <1>0, <2>1 DEF QuietOf
<1>13. ASSUME NEW r \in Request, ReadText(r) PROVE QuietInv'
  <2>1. req[r].n \in Numbers
    BY <1>13, <1>r DEF ReadText
  <2>2. /\ req[r].at = "read_text" /\ req'[r].at = "file" /\ req'[r].n = req[r].n
        /\ req'[r].kind = req[r].kind /\ quiet' = quiet \cap {r}
    BY <1>13, <1>t, <2>1, ReadTextGoes
  <2>3. Published' = Published
    BY <1>13 DEF ReadText, Published
  <2> QED
    BY <1>0, <2>2, <2>3 DEF QuietOf
<1>14. CASE UNCHANGED vars
  BY <1>14 DEF vars, QuietInv, QuietOf, Published
<1> QED
  BY <1>1, <1>2, <1>3, <1>4, <1>5, <1>6, <1>7, <1>8, <1>9, <1>10, <1>11, <1>12, <1>13, <1>14
     DEF Next, Step

(* A publication, record, update or rollback during which no other request takes
   a step brings all the stores together, whatever half-written state earlier
   requests, overlapping or cut short, left them in. *)
THEOREM QuietPublicationStands == Spec => []QuietPublishStands
<1>1. Init => TypeInv /\ QuietInv
  BY TypeInit DEF Init, QuietInv
<1>2. TypeInv /\ QuietInv /\ [Next]_vars => TypeInv' /\ QuietInv'
  BY TypeStep, QuietStep
<1>3. QuietInv => QuietPublishStands
  BY DEF QuietInv, QuietOf, QuietPublishStands
<1> QED
  BY <1>1, <1>2, <1>3, PTL DEF Spec

=============================================================================
