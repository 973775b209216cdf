---------------------------- MODULE StudioEditor ----------------------------
(***************************************************************************)
(* The Test Automation Studio in one browser tab: the list of saved tests, *)
(* the builder a test is edited in, and the server that validates what the *)
(* builder sends.                                                          *)
(*                                                                         *)
(* A definition is what the validator asks about: whether it has a step,   *)
(* the variables its steps and assertions refer to, those it declares.     *)
(* Answers to requests arrive in any order, also after the page they were  *)
(* asked from has gone, and other tabs save the same tests.                *)
(***************************************************************************)
EXTENDS Naturals, FiniteSets

CONSTANTS
    SavedIds,      \* ids of saved tests, those of new ones included
    Names,         \* what a test may be called
    Variables,     \* names of variables
    SaveAs,        \* the statuses the user saves with, some of DRAFT and ACTIVE
    MaxOpen,       \* requests that may be open at once
    MaxVersion     \* no test is saved beyond this version

VARIABLES
    savedTest,     \* per id: absent, or the row of the test
    listing,       \* per id: its row as the list shows it, or absent
    building,      \* what the builder was opened on
    draft,         \* the form of the mounted builder
    requests       \* requests that are not answered, and answers under way

seVars == <<savedTest, listing, building, draft, requests>>

Undefined == "none"

-----------------------------------------------------------------------------
(* Definitions.                                                            *)
emptyDefinition == [refs |-> {}, hasStep |-> FALSE, variables |-> {}]

Definitions == [refs : SUBSET Variables, hasStep : BOOLEAN, variables : SUBSET Variables]

validateDefinition(d) == d.hasStep /\ d.refs \subseteq d.variables

NoTest == [status |-> "absent", version |-> 0, name |-> "", definition |-> emptyDefinition]
\* A builder is open on a test, or on none; no builder is.
OpenOn(i, row, loading) == [open |-> TRUE, id |-> i, row |-> row, loading |-> loading]
Closed == [open |-> FALSE, id |-> Undefined, row |-> NoTest, loading |-> FALSE]
Form(n, d) == [mounted |-> TRUE, name |-> n, definition |-> d]
NoForm == [mounted |-> FALSE, name |-> "", definition |-> emptyDefinition]
emptyForm == Form("", emptyDefinition)

-----------------------------------------------------------------------------
(* The server.                                                             *)
Created(p) == [status |-> "DRAFT", version |-> 1, name |-> p.name, definition |-> p.definition]
createStudioTest(p) == validateDefinition(p.definition) /\ p.name # ""

\* The version moves only when the definition does.
Updated(row, p) ==
    [status |-> p.status, name |-> p.name, definition |-> p.definition,
     version |-> IF p.definition = row.definition THEN row.version ELSE row.version + 1]

\* Mutated updateStudioTest: the version that was loaded is not compared.
updateWithoutCheck(row, p) ==
    /\ row.status \in {"DRAFT", "ACTIVE"}
    /\ p.name # "" /\ validateDefinition(p.definition)

updateStudioTest(row, p) ==
    /\ row.status \in {"DRAFT", "ACTIVE"}
    /\ p.row.version = row.version
    /\ p.name # "" /\ validateDefinition(p.definition)

-----------------------------------------------------------------------------
(* The list.                                                               *)
MaySend == Cardinality(requests) < MaxOpen
Send(r) == MaySend /\ requests' = requests \cup {r}

loadTests ==
    /\ ~building.open
    /\ Send([kind |-> "list", rows |-> savedTest])
    /\ UNCHANGED <<savedTest, listing, building, draft>>

listArrives(r) ==
    /\ r \in requests /\ r.kind = "list"
    /\ listing' = r.rows /\ requests' = requests \ {r}
    /\ UNCHANGED <<savedTest, building, draft>>

\* New test: a builder on nothing.
newTest ==
    /\ ~building.open
    /\ building' = OpenOn(Undefined, NoTest, FALSE)
    /\ draft' = emptyForm
    /\ UNCHANGED <<savedTest, listing, requests>>

\* Edit asks for the definition and shows that it is loading.
editTest(i) ==
    /\ ~building.open /\ listing[i] # NoTest
    /\ building' = OpenOn(i, listing[i], TRUE)
    /\ Send([kind |-> "definition", id |-> i, row |-> listing[i], answer |-> savedTest[i].definition])
    /\ UNCHANGED <<savedTest, listing, draft>>

\* The answer is taken wherever the page is by then.  A builder that is
\* mounted stays mounted, and keeps its form.
definitionArrives(r) ==
    /\ r \in requests /\ r.kind = "definition" /\ requests' = requests \ {r}
    /\ building' = OpenOn(r.id, r.row, FALSE)
    /\ draft' = IF draft.mounted THEN draft
                ELSE Form(r.row.name, r.answer)
    /\ UNCHANGED <<savedTest, listing>>

\* Without a definition the builder is one for a new test.
definitionFails(r) ==
    /\ r \in requests /\ r.kind = "definition" /\ requests' = requests \ {r}
    /\ building' = OpenOn(Undefined, NoTest, FALSE)
    /\ draft' = IF draft.mounted THEN draft
                ELSE emptyForm
    /\ UNCHANGED <<savedTest, listing>>

backToList ==
    /\ building.open /\ building' = Closed /\ draft' = NoForm
    /\ UNCHANGED <<savedTest, listing, requests>>

-----------------------------------------------------------------------------
(* The form.                                                               *)
Drafted(d) ==
    /\ draft.mounted /\ d \in Definitions
    /\ draft' = [draft EXCEPT !.definition = d]
    /\ UNCHANGED <<savedTest, listing, building, requests>>

setName(n) ==
    /\ draft.mounted /\ draft' = [draft EXCEPT !.name = n]
    /\ UNCHANGED <<savedTest, listing, building, requests>>

\* Adding, changing and removing steps and assertions; the first step added
\* opens a page.
changeSteps(refs, any) == Drafted([draft.definition EXCEPT !.refs = refs, !.hasStep = any])
changeAssertions(refs) == Drafted([draft.definition EXCEPT !.refs = refs])
changeVariables(vs) == Drafted([draft.definition EXCEPT !.variables = vs])

\* A template is copied into the draft of a new test.
useTemplate(n, d) ==
    /\ building.open /\ building.id = Undefined /\ draft.mounted
    /\ validateDefinition(d) /\ d.variables = {}
    /\ draft' = [draft EXCEPT !.name = n, !.definition = d]
    /\ UNCHANGED <<savedTest, listing, building, requests>>

-----------------------------------------------------------------------------
(* Saving.                                                                 *)
Saving == \E r \in requests : r.kind = "save"

\* PATCH for the test the builder is on, with the version of its list row;
\* POST for a new one.
save(status) ==
    /\ draft.mounted /\ ~building.loading /\ ~Saving /\ draft.name # ""
    /\ building.row.version < MaxVersion
    /\ Send([kind |-> "save", target |-> building.id, row |-> building.row,
             name |-> draft.name, definition |-> draft.definition, status |-> status])
    /\ UNCHANGED <<savedTest, listing, building, draft>>

\* onSaved closes whatever builder is open by then.
patchSucceeds(r) ==
    /\ r \in requests /\ r.kind = "save" /\ r.target # Undefined
    /\ updateStudioTest(savedTest[r.target], r)
    /\ savedTest' = [savedTest EXCEPT ![r.target] = Updated(@, r)]
    /\ requests' = requests \ {r} /\ building' = Closed /\ draft' = NoForm
    /\ UNCHANGED listing

\* Created as a draft, then activated on demand; the second request may fail,
\* and leaves the builder one for a new test.
postSucceeds(r, i, activated) ==
    /\ r \in requests /\ r.kind = "save" /\ r.target = Undefined
    /\ createStudioTest(r) /\ savedTest[i] = NoTest
    /\ savedTest' = [savedTest EXCEPT ![i] =
                        [Created(r) EXCEPT !.status = IF activated THEN r.status ELSE "DRAFT"]]
    /\ requests' = requests \ {r}
    /\ IF activated THEN building' = Closed /\ draft' = NoForm ELSE UNCHANGED <<building, draft>>
    /\ UNCHANGED listing

\* Another tab saves the test it loaded.
SavedElsewhere(i, d) ==
    /\ savedTest[i] # NoTest /\ savedTest[i].version < MaxVersion
    /\ validateDefinition(d) /\ d # savedTest[i].definition
    /\ savedTest' = [savedTest EXCEPT ![i].definition = d, ![i].version = @ + 1]
    /\ UNCHANGED <<listing, building, draft, requests>>

saveFails(r) ==
    /\ r \in requests /\ r.kind = "save" /\ requests' = requests \ {r}
    /\ UNCHANGED <<savedTest, listing, building, draft>>

StudioInit ==
    /\ savedTest \in [SavedIds -> {NoTest} \cup
            {[NoTest EXCEPT !.status = "ACTIVE", !.version = 1, !.name = n,
                            !.definition = [emptyDefinition EXCEPT !.hasStep = TRUE]] : n \in Names}]
    /\ listing = savedTest /\ building = Closed /\ draft = NoForm /\ requests = {}

StudioNext ==
    \/ loadTests \/ newTest \/ backToList
    \/ \E i \in SavedIds : editTest(i)
    \/ \E r \in requests : listArrives(r) \/ definitionArrives(r) \/ definitionFails(r)
                           \/ patchSucceeds(r) \/ saveFails(r)
    \/ \E r \in requests, i \in SavedIds, a \in BOOLEAN : postSucceeds(r, i, a)
    \/ \E i \in SavedIds, d \in Definitions : SavedElsewhere(i, d)
    \/ \E n \in Names : setName(n)
    \/ \E refs \in SUBSET Variables, any \in BOOLEAN : changeSteps(refs, any)
    \/ \E refs \in SUBSET Variables : changeAssertions(refs)
    \/ \E vs \in SUBSET Variables : changeVariables(vs)
    \/ \E n \in Names, d \in Definitions : useTemplate(n, d)
    \/ \E s \in SaveAs : save(s)

StudioSpec == StudioInit /\ [][StudioNext]_seVars

-----------------------------------------------------------------------------
\* "editors send the version they loaded; a mismatch means someone else saved
\* first" (src/lib/testing/studio-service.ts:154): a save that is accepted
\* replaces the definition of the row the builder was opened on, whoever saved
\* meanwhile and however late the answers were.
SavesAreSeen ==
    [][\A i \in SavedIds :
          (savedTest[i] # NoTest /\ savedTest'[i] # savedTest[i]) =>
              requests' = requests \/
              \E r \in requests \ requests' : r.target = i /\ r.row.definition = savedTest[i].definition]_seVars
=============================================================================
