---------------------------- MODULE ScenarioStudio ----------------------------
(***************************************************************************)
(* The scenario library and the studio that edits one scenario, against an *)
(* API that other users write to: components/scenario/studio.tsx, the      *)
(* pages under app/scenarios, hooks/use-scenarios.ts, use-debounced.ts and *)
(* components/runs/run-scenario-dialog.tsx, with create_scenario of the    *)
(* API.                                                                    *)
(*                                                                         *)
(* A document is its name and a body; what the form does to a body is      *)
(* ScenarioComposer's.  Answers of the API may come at any later moment,   *)
(* when the user has gone on editing or to another page.                   *)
(***************************************************************************)
EXTENDS Integers, Sequences

CONSTANTS
  Names,       \* of scenarios
  Bodies,
  Carried,     \* the body a body is read into by the form, [Bodies -> Bodies]
  Target,      \* adapter a body asks for, [Bodies -> adapters]
  Stored,      \* what is in the library at first, [Names -> Bodies or None]
  Starter,     \* the document of a new scenario
  Typed,       \* what users make of a document
  Malformed,   \* a text that is no document
  Empty,       \* a text of blanks
  None,
  MaxEdits,    \* bound: edits
  MaxPosts,    \* bound: requests to save
  MaxTrouble   \* bound: requests that fail, data that grows old, other users' saves

Documents  == [name : Names, body : Bodies]
Unreadable == {Malformed, Empty}
Texts      == Documents \cup Unreadable

\* The form makes a body of any body; nothing that is stored or typed is a
\* missing one.
ASSUME ScenarioStudioAssumption ==
  /\ None \notin Names /\ None \notin Bodies
  /\ Unreadable \cap Documents = {}
  /\ Carried \in [Bodies -> Bodies] /\ Bodies \subseteq DOMAIN Target
  /\ Stored \in [Names -> Bodies \cup {None}]
  /\ Starter \in Documents /\ Typed \subseteq Documents
  /\ MaxEdits \in Nat /\ MaxPosts \in Nat /\ MaxTrouble \in Nat

\* What the form holds: a body reads back as it is.
FormDocuments == {d \in Documents : Carried[d.body] = d.body}

VARIABLES
  library,   \* scenarios stored by the API
  list,      \* the query of the list: names, is it known and fresh, its request
  details,   \* the query of each scenario: cached body, fresh, asked, failed
  verdicts,  \* the query of each text: none, asked, valid, invalid, error
  page,      \* the library, a new scenario, or the scenario that is edited
  studio,    \* the state of the studio on the page, or NoStudio
  posts,     \* requests to save, in the order they were sent
  ran,       \* the last run that was created here
  counts     \* edits and trouble so far

\* What the user has no part in.
Trouble == /\ counts.trouble < MaxTrouble
           /\ counts' = [counts EXCEPT !.trouble = @ + 1]

queries == <<list, details, verdicts>>
vars == <<library, list, details, verdicts, page, studio, posts, ran, counts>>

NoStudio == [mounted |-> FALSE]
NoRun    == [doc |-> None]

\* A studio as it is mounted.  The run dialog keeps the adapter it was given
\* first.
Mount(doc) ==
  [mounted |-> TRUE, draft |-> doc, yaml |-> FALSE, raw |-> doc, error |-> FALSE,
   saved |-> None, debounced |-> doc, post |-> 0, save |-> "idle",
   dialog |-> FALSE, adapter |-> Target[doc.body], picked |-> FALSE,
   run |-> NoRun]

\* Mutant: only what the form holds is debounced, saved and run.
DraftOf(s) == s.draft

Current(s) == IF s.yaml THEN s.raw ELSE s.draft

Form(doc) == [doc EXCEPT !.body = Carried[@]]

Editing == IF page \in Names THEN page ELSE None

\* Is the document the studio looked up last valid, as far as it knows?
\* Save, Run and the badge go by it.
ValidShown == studio.mounted /\ verdicts[studio.debounced] = "valid"

\* load_scenario takes it.
Valid(text) == text \notin Unreadable /\ Carried[text.body] = text.body

-----------------------------------------------------------------------------
(* Queries.                                                                *)

\* Of a text that was answered nothing new is to be learnt.
Ask(text) ==
  verdicts' = IF verdicts[text] \in {"none", "error"}
              THEN [verdicts EXCEPT ![text] = "asked"] ELSE verdicts

\* A text is looked up when it is first shown, and again after an error; an
\* empty one is not.
LookUp(text) == IF text = Empty THEN UNCHANGED verdicts ELSE Ask(text)

MountAndLookUp(doc) == studio' = Mount(doc) /\ LookUp(doc)

\* The studio for a scenario is mounted with what is cached of it, which is
\* asked for again if it is no longer fresh.  A query that failed after it
\* had an answer shows the failure until it has another.
ShowScenario(n) ==
  /\ details' = [details EXCEPT ![n].asked = @ \/ ~details[n].fresh,
                                ![n].failed = @ /\ details[n].body # None]
  /\ IF details[n].body # None /\ ~details[n].failed
     THEN MountAndLookUp(Form([name |-> n, body |-> details[n].body]))
     ELSE studio' = NoStudio /\ UNCHANGED verdicts

Show(to) ==
  /\ page' = to
  /\ IF to \in Names THEN ShowScenario(to)
     ELSE /\ UNCHANGED details
          /\ IF to = "new" THEN MountAndLookUp(Starter)
             ELSE studio' = NoStudio /\ UNCHANGED verdicts

\* Pages that show the list, or have it to filter by.
Listing == {"library", "mission-control"}

\* A page that shows the list has it asked for if it is not fresh.  A request that
\* is under way is joined: it outlives the page that sent it.
Listed(to) ==
  list' = IF to \in Listing /\ ~list.fresh /\ list.request = "none"
          THEN [list EXCEPT !.request = "sent"] ELSE list

\* The API reads the library, and the answer is on its way.
ListServed ==
  /\ list.request = "sent"
  /\ list' = [list EXCEPT !.request = "served",
                          !.answer = {n \in Names : library[n] # None}]
  /\ UNCHANGED <<library, details, verdicts, page, studio, posts, ran, counts>>

\* An answer makes the list fresh, late or not.
ListArrives ==
  /\ list.request \in {"served", "overtaken"}
  /\ list' = [names |-> list.answer, known |-> TRUE, fresh |-> TRUE,
              late |-> list.request = "overtaken", request |-> "none", answer |-> {}]
  /\ UNCHANGED <<library, details, verdicts, page, studio, posts, ran, counts>>

ListFails ==
  /\ list.request # "none" /\ Trouble
  /\ list' = [list EXCEPT !.request = "none", !.answer = {}]
  /\ UNCHANGED <<library, details, verdicts, page, studio, posts, ran>>

\* Mutant: the studio shows what the query holds.
RefreshAlways(n, doc) ==
  IF page = n THEN MountAndLookUp(doc)
  ELSE UNCHANGED <<studio, verdicts>>

\* A studio that is mounted keeps what it holds.
Refresh(n, doc) ==
  IF page = n /\ ~studio.mounted THEN MountAndLookUp(doc)
  ELSE UNCHANGED <<studio, verdicts>>

\* What arrives is what is stored by now: nothing tells an older answer apart.
DetailArrives(n) ==
  /\ details[n].asked /\ library[n] # None
  /\ details' = [details EXCEPT ![n] = [body |-> library[n], fresh |-> TRUE,
                                        asked |-> FALSE, failed |-> FALSE]]
  /\ Refresh(n, Form([name |-> n, body |-> library[n]]))
  /\ UNCHANGED <<library, list, page, posts, ran, counts>>

\* The page shows that the request failed instead of the studio, also of one
\* that was mounted with what was cached.
DetailFails(n) ==
  /\ details[n].asked /\ Trouble
  /\ details' = [details EXCEPT ![n].asked = FALSE, ![n].failed = TRUE]
  /\ studio' = IF page = n THEN NoStudio ELSE studio
  /\ UNCHANGED <<library, list, verdicts, page, posts, ran>>

Retry ==
  /\ page \in Names /\ details[page].failed /\ ~details[page].asked
  /\ details' = [details EXCEPT ![page].asked = TRUE,
                                ![page].failed = details[page].body # None]
  /\ UNCHANGED <<library, list, verdicts, page, studio, posts, ran, counts>>

Age ==
  /\ \/ \E n \in Names : /\ details[n].fresh
                         /\ details' = [details EXCEPT ![n].fresh = FALSE]
                         /\ UNCHANGED list
     \/ list.fresh /\ list' = [list EXCEPT !.fresh = FALSE] /\ UNCHANGED details
  /\ Trouble
  /\ UNCHANGED <<library, verdicts, page, studio, posts, ran>>

VerdictArrives(text) ==
  /\ verdicts[text] = "asked"
  /\ \/ /\ verdicts' = [verdicts EXCEPT ![text] = IF Valid(text) THEN "valid" ELSE "invalid"]
        /\ UNCHANGED counts
     \/ verdicts' = [verdicts EXCEPT ![text] = "error"] /\ Trouble
  /\ UNCHANGED <<library, list, details, page, studio, posts, ran>>

-----------------------------------------------------------------------------
(* Editing.                                                                *)

Edited == /\ counts.edits < MaxEdits
          /\ counts' = [counts EXCEPT !.edits = @ + 1]
          /\ UNCHANGED <<library, queries, page, posts, ran>>

\* The form stays there in YAML mode: a change of it is then a change of the
\* draft alone.
EditForm(doc) ==
  /\ studio.mounted /\ ~studio.dialog /\ Edited
  /\ studio' = [studio EXCEPT !.draft = doc, !.raw = IF studio.yaml THEN @ ELSE doc,
                              !.saved = None]

\* A text that does not parse leaves the draft as it is.
Read(text, draft) == IF text \in Unreadable THEN draft ELSE Form(text)

EditText(text) ==
  /\ studio.mounted /\ ~studio.dialog /\ studio.yaml /\ Edited
  /\ studio' = [studio EXCEPT !.raw = text, !.saved = None,
                              !.error = text \in Unreadable,
                              !.draft = Read(text, @)]

YamlOn ==
  /\ studio.mounted /\ ~studio.dialog /\ ~studio.yaml
  /\ studio' = [studio EXCEPT !.raw = studio.draft, !.error = FALSE, !.yaml = TRUE]
  /\ UNCHANGED <<library, queries, page, posts, ran, counts>>

YamlOff ==
  /\ studio.mounted /\ ~studio.dialog /\ studio.yaml
  /\ studio' = IF studio.raw \in Unreadable THEN [studio EXCEPT !.error = TRUE]
               ELSE [studio EXCEPT !.draft = Form(studio.raw), !.error = FALSE,
                                   !.yaml = FALSE]
  /\ UNCHANGED <<library, queries, page, posts, ran, counts>>

\* 600 ms without a change.
Debounce ==
  /\ studio.mounted /\ studio.debounced # Current(studio)
  /\ studio' = [studio EXCEPT !.debounced = Current(studio)]
  /\ LookUp(Current(studio))
  /\ UNCHANGED <<library, list, details, page, posts, ran, counts>>

\* The Validate button; it asks of an empty text as well.
Validate ==
  /\ studio.mounted /\ ~studio.dialog
  /\ verdicts[studio.debounced] \in {"none", "error"}
  /\ Ask(studio.debounced)
  /\ UNCHANGED <<library, list, details, page, studio, posts, ran, counts>>

-----------------------------------------------------------------------------
(* Saving.                                                                 *)

\* The request to save what is shown.  told is the name of the scenario the
\* user was told that it exists, there what does exist by now; both are only
\* for properties.
Persist(overwrite, told) ==
  /\ Len(posts) < MaxPosts
  /\ posts' = Append(posts, [doc |-> Current(studio), overwrite |-> overwrite,
                             new |-> Editing = None, told |-> told,
                             there |-> {n \in Names : library[n] # None},
                             phase |-> "sent"])
  /\ studio' = [studio EXCEPT !.post = Len(posts) + 1, !.save = "pending"]
  /\ UNCHANGED <<library, queries, page, ran, counts>>

\* Mutant: an existing scenario is always replaced.
AlwaysOverwrite == TRUE

\* A scenario that was opened is replaced.
SaveOverwrites == Editing # None

\* The button is enabled by the verdict on the debounced document.
Save ==
  /\ studio.mounted /\ ~studio.dialog
  /\ ValidShown /\ studio.save # "pending"
  /\ Persist(SaveOverwrites, None)

\* "A scenario named ... already exists in the library": the banner stays
\* until the next request, and what is sent is what is shown by then.
Overwrite ==
  /\ studio.mounted /\ ~studio.dialog /\ studio.save = "conflict"
  /\ Persist(TRUE, posts[studio.post].doc.name)

\* create_scenario looks for the name, then writes.
Answer(post) ==
  IF ~Valid(post.doc) THEN "refused"
  ELSE IF library[post.doc.name] # None /\ ~post.overwrite THEN "conflict"
  ELSE "checked"

Check(p) ==
  /\ posts[p].phase = "sent"
  /\ posts' = [posts EXCEPT ![p].phase = Answer(posts[p])]
  /\ UNCHANGED <<library, queries, page, studio, ran, counts>>

\* An upsert: a scenario that was stored since is replaced.
Write(p) ==
  /\ posts[p].phase = "checked"
  /\ posts' = [posts EXCEPT ![p].phase = "stored"]
  /\ library' = [library EXCEPT ![posts[p].doc.name] = posts[p].doc.body]
  /\ UNCHANGED <<queries, page, studio, ran, counts>>

Mine(p) == studio.mounted /\ studio.post = p

\* Mutant: the list is left to grow old.
Kept == list

\* The list is fetched again, at once if it is shown: another request takes the
\* place of one that is under way, unless that is the first.  Where it is not
\* shown, a request that is under way goes on, and what the API has read for
\* it is overtaken by what was saved.
Invalidated ==
  [list EXCEPT !.fresh   = FALSE,
               !.request = IF page \in Listing /\ (list.known \/ @ = "none") THEN "sent"
                           ELSE IF @ = "served" THEN "overtaken" ELSE @]

\* The list is invalidated wherever the user is; the studio that sent the
\* request, if it is still there, says so and goes to the scenario's page.
SavedArrives(p) ==
  LET n == posts[p].doc.name IN
  /\ posts[p].phase = "stored"
  /\ posts' = [posts EXCEPT ![p].phase = "done"]
  /\ list' = Invalidated
  /\ IF Mine(p) /\ Editing # n
     THEN Show(n)
     ELSE /\ studio' = IF Mine(p) THEN [studio EXCEPT !.saved = n, !.save = "done"]
                       ELSE studio
          /\ UNCHANGED <<page, details, verdicts>>
  /\ UNCHANGED <<library, ran, counts>>

\* Refused, or no answer: whether it was stored is not known then.
SaveFails(p) ==
  /\ \/ posts[p].phase \in {"refused", "conflict"} /\ UNCHANGED counts
     \/ posts[p].phase \in {"sent", "stored"} /\ Trouble
  /\ posts' = [posts EXCEPT ![p].phase = "over"]
  /\ studio' = IF ~Mine(p) THEN studio
               ELSE [studio EXCEPT !.save = IF posts[p].phase = "conflict" THEN "conflict"
                                            ELSE "failed"]
  /\ UNCHANGED <<library, queries, page, ran>>

-----------------------------------------------------------------------------
(* The run dialog.                                                         *)

OpenDialog ==
  /\ ValidShown /\ ~studio.dialog
  /\ studio' = [studio EXCEPT !.dialog = TRUE]
  /\ UNCHANGED <<library, queries, page, posts, ran, counts>>

PickAdapter(a) ==
  /\ studio.mounted /\ studio.dialog
  /\ studio' = [studio EXCEPT !.adapter = a, !.picked = TRUE]
  /\ UNCHANGED <<library, queries, page, posts, ran, counts>>

CloseDialog ==
  /\ studio.mounted /\ studio.dialog
  /\ studio' = [studio EXCEPT !.dialog = FALSE]
  /\ UNCHANGED <<library, queries, page, posts, ran, counts>>

\* Runs what is shown; the adapter of the dialog overrides that of the document.
Run ==
  /\ studio.mounted /\ studio.dialog /\ studio.run = NoRun
  /\ studio' = [studio EXCEPT !.run = [doc |-> Current(studio), adapter |-> studio.adapter,
                                       picked |-> studio.picked]]
  /\ UNCHANGED <<library, queries, page, posts, ran, counts>>

\* The run is followed on another page.
RunCreated ==
  /\ studio.mounted /\ studio.run # NoRun /\ Valid(studio.run.doc)
  /\ ran' = studio.run
  /\ page' = "mission-control" /\ studio' = NoStudio
  /\ Listed("mission-control")
  /\ UNCHANGED <<library, details, verdicts, posts, counts>>

\* Refused, or no answer: the dialog says so.
RunFails ==
  /\ studio.mounted /\ studio.run # NoRun
  /\ \/ ~Valid(studio.run.doc) /\ UNCHANGED counts
     \/ Trouble
  /\ studio' = [studio EXCEPT !.run = NoRun]
  /\ UNCHANGED <<library, queries, page, posts, ran>>

-----------------------------------------------------------------------------

\* Links of the library page and of the navigation.
Go(to) ==
  /\ to # page /\ ~(studio.mounted /\ studio.dialog)
  /\ to \in Names => page = "library" /\ to \in list.names
  /\ to = "new" => page = "library"
  /\ Show(to)
  /\ Listed(to)
  /\ UNCHANGED <<library, posts, ran, counts>>

\* Another user or a script.
RemoteSave(n, b) ==
  /\ Trouble
  /\ library' = [library EXCEPT ![n] = b]
  /\ UNCHANGED <<queries, page, studio, posts, ran>>

Init ==
  /\ library = Stored
  /\ list = [names |-> {}, known |-> FALSE, fresh |-> FALSE, late |-> FALSE,
             request |-> "sent", answer |-> {}]
  /\ details = [n \in Names |-> [body |-> None, fresh |-> FALSE, asked |-> FALSE,
                                 failed |-> FALSE]]
  /\ verdicts = [t \in Texts |-> "none"]
  /\ page = "library" /\ studio = NoStudio
  /\ posts = <<>> /\ ran = NoRun
  /\ counts = [edits |-> 0, trouble |-> 0]

UserEdits ==
  \/ \E d \in FormDocuments \cap Typed : EditForm(d)
  \/ \E t \in Typed \cup Unreadable : EditText(t)
  \/ YamlOn \/ YamlOff

Next ==
  \/ ListServed \/ ListArrives \/ ListFails
  \/ Retry \/ Age \/ Debounce \/ Validate
  \/ \E n \in Names : DetailArrives(n) \/ DetailFails(n)
  \/ \E t \in Texts : VerdictArrives(t)
  \/ UserEdits
  \/ Save \/ Overwrite
  \/ \E p \in DOMAIN posts : Check(p) \/ Write(p) \/ SavedArrives(p) \/ SaveFails(p)
  \/ OpenDialog \/ CloseDialog \/ Run \/ RunCreated \/ RunFails
  \/ \E b \in Bodies : PickAdapter(Target[b])
  \/ \E to \in Names \cup {"library", "new"} : Go(to)
  \/ \E n \in Names, b \in Bodies : Valid([name |-> n, body |-> b]) /\ RemoteSave(n, b)

\* The API answers, the debounce fires.
Fairness ==
  /\ WF_vars(ListServed) /\ WF_vars(ListArrives) /\ WF_vars(Debounce)
  /\ \A t \in Texts : WF_vars(VerdictArrives(t))
  /\ \A p \in 1..MaxPosts :
       WF_vars(p \in DOMAIN posts /\ (Check(p) \/ Write(p) \/ SavedArrives(p) \/ SaveFails(p)))

Spec == Init /\ [][Next]_vars
FairSpec == Spec /\ Fairness
-----------------------------------------------------------------------------
(* Properties.                                                             *)

Phases == {"sent", "checked", "stored", "refused", "conflict", "done", "over"}

TypeOK ==
  /\ library \in [Names -> Bodies \cup {None}]
  /\ list.names \subseteq Names /\ list.answer \subseteq Names
  /\ list.request \in {"none", "sent", "served", "overtaken"}
  /\ \A n \in Names : details[n].body \in Bodies \cup {None}
  /\ \A t \in Texts : verdicts[t] \in {"none", "asked", "valid", "invalid", "error"}
  /\ page \in Names \cup {"library", "new", "mission-control"}
  /\ studio.mounted =>
       /\ studio.draft \in Documents /\ studio.raw \in Texts /\ studio.debounced \in Texts
       /\ studio.post \in 0..Len(posts) /\ studio.saved \in Names \cup {None}
       /\ studio.save \in {"idle", "pending", "done", "conflict", "failed"}
  /\ Len(posts) <= MaxPosts /\ \A p \in DOMAIN posts : posts[p].phase \in Phases

\* What takes the studio away: a link, and three answers.  A run that was
\* created is followed; a failed request for the scenario of the page is shown
\* in place of its studio; and a save under a name that is not that of the page
\* goes to the page of that name.
Left ==
  \/ \E to \in Names \cup {"library", "new"} : Go(to)
  \/ RunCreated
  \/ page \in Names /\ DetailFails(page)
  \/ \E p \in DOMAIN posts : SavedArrives(p) /\ Mine(p) /\ Editing # posts[p].doc.name

\* What is in the editor is the user's.  An answer to another request, to a
\* studio that is gone, to a save of the page's scenario or to one that failed
\* neither changes it nor takes it away, however late it comes; what was edited
\* since the request goes with the studio in the cases of Left, and only then.
LateAnswersKeepEdits ==
  [][studio.mounted /\ ~UserEdits
       => \/ /\ page' = page /\ studio'.mounted
             /\ studio'.draft = studio.draft /\ studio'.raw = studio.raw
          \/ Left]_vars

\* A scenario the user was told to be saved is in the list, unless the page
\* knows that the list is old, whatever page the user had gone to by then.  But
\* for one list: the answer the API had read before the save was answered, to a
\* request that was under way all that time, is taken for a fresh one.
SavedIsListed ==
  \A p \in DOMAIN posts :
    posts[p].phase = "done" /\ list.fresh /\ ~list.late => posts[p].doc.name \in list.names

\* threat-model.md:111 "creating one with an existing name requires overwrite:
\* true".  From the page of a new scenario nothing that was in the library when
\* the button was pressed is replaced before the user was told that a scenario
\* of that name exists, however the requests of studios that came and went are
\* interleaved.
NewAsksFirst ==
  [][\A p \in DOMAIN posts :
       Write(p) /\ posts[p].new /\ posts[p].told = None
         => posts[p].doc.name \notin posts[p].there]_vars

\* The validation follows what is shown, in the form and in the YAML mode:
\* again and again the studio comes to rest at a verdict on what is in the
\* editor, or says that there is none to be had.  Of an empty text it has none
\* until it is asked for.
VerdictComes ==
  []<>(studio.mounted =>
         LET Shown == IF studio.yaml THEN studio.raw ELSE studio.draft IN
         /\ studio.debounced = Shown
         /\ Shown # Empty => verdicts[Shown] \in {"valid", "invalid", "error"})

\* What the repository says of the studio, and the code does not keep.

\* run-scenario-dialog.tsx:90 "Queue the edited document on a runner".  The adapter
\* of the run is that of the edited document, unless another was picked.
RunsAsEdited ==
  ran # NoRun => ran.picked \/ ran.adapter = Target[ran.doc.body]

\* README.md:189 "validation against the schema before saving".  What is sent
\* was found valid.  The verdict that enables the button is that of the text
\* of 600 ms ago.
SentIsValidated ==
  \A p \in DOMAIN posts : posts[p].doc \notin Unreadable /\ verdicts[posts[p].doc] = "valid"

\* The banner names the scenario that "Overwrite it" replaces (studio.tsx:243);
\* the request goes by what the editor holds when the button is pressed.
ReplacedIsTold ==
  \A p \in DOMAIN posts : posts[p].told # None => posts[p].doc.name = posts[p].told

\* studio.tsx:252 "Saved ... to the library" is of what the editor holds: a
\* change takes the notice away, but not one made while the request is under way.
NoticeIsOfWhatIsShown ==
  studio.mounted /\ studio.saved # None => posts[studio.post].doc = Current(studio)

\* The same of what is in the library when it is replaced: create_scenario
\* writes in a later statement than it looks, and two requests that create one
\* scenario both succeed.
NeverReplacedUnasked ==
  [][\A p \in DOMAIN posts :
       Write(p) /\ posts[p].new /\ posts[p].told = None
         => library[posts[p].doc.name] = None]_vars
=============================================================================
