------------------------- MODULE ScenarioStudioProofs -------------------------
(***************************************************************************)
(* What the studio keeps, proved for every set of scenarios and every      *)
(* number of edits, requests and troubles: what was saved is listed, a new *)
(* scenario asks before it replaces one, and which answers leave an editor *)
(* alone.                                                                  *)
(*                                                                         *)
(* The inductive invariant is the types of the state with PostInv, what a  *)
(* request to save has seen of the library by the phase it is in.          *)
(***************************************************************************)
EXTENDS ScenarioStudio, SequenceTheorems, TLAPS

Adapters == {Target[b] : b \in Bodies}

Runs == [doc : Texts, adapter : Adapters, picked : BOOLEAN] \cup {NoRun}

Saves == {"idle", "pending", "done", "conflict", "failed"}

Studios ==
  [mounted : {TRUE}, draft : Documents, yaml : BOOLEAN, raw : Texts,
   error : BOOLEAN, saved : Names \cup {None}, debounced : Texts, post : Nat,
   save : Saves, dialog : BOOLEAN, adapter : Adapters, picked : BOOLEAN,
   run : Runs]

Posts ==
  [doc : Texts, overwrite : BOOLEAN, new : BOOLEAN, told : Names \cup {None},
   there : SUBSET Names, phase : Phases]

Details == [body : Bodies \cup {None}, fresh : BOOLEAN, asked : BOOLEAN, failed : BOOLEAN]

Requests == {"none", "sent", "served", "overtaken"}

Lists ==
  [names : SUBSET Names, known : BOOLEAN, fresh : BOOLEAN, late : BOOLEAN,
   request : Requests, answer : SUBSET Names]

Pages == Names \cup {"library", "new", "mission-control"}

IsStudio(s) == s = NoStudio \/ s \in Studios

Types ==
  /\ library \in [Names -> Bodies \cup {None}]
  /\ list \in Lists
  /\ details \in [Names -> Details]
  /\ verdicts \in [Texts -> {"none", "asked", "valid", "invalid", "error"}]
  /\ page \in Pages
  /\ IsStudio(studio)
  /\ posts \in Seq(Posts)
  /\ ran \in Runs

\* A request that was found valid is of a document.  One that was stored is in
\* the library, and in the list once that is fetched again: what the API has read
\* for the list by now is overtaken, or has it.
Filed(post) ==
  /\ post.phase \in {"checked", "stored", "conflict", "done"} => post.doc \in Documents
  /\ post.phase \in {"stored", "done"} => library[post.doc.name] # None
  /\ post.phase = "done" /\ list.request = "served" => post.doc.name \in list.answer
  /\ post.phase = "done" /\ list.fresh /\ ~list.late => post.doc.name \in list.names

\* What was in the library when a request was sent is still there; a request
\* from the page of a new scenario that was not told of another passes the
\* look-up only with a name that was free.
Asked(post) ==
  /\ \A n \in post.there : library[n] # None
  /\ post.new /\ post.told = None => ~post.overwrite
  /\ post.phase = "checked" /\ post.new /\ post.told = None
       => post.doc.name \notin post.there

\* The banner is about a request that was of a document.
Told == studio.mounted /\ studio.save = "conflict" =>
          studio.post \in DOMAIN posts /\ posts[studio.post].doc \in Documents

PostInv == \A p \in DOMAIN posts : Filed(posts[p]) /\ Asked(posts[p])

StudioInv == Types /\ PostInv /\ Told

-----------------------------------------------------------------------------
(* What is mounted and looked up. *)

\* The form makes a document of every document, and reads every text into one.
LEMMA FormsDocuments ==
  ASSUME NEW d \in Documents
  PROVE  Form(d) \in Documents
BY ScenarioStudioAssumption DEF Form, Documents

LEMMA ReadsDocuments ==
  ASSUME NEW t \in Texts, NEW d \in Documents
  PROVE  Read(t, d) \in Documents
BY FormsDocuments DEF Read, Texts

\* A studio is mounted with a document and nothing asked of it.
LEMMA Mounted ==
  ASSUME NEW d \in Documents
  PROVE  /\ Mount(d) \in Studios /\ Mount(d).save = "idle"
         /\ d \in Texts
<1>1. Target[d.body] \in Adapters
  BY DEF Documents, Adapters
<1>2. NoRun \in Runs /\ d \in Texts
  BY DEF Runs, Texts
<1> QED BY <1>1, <1>2 DEF Mount, Studios, Saves

\* A look-up is of a text.
LEMMA LookedUp ==
  ASSUME Types, NEW t \in Texts, LookUp(t)
  PROVE  verdicts' \in [Texts -> {"none", "asked", "valid", "invalid", "error"}]
BY DEF Types, LookUp, Ask

LEMMA AskedFor ==
  ASSUME Types, NEW t \in Texts, Ask(t)
  PROVE  verdicts' \in [Texts -> {"none", "asked", "valid", "invalid", "error"}]
BY DEF Types, Ask

\* What is shown on a page is a studio nothing was asked of, or none.
LEMMA Showing ==
  ASSUME Types, NEW to \in Pages, Show(to)
  PROVE  /\ page' = to /\ details' \in [Names -> Details]
         /\ verdicts' \in [Texts -> {"none", "asked", "valid", "invalid", "error"}]
         /\ IsStudio(studio')
         /\ studio'.mounted => studio'.save = "idle"
<1>1. page' = to
  BY DEF Show
<1>2. ASSUME NEW d \in Documents, MountAndLookUp(d)
      PROVE  /\ verdicts' \in [Texts -> {"none", "asked", "valid", "invalid", "error"}]
             /\ IsStudio(studio') /\ studio'.save = "idle"
  BY <1>2, Mounted, LookedUp DEF MountAndLookUp, IsStudio
<1>3. ASSUME studio' = NoStudio, UNCHANGED verdicts
      PROVE  /\ verdicts' \in [Texts -> {"none", "asked", "valid", "invalid", "error"}]
             /\ IsStudio(studio') /\ ~studio'.mounted
  BY <1>3 DEF Types, IsStudio, NoStudio
<1>4. CASE to \notin Names
  BY <1>1, <1>2, <1>3, <1>4, ScenarioStudioAssumption DEF Show, Types
<1>5. CASE to \in Names
  <2>1. ShowScenario(to)
    BY <1>5 DEF Show
  <2>2. details' \in [Names -> Details]
    <3>1. details[to] \in Details
      BY <1>5 DEF Types
    <3> DEFINE d == [details[to] EXCEPT !.asked = @ \/ ~details[to].fresh,
                                        !.failed = @ /\ details[to].body # None]
    <3>2. d \in Details
      <4> DEFINE e == [details[to] EXCEPT !.asked = @ \/ ~details[to].fresh]
      <4>1. e \in Details
        BY <3>1 DEF Details
      <4>2. d = [e EXCEPT !.failed = @ /\ details[to].body # None]
        BY <3>1 DEF Details
      <4> HIDE DEF e, d
      <4> QED BY <4>1, <4>2 DEF Details
    <3>3. details' = [details EXCEPT ![to] = d]
      BY <2>1, <1>5 DEF ShowScenario, Types
    <3> HIDE DEF d
    <3> QED BY <3>2, <3>3 DEF Types
  <2>3. CASE details[to].body # None /\ ~details[to].failed
    <3>1. details[to].body \in Bodies
      BY <1>5, <2>3 DEF Types, Details
    <3>2. [name |-> to, body |-> details[to].body] \in Documents
      BY <1>5, <3>1 DEF Documents
    <3> QED BY <1>1, <1>2, <2>1, <2>2, <2>3, <3>2, FormsDocuments DEF ShowScenario
  <2> QED BY <1>1, <1>3, <2>1, <2>2, <2>3 DEF ShowScenario
<1> QED BY <1>4, <1>5

-----------------------------------------------------------------------------
(* Steps that leave the requests alone. *)

\* The list stays, or grows old, and no answer to a request for it comes up.
SameList ==
  /\ list'.names = list.names /\ list'.late = list.late
  /\ list'.fresh => list.fresh
  /\ list'.request = "served" => list.request = "served" /\ list'.answer = list.answer

\* What the requests have seen is not disturbed when the library and the list stay.
LEMMA Undisturbed ==
  ASSUME PostInv, posts' = posts, library' = library, list' = list \/ SameList
  PROVE  PostInv'
BY DEF PostInv, Filed, Asked, SameList

\* A page that has the list asked for gets no other list by that.
LEMMA ListAsked ==
  ASSUME Types, NEW to, Listed(to)
  PROVE  list' \in Lists /\ SameList
<1>1. list \in Lists
  BY DEF Types
<1>2. CASE list' = list
  BY <1>1, <1>2 DEF SameList
<1>3. CASE list' = [list EXCEPT !.request = "sent"]
  BY <1>1, <1>3 DEF SameList, Lists, Requests
<1> QED BY <1>2, <1>3 DEF Listed

\* The banner stays with its request.
LEMMA BannerKept ==
  ASSUME Told, posts' = posts,
         studio'.mounted /\ studio'.save = "conflict" =>
           studio.mounted /\ studio.save = "conflict" /\ studio'.post = studio.post
  PROVE  Told'
BY DEF Told

\* Edits change only what is in the editor.
LEMMA Editings ==
  ASSUME StudioInv, UserEdits
  PROVE  StudioInv'
<1>1. /\ studio.mounted
      /\ studio' \in Studios /\ studio'.save = studio.save /\ studio'.post = studio.post
  <2>1. ASSUME NEW d \in FormDocuments \cap Typed, EditForm(d)
        PROVE  /\ studio.mounted
               /\ studio' \in Studios /\ studio'.save = studio.save /\ studio'.post = studio.post
    <3>1. d \in Documents /\ d \in Texts
      BY DEF FormDocuments, Texts
    <3>2. studio \in Studios
      BY <2>1 DEF EditForm, StudioInv, Types, IsStudio, NoStudio
    <3> QED BY <2>1, <3>1, <3>2 DEF EditForm, Studios
  <2>2. ASSUME NEW t \in Typed \cup Unreadable, EditText(t)
        PROVE  /\ studio.mounted
               /\ studio' \in Studios /\ studio'.save = studio.save /\ studio'.post = studio.post
    <3>1. t \in Texts
      BY <2>2, ScenarioStudioAssumption DEF Texts
    <3>2. studio \in Studios
      BY <2>2 DEF EditText, StudioInv, Types, IsStudio, NoStudio
    <3>3. studio.draft \in Documents
      BY <3>2 DEF Studios
    <3>4. Read(t, studio.draft) \in Documents
      BY <3>1, <3>3, ReadsDocuments
    <3>5. studio' = [studio EXCEPT !.raw = t, !.saved = None, !.error = t \in Unreadable,
                                   !.draft = Read(t, studio.draft)]
      BY <2>2, <3>2 DEF EditText, Studios
    <3>6. PICK e \in BOOLEAN : e <=> t \in Unreadable
      OBVIOUS
    <3>7. studio' = [studio EXCEPT !.raw = t, !.saved = None, !.error = e,
                                   !.draft = Read(t, studio.draft)]
      BY <3>5, <3>6, Zenon
    <3> QED BY <2>2, <3>1, <3>2, <3>4, <3>7 DEF EditText, Studios
  <2>3. ASSUME YamlOn \/ YamlOff
        PROVE  /\ studio.mounted
               /\ studio' \in Studios /\ studio'.save = studio.save /\ studio'.post = studio.post
    <3>1. studio.mounted
      BY <2>3 DEF YamlOn, YamlOff
    <3>2. studio \in Studios
      BY <3>1 DEF StudioInv, Types, IsStudio, NoStudio
    <3>3. studio.draft \in Documents /\ studio.draft \in Texts
      BY <3>2 DEF Studios, Texts
    <3>4. studio.raw \notin Unreadable => Form(studio.raw) \in Documents
      BY <3>2, FormsDocuments DEF Studios, Texts
    <3>5. CASE YamlOn
      BY <3>1, <3>2, <3>3, <3>5 DEF YamlOn, Studios
    <3>6. CASE YamlOff
      BY <3>1, <3>2, <3>4, <3>6 DEF YamlOff, Studios
    <3> QED BY <2>3, <3>5, <3>6
  <2> QED BY <2>1, <2>2, <2>3 DEF UserEdits
<1>2. UNCHANGED <<library, queries, page, posts, ran>>
  BY DEF UserEdits, EditForm, EditText, YamlOn, YamlOff, Edited
<1>3. Types'
  BY <1>1, <1>2 DEF StudioInv, Types, IsStudio, queries
<1>4. PostInv'
  BY <1>2, Undisturbed DEF StudioInv, queries
<1>5. Told'
  BY <1>1, <1>2, BannerKept DEF StudioInv
<1> QED BY <1>3, <1>4, <1>5 DEF StudioInv

\* What is looked up after the editor has been quiet.
LEMMA Lookings ==
  ASSUME StudioInv, Debounce \/ Validate \/ \E t \in Texts : VerdictArrives(t)
  PROVE  StudioInv'
<1>1. UNCHANGED <<library, list, details, page, posts, ran>>
  BY DEF Debounce, Validate, VerdictArrives
<1>2. CASE Debounce
  <2>1. studio \in Studios
    BY <1>2 DEF Debounce, StudioInv, Types, IsStudio, NoStudio
  <2>2. Current(studio) \in Texts
    BY <2>1 DEF Current, Studios, Texts
  <2>3. /\ studio' \in Studios /\ studio'.save = studio.save /\ studio'.post = studio.post
        /\ studio.mounted
    BY <1>2, <2>1, <2>2 DEF Debounce, Studios
  <2>4. verdicts' \in [Texts -> {"none", "asked", "valid", "invalid", "error"}]
    BY <1>2, <2>2, LookedUp DEF Debounce, StudioInv
  <2>5. Told'
    BY <1>1, <2>3, BannerKept DEF StudioInv
  <2>6. Types'
    BY <1>1, <2>3, <2>4 DEF StudioInv, Types, IsStudio
  <2> QED BY <1>1, <2>5, <2>6, Undisturbed DEF StudioInv
<1>3. CASE Validate \/ \E t \in Texts : VerdictArrives(t)
  <2>1. UNCHANGED studio
    BY <1>3 DEF Validate, VerdictArrives
  <2>2. verdicts' \in [Texts -> {"none", "asked", "valid", "invalid", "error"}]
    <3>1. CASE Validate
      <4>1. studio \in Studios
        BY <3>1 DEF Validate, StudioInv, Types, IsStudio, NoStudio
      <4> QED BY <3>1, <4>1, AskedFor DEF Validate, Studios, StudioInv
    <3>2. CASE \E t \in Texts : VerdictArrives(t)
      BY <3>2 DEF VerdictArrives, StudioInv, Types
    <3> QED BY <1>3, <3>1, <3>2
  <2>3. Types'
    BY <1>1, <2>1, <2>2 DEF StudioInv, Types, IsStudio
  <2> QED BY <1>1, <2>1, <2>3, Undisturbed, BannerKept DEF StudioInv
<1> QED BY <1>2, <1>3

\* Answers of the queries, and data that grows old.
LEMMA Answers ==
  ASSUME StudioInv,
         \/ ListServed \/ ListArrives \/ ListFails \/ Retry \/ Age
         \/ \E n \in Names : DetailArrives(n) \/ DetailFails(n)
  PROVE  StudioInv'
<1>1. CASE ListServed \/ ListArrives \/ ListFails
  <2>1. UNCHANGED <<library, details, verdicts, page, studio, posts, ran>>
    BY <1>1 DEF ListServed, ListArrives, ListFails
  <2>2. list \in Lists
    BY DEF StudioInv, Types
  <2>3. PICK read : read = {n \in Names : library[n] # None}
    OBVIOUS
  <2>4. /\ list' \in Lists
        /\ \/ SameList
           \/ /\ list'.request = "served" /\ list'.answer = read
              /\ list'.names = list.names /\ list'.fresh = list.fresh /\ list'.late = list.late
           \/ /\ list'.request = "none" /\ list'.names = list.answer
              /\ list'.late \/ list.request = "served"
    <3>1. CASE ListServed
      <4> DEFINE asked == [list EXCEPT !.request = "served"]
      <4>1. asked \in Lists
        BY <2>2 DEF Lists, Requests
      <4>2. list' = [asked EXCEPT !.answer = read]
        BY <2>2, <2>3, <3>1 DEF ListServed, Lists
      <4>3. /\ asked.names = list.names /\ asked.fresh = list.fresh
            /\ asked.late = list.late /\ asked.request = "served"
        BY <2>2 DEF Lists
      <4>4. read \in SUBSET Names
        BY <2>3
      <4> HIDE DEF asked
      <4> QED BY <4>1, <4>2, <4>3, <4>4 DEF Lists
    <3>2. CASE ListArrives
      <4>1. PICK late \in BOOLEAN : late <=> list.request = "overtaken"
        OBVIOUS
      <4>2. list' = [names |-> list.answer, known |-> TRUE, fresh |-> TRUE,
                     late |-> late, request |-> "none", answer |-> {}]
        BY <3>2, <4>1, Zenon DEF ListArrives
      <4>3. list' \in Lists
        BY <2>2, <4>2 DEF Lists, Requests
      <4>4. late \/ list.request = "served"
        BY <3>2, <4>1 DEF ListArrives
      <4> QED BY <4>2, <4>3, <4>4
    <3>3. CASE ListFails
      <4> DEFINE idle == [list EXCEPT !.request = "none"]
      <4>1. idle \in Lists
        BY <2>2 DEF Lists, Requests
      <4>2. list' = [idle EXCEPT !.answer = {}]
        BY <2>2, <3>3 DEF ListFails, Lists
      <4>3. /\ idle.names = list.names /\ idle.fresh = list.fresh
            /\ idle.late = list.late /\ idle.request = "none"
        BY <2>2 DEF Lists
      <4> HIDE DEF idle
      <4> QED BY <4>1, <4>2, <4>3 DEF Lists, SameList
    <3> QED BY <1>1, <3>1, <3>2, <3>3
  <2>5. Types'
    BY <2>1, <2>4 DEF StudioInv, Types, IsStudio
  <2>6. PostInv'
    <3>1. CASE SameList
      BY <2>1, <3>1, Undisturbed DEF StudioInv
    <3>2. CASE ~SameList
      <4> SUFFICES ASSUME NEW p \in DOMAIN posts PROVE (Filed(posts[p]) /\ Asked(posts[p]))'
        BY <2>1 DEF PostInv
      <4>1. Filed(posts[p]) /\ Asked(posts[p])
        BY DEF StudioInv, PostInv
      <4>2. posts[p].phase \in {"stored", "done"} => posts[p].doc.name \in read
        BY <2>3, <4>1 DEF Filed, Documents
      <4>3. Asked(posts[p])'
        BY <2>1, <4>1 DEF Asked
      <4>4. Filed(posts[p])'
        BY <2>1, <2>4, <3>2, <4>1, <4>2 DEF Filed
      <4> QED BY <4>3, <4>4
    <3> QED BY <3>1, <3>2
  <2> QED BY <2>1, <2>5, <2>6, BannerKept DEF StudioInv
<1>2. CASE Retry
  <2>1. UNCHANGED <<library, list, verdicts, page, studio, posts, ran>>
    BY <1>2 DEF Retry
  <2>2. details' \in [Names -> Details]
    <3>1. page \in Names /\ details[page] \in Details
      BY <1>2 DEF Retry, StudioInv, Types
    <3>2. details' = [details EXCEPT ![page] = [details[page] EXCEPT
                        !.asked = TRUE, !.failed = details[page].body # None]]
      BY <1>2, <3>1 DEF Retry, StudioInv, Types
    <3>3. [details[page] EXCEPT !.asked = TRUE, !.failed = details[page].body # None] \in Details
      BY <3>1 DEF Details
    <3> QED BY <3>1, <3>2, <3>3 DEF StudioInv, Types
  <2>3. Types'
    BY <2>1, <2>2 DEF StudioInv, Types, IsStudio
  <2> QED BY <2>1, <2>3, Undisturbed, BannerKept DEF StudioInv
<1>3. CASE Age
  <2>1. UNCHANGED <<library, verdicts, page, studio, posts, ran>>
    BY <1>3 DEF Age
  <2>2. /\ details' \in [Names -> Details]
        /\ list' \in Lists /\ SameList
    <3>1. ASSUME NEW n \in Names, details' = [details EXCEPT ![n].fresh = FALSE], UNCHANGED list
          PROVE  /\ details' \in [Names -> Details]
                 /\ list' \in Lists /\ SameList
      BY <3>1 DEF StudioInv, Types, Details, SameList
    <3>2. CASE list' = [list EXCEPT !.fresh = FALSE] /\ UNCHANGED details
      BY <3>2 DEF StudioInv, Types, Lists, SameList
    <3> QED BY <1>3, <3>1, <3>2 DEF Age
  <2>3. Types'
    BY <2>1, <2>2 DEF StudioInv, Types, IsStudio
  <2> QED BY <2>1, <2>2, <2>3, Undisturbed, BannerKept DEF StudioInv
<1>4. ASSUME NEW n \in Names, DetailArrives(n)
      PROVE  StudioInv'
  <2>1. UNCHANGED <<library, list, page, posts, ran>>
    BY <1>4 DEF DetailArrives
  <2>2. library[n] \in Bodies
    BY <1>4 DEF DetailArrives, StudioInv, Types
  <2>3. details' \in [Names -> Details]
    BY <1>4, <2>2 DEF DetailArrives, StudioInv, Types, Details
  <2>4. /\ verdicts' \in [Texts -> {"none", "asked", "valid", "invalid", "error"}]
        /\ IsStudio(studio')
        /\ UNCHANGED studio \/ studio'.save = "idle"
    <3> DEFINE doc == Form([name |-> n, body |-> library[n]])
    <3>1. doc \in Documents
      BY <2>2, FormsDocuments DEF Documents
    <3>2. CASE MountAndLookUp(doc)
      BY <3>1, <3>2, Mounted, LookedUp DEF MountAndLookUp, StudioInv, IsStudio
    <3>3. CASE UNCHANGED <<studio, verdicts>>
      BY <3>3 DEF StudioInv, Types, IsStudio
    <3> QED BY <1>4, <3>2, <3>3 DEF DetailArrives, Refresh
  <2>5. Types'
    BY <2>1, <2>3, <2>4 DEF StudioInv, Types
  <2> QED BY <2>1, <2>4, <2>5, Undisturbed, BannerKept DEF StudioInv
<1>5. ASSUME NEW n \in Names, DetailFails(n)
      PROVE  StudioInv'
  <2>1. UNCHANGED <<library, list, verdicts, page, posts, ran>>
    BY <1>5 DEF DetailFails
  <2>2. details' \in [Names -> Details]
    <3>1. details[n] \in Details
      BY DEF StudioInv, Types
    <3>2. details' = [details EXCEPT ![n] = [details[n] EXCEPT !.asked = FALSE, !.failed = TRUE]]
      BY <1>5 DEF DetailFails, StudioInv, Types
    <3> QED BY <3>1, <3>2 DEF StudioInv, Types, Details
  <2>3. studio' = NoStudio \/ UNCHANGED studio
    BY <1>5 DEF DetailFails
  <2>4. Types'
    BY <2>1, <2>2, <2>3 DEF StudioInv, Types, IsStudio
  <2> QED BY <2>1, <2>3, <2>4, Undisturbed, BannerKept DEF StudioInv, NoStudio
<1> QED BY <1>1, <1>2, <1>3, <1>4, <1>5

\* The run dialog.
LEMMA Dialogs ==
  ASSUME StudioInv,
         \/ OpenDialog \/ CloseDialog \/ Run \/ RunCreated \/ RunFails
         \/ \E b \in Bodies : PickAdapter(Target[b])
  PROVE  StudioInv'
<1>1. /\ UNCHANGED <<library, details, verdicts, posts>>
      /\ page' \in Pages
      /\ UNCHANGED list \/ Listed("mission-control")
  BY DEF OpenDialog, CloseDialog, Run, RunCreated, RunFails, PickAdapter, StudioInv, Types,
         Pages, queries
<1>0. list' \in Lists /\ (list' = list \/ SameList)
  BY <1>1, ListAsked DEF StudioInv, Types
<1>2. studio.mounted /\ studio \in Studios
  <2>1. studio.mounted
    BY DEF OpenDialog, CloseDialog, Run, RunCreated, RunFails, PickAdapter, ValidShown
  <2> QED BY <2>1 DEF StudioInv, Types, IsStudio, NoStudio
<1>3. /\ studio' = NoStudio \/ (/\ studio' \in Studios /\ studio'.save = studio.save
                                /\ studio'.post = studio.post)
      /\ ran' \in Runs
  <2>1. CASE OpenDialog \/ CloseDialog
    <3>1. PICK open \in BOOLEAN : studio' = [studio EXCEPT !.dialog = open] /\ UNCHANGED ran
      BY <2>1 DEF OpenDialog, CloseDialog
    <3> QED BY <1>2, <3>1 DEF Studios, StudioInv, Types
  <2>2. CASE Run
    <3>1. [doc |-> Current(studio), adapter |-> studio.adapter, picked |-> studio.picked] \in Runs
      BY <1>2 DEF Runs, Current, Studios, Texts
    <3> QED BY <1>2, <2>2, <3>1 DEF Run, Studios, StudioInv, Types
  <2>3. CASE RunCreated
    BY <1>2, <2>3 DEF RunCreated, Studios
  <2>4. CASE RunFails
    <3>1. NoRun \in Runs
      BY DEF Runs
    <3> QED BY <1>2, <2>4, <3>1 DEF RunFails, Studios, StudioInv, Types
  <2>5. ASSUME NEW b \in Bodies, PickAdapter(Target[b])
        PROVE  /\ studio' \in Studios /\ studio'.save = studio.save /\ studio'.post = studio.post
               /\ ran' \in Runs
    <3>1. Target[b] \in Adapters
      BY DEF Adapters
    <3> QED BY <1>2, <2>5, <3>1 DEF PickAdapter, Studios, StudioInv, Types
  <2> QED BY <2>1, <2>2, <2>3, <2>4, <2>5
<1>4. Types'
  BY <1>0, <1>1, <1>3 DEF StudioInv, Types, IsStudio
<1>5. PostInv'
  BY <1>0, <1>1, Undisturbed DEF StudioInv
<1>6. Told'
  BY <1>1, <1>2, <1>3, BannerKept DEF StudioInv, NoStudio
<1> QED BY <1>4, <1>5, <1>6 DEF StudioInv

-----------------------------------------------------------------------------
(* Requests to save. *)

\* A request is sent with what is in the library by then.
LEMMA Saving ==
  ASSUME StudioInv, Save \/ Overwrite
  PROVE  StudioInv'
<1>1. PICK o \in BOOLEAN, t \in Names \cup {None} :
        /\ Persist(o, t) /\ (Editing = None /\ t = None => ~o)
        /\ studio.mounted
  <2>1. CASE Save
    BY <2>1 DEF Save, SaveOverwrites
  <2>2. CASE Overwrite
    <3>1. posts[studio.post].doc.name \in Names
      BY <2>2 DEF Overwrite, StudioInv, Told, Documents
    <3> QED BY <2>2, <3>1, ScenarioStudioAssumption DEF Overwrite
  <2> QED BY <2>1, <2>2
<1>0. PICK post : post = [doc |-> Current(studio), overwrite |-> o, new |-> Editing = None,
                          told |-> t, there |-> {n \in Names : library[n] # None},
                          phase |-> "sent"]
  OBVIOUS
<1>2. studio \in Studios
  BY <1>1 DEF StudioInv, Types, IsStudio, NoStudio
<1>3. post \in Posts
  <2>1. Current(studio) \in Texts
    BY <1>2 DEF Current, Studios, Texts
  <2> QED BY <1>0, <2>1 DEF Posts, Phases
<1>4. /\ posts' = Append(posts, post)
      /\ studio' = [studio EXCEPT !.post = Len(posts) + 1, !.save = "pending"]
      /\ UNCHANGED <<library, queries, page, ran>>
  BY <1>1, <1>0 DEF Persist
<1>5. post.phase = "sent" /\ post.overwrite = o /\ post.told = t
      /\ (post.new <=> Editing = None) /\ post.there = {n \in Names : library[n] # None}
  BY <1>0
<1>6. Len(posts) \in Nat /\ posts \in Seq(Posts)
  BY DEF StudioInv, Types
<1>7. studio' \in Studios /\ studio'.save = "pending"
  <2> DEFINE asked == [studio EXCEPT !.post = Len(posts) + 1]
  <2>1. asked \in Studios
    <3>1. Len(posts) + 1 \in Nat
      BY <1>6
    <3> QED BY <1>2, <3>1 DEF Studios
  <2>2. studio' = [asked EXCEPT !.save = "pending"]
    BY <1>2, <1>4 DEF Studios
  <2> HIDE DEF asked
  <2> QED BY <2>1, <2>2 DEF Studios, Saves
<1>8. Types'
  <2>1. posts' \in Seq(Posts)
    BY <1>3, <1>4, <1>6
  <2> QED BY <1>4, <1>7, <2>1 DEF StudioInv, Types, IsStudio, queries
<1>9. PostInv'
  <2>1. \A p \in DOMAIN posts' : posts'[p] = post \/ (p \in DOMAIN posts /\ posts'[p] = posts[p])
    <3>1. posts' = Append(posts, post)
      BY <1>4
    <3>2. /\ Len(posts') = Len(posts) + 1 /\ posts' \in Seq(Posts)
          /\ \A i \in 1..Len(posts) : posts'[i] = posts[i]
          /\ posts'[Len(posts) + 1] = post
      BY <1>3, <1>6, <3>1, AppendProperties
    <3>3. DOMAIN posts' = 1..Len(posts) + 1 /\ DOMAIN posts = 1..Len(posts)
      BY <1>6, <3>2
    <3>4. \A i \in 1..Len(posts) + 1 : i = Len(posts) + 1 \/ i \in 1..Len(posts)
      BY <1>6
    <3> SUFFICES ASSUME NEW p \in DOMAIN posts'
                 PROVE  posts'[p] = post \/ (p \in DOMAIN posts /\ posts'[p] = posts[p])
      OBVIOUS
    <3>5. CASE p = Len(posts) + 1
      BY <3>2, <3>5
    <3>6. CASE p \in 1..Len(posts)
      BY <3>2, <3>3, <3>6
    <3> QED BY <3>3, <3>4, <3>5, <3>6
  <2>2. Filed(post)' /\ Asked(post)'
    <3>1. library' = library /\ list' = list
      BY <1>4 DEF queries
    <3>2. Filed(post)'
      BY <1>5 DEF Filed
    <3>3. Asked(post)'
      BY <1>1, <1>5, <3>1 DEF Asked
    <3> QED BY <3>2, <3>3
  <2>3. \A p \in DOMAIN posts : Filed(posts[p])' /\ Asked(posts[p])'
    BY <1>4 DEF StudioInv, PostInv, Filed, Asked, queries
  <2> QED BY <2>1, <2>2, <2>3 DEF PostInv
<1>10. Told'
  BY <1>7 DEF Told
<1> QED BY <1>8, <1>9, <1>10 DEF StudioInv

\* create_scenario looks for the name, then writes; the answer is told to the
\* studio that asked, if it is still there.
LEMMA Answered ==
  ASSUME StudioInv, NEW p \in DOMAIN posts, NEW next \in Phases,
         posts' = [posts EXCEPT ![p].phase = next]
  PROVE  /\ posts' \in Seq(Posts) /\ DOMAIN posts' = DOMAIN posts
         /\ \A q \in DOMAIN posts \ {p} : posts'[q] = posts[q]
         /\ posts'[p] = [posts[p] EXCEPT !.phase = next]
         /\ posts[p] \in Posts /\ posts'[p].phase = next
         /\ \A q \in DOMAIN posts : /\ posts'[q].doc = posts[q].doc
                                    /\ posts'[q].overwrite = posts[q].overwrite
                                    /\ posts'[q].new = posts[q].new
                                    /\ posts'[q].told = posts[q].told
                                    /\ posts'[q].there = posts[q].there
<1>1. posts \in Seq(Posts)
  BY DEF StudioInv, Types
<1>2. posts[p] \in Posts
  BY <1>1
<1>3. posts' = [posts EXCEPT ![p] = [posts[p] EXCEPT !.phase = next]]
  BY <1>1
<1>4. [posts[p] EXCEPT !.phase = next] \in Posts
  BY <1>2 DEF Posts
<1>5. posts' \in Seq(Posts) /\ DOMAIN posts' = DOMAIN posts
  BY <1>1, <1>3, <1>4, ExceptSeq
<1>6. posts'[p] = [posts[p] EXCEPT !.phase = next]
  BY <1>3
<1>7. \A q \in DOMAIN posts \ {p} : posts'[q] = posts[q]
  BY <1>3
<1>8. /\ posts'[p].phase = next /\ posts'[p].doc = posts[p].doc
      /\ posts'[p].overwrite = posts[p].overwrite /\ posts'[p].new = posts[p].new
      /\ posts'[p].told = posts[p].told /\ posts'[p].there = posts[p].there
  BY <1>2, <1>6 DEF Posts
<1> QED BY <1>2, <1>5, <1>6, <1>7, <1>8

LEMMA Checking ==
  ASSUME StudioInv, NEW p \in DOMAIN posts, Check(p)
  PROVE  StudioInv'
<1>1. /\ posts[p].phase = "sent"
      /\ posts' = [posts EXCEPT ![p].phase = Answer(posts[p])]
      /\ UNCHANGED <<library, list, details, verdicts, page, studio, ran, counts>>
  BY DEF Check, queries
<1>2. Answer(posts[p]) \in Phases
  BY DEF Answer, Phases
<1>3. /\ posts' \in Seq(Posts) /\ DOMAIN posts' = DOMAIN posts
      /\ \A q \in DOMAIN posts \ {p} : posts'[q] = posts[q]
      /\ posts[p] \in Posts /\ posts'[p].phase = Answer(posts[p])
      /\ \A q \in DOMAIN posts : /\ posts'[q].doc = posts[q].doc
                                 /\ posts'[q].overwrite = posts[q].overwrite
                                 /\ posts'[q].new = posts[q].new
                                 /\ posts'[q].told = posts[q].told
                                 /\ posts'[q].there = posts[q].there
  BY <1>1, <1>2, Answered
<1>4. Types'
  BY <1>1, <1>3 DEF StudioInv, Types, IsStudio
<1>5. Told'
  BY <1>1, <1>3 DEF StudioInv, Told
<1>6. PostInv'
  <2>1. Filed(posts[p])' /\ Asked(posts[p])'
    <3>1. Answer(posts[p]) \in {"checked", "conflict"} => posts[p].doc \in Documents
      BY <1>3 DEF Answer, Valid, Posts, Texts
    <3>2. Filed(posts[p])'
      <4>1. posts'[p].phase \in {"refused", "conflict", "checked"}
        BY <1>3 DEF Answer
      <4>2. posts'[p].phase \in {"checked", "conflict"} => posts'[p].doc \in Documents
        BY <1>3, <3>1
      <4> QED BY <4>1, <4>2 DEF Filed
    <3>3. Asked(posts[p])
      BY DEF StudioInv, PostInv
    <3>4. Answer(posts[p]) = "checked" =>
            library[posts[p].doc.name] = None \/ posts[p].overwrite
      BY DEF Answer
    <3>5. Asked(posts[p])'
      BY <1>1, <1>3, <3>3, <3>4 DEF Asked
    <3> QED BY <3>2, <3>5
  <2>2. ASSUME NEW q \in DOMAIN posts \ {p}
        PROVE  Filed(posts[q])' /\ Asked(posts[q])'
    BY <1>1, <1>3, <2>2 DEF StudioInv, PostInv, Filed, Asked
  <2> QED BY <1>3, <2>1, <2>2 DEF PostInv
<1> QED BY <1>4, <1>5, <1>6 DEF StudioInv

\* What is written is a body, and what was in the library stays there.
LEMMA Growing ==
  ASSUME StudioInv, NEW n \in Names, NEW b \in Bodies, library' = [library EXCEPT ![n] = b]
  PROVE  /\ library' \in [Names -> Bodies \cup {None}] /\ library'[n] # None
         /\ \A m \in Names : library[m] # None => library'[m] # None
BY ScenarioStudioAssumption DEF StudioInv, Types

LEMMA Writing ==
  ASSUME StudioInv, NEW p \in DOMAIN posts, Write(p)
  PROVE  StudioInv'
<1>1. /\ posts[p].phase = "checked"
      /\ posts' = [posts EXCEPT ![p].phase = "stored"]
      /\ library' = [library EXCEPT ![posts[p].doc.name] = posts[p].doc.body]
      /\ UNCHANGED <<list, details, verdicts, page, studio, ran, counts>>
  BY DEF Write, queries
<1>2. /\ posts' \in Seq(Posts) /\ DOMAIN posts' = DOMAIN posts
      /\ \A q \in DOMAIN posts \ {p} : posts'[q] = posts[q]
      /\ posts[p] \in Posts /\ posts'[p].phase = "stored"
      /\ \A q \in DOMAIN posts : /\ posts'[q].doc = posts[q].doc
                                 /\ posts'[q].overwrite = posts[q].overwrite
                                 /\ posts'[q].new = posts[q].new
                                 /\ posts'[q].told = posts[q].told
                                 /\ posts'[q].there = posts[q].there
  BY <1>1, Answered DEF Phases
<1>3. posts[p].doc \in Documents
  BY <1>1 DEF StudioInv, PostInv, Filed
<1>4. posts[p].doc.name \in Names /\ posts[p].doc.body \in Bodies
  BY <1>3 DEF Documents
<1>5. /\ library' \in [Names -> Bodies \cup {None}] /\ library'[posts[p].doc.name] # None
      /\ \A m \in Names : library[m] # None => library'[m] # None
  BY <1>1, <1>4, Growing
<1>6. Types'
  BY <1>1, <1>2, <1>5 DEF StudioInv, Types, IsStudio
<1>7. Told'
  BY <1>1, <1>2 DEF StudioInv, Told
<1>8. PostInv'
  <2>1. \A q \in DOMAIN posts : posts[q] \in Posts /\ Filed(posts[q]) /\ Asked(posts[q])
    BY DEF StudioInv, Types, PostInv
  <2>2. ASSUME NEW q \in DOMAIN posts
        PROVE  Filed(posts[q])' /\ Asked(posts[q])'
    <3>1. posts[q].there \subseteq Names
      BY <2>1 DEF Posts
    <3>2. \A n \in posts[q].there : library'[n] # None
      BY <1>5, <2>1, <3>1 DEF Asked
    <3>3. CASE q = p
      BY <1>2, <1>3, <1>5, <2>1, <3>2, <3>3 DEF Filed, Asked
    <3>4. CASE q # p
      <4>1. posts'[q] = posts[q]
        BY <1>2, <3>4
      <4>2. posts[q].phase \in {"stored", "done"} => posts[q].doc.name \in Names
        BY <2>1 DEF Filed, Documents
      <4> QED BY <1>1, <1>5, <2>1, <3>2, <4>1, <4>2 DEF Filed, Asked
    <3> QED BY <3>3, <3>4
  <2> QED BY <1>2, <2>2 DEF PostInv
<1> QED BY <1>6, <1>7, <1>8 DEF StudioInv

\* The answer invalidates the list; the studio that sent the request goes to
\* the scenario's page or says that it was saved.
LEMMA Arriving ==
  ASSUME StudioInv, NEW p \in DOMAIN posts, SavedArrives(p)
  PROVE  StudioInv'
<1> DEFINE n == posts[p].doc.name
<1>1. /\ posts[p].phase = "stored"
      /\ posts' = [posts EXCEPT ![p].phase = "done"]
      /\ list' = Invalidated
      /\ UNCHANGED <<library, ran, counts>>
  BY DEF SavedArrives
<1>2. /\ posts' \in Seq(Posts) /\ DOMAIN posts' = DOMAIN posts
      /\ \A q \in DOMAIN posts \ {p} : posts'[q] = posts[q]
      /\ posts[p] \in Posts /\ posts'[p].phase = "done"
      /\ \A q \in DOMAIN posts : /\ posts'[q].doc = posts[q].doc
                                 /\ posts'[q].overwrite = posts[q].overwrite
                                 /\ posts'[q].new = posts[q].new
                                 /\ posts'[q].told = posts[q].told
                                 /\ posts'[q].there = posts[q].there
  BY <1>1, Answered DEF Phases
<1>3. posts[p].doc \in Documents /\ n \in Names /\ library[n] # None
  <2>1. Filed(posts[p])
    BY DEF StudioInv, PostInv
  <2> QED BY <1>1, <2>1 DEF Filed, Documents
<1> HIDE DEF n
<1>4. list' \in Lists /\ ~list'.fresh /\ list'.request # "served"
  <2>1. list \in Lists
    BY DEF StudioInv, Types
  <2>2. PICK a \in Requests \ {"served"} :
          list' = [list EXCEPT !.fresh = FALSE, !.request = a]
    <3> DEFINE b == IF page \in Listing /\ (list.known \/ list.request = "none") THEN "sent"
                    ELSE IF list.request = "served" THEN "overtaken" ELSE list.request
    <3>1. b \in Requests \ {"served"}
      BY <2>1 DEF Lists, Requests
    <3>2. list' = [list EXCEPT !.fresh = FALSE, !.request = b]
      BY <1>1, <2>1 DEF Invalidated, Lists
    <3> HIDE DEF b
    <3> QED BY <3>1, <3>2
  <2> DEFINE old == [list EXCEPT !.fresh = FALSE]
  <2>3. old \in Lists /\ ~old.fresh
    BY <2>1 DEF Lists
  <2>4. list' = [old EXCEPT !.request = a]
    BY <2>1, <2>2 DEF Lists
  <2> HIDE DEF old
  <2>5. list'.fresh = old.fresh /\ list'.request = a /\ list' \in Lists
    BY <2>3, <2>4 DEF Lists
  <2> QED BY <2>2, <2>3, <2>5
<1>5. /\ page' \in Pages /\ details' \in [Names -> Details]
      /\ verdicts' \in [Texts -> {"none", "asked", "valid", "invalid", "error"}]
      /\ IsStudio(studio')
      /\ UNCHANGED studio \/ ~studio'.mounted \/ studio'.save # "conflict"
  <2>1. CASE Show(n)
    <3>1. n \in Pages
      BY <1>3 DEF Pages
    <3> QED BY <2>1, <3>1, Showing DEF StudioInv
  <2>2. CASE /\ studio' = IF Mine(p) THEN [studio EXCEPT !.saved = n, !.save = "done"]
                          ELSE studio
             /\ UNCHANGED <<page, details, verdicts>>
    <3>1. CASE Mine(p)
      <4>1. studio \in Studios
        BY <3>1 DEF Mine, StudioInv, Types, IsStudio, NoStudio
      <4> DEFINE told == [studio EXCEPT !.saved = n]
      <4>2. told \in Studios
        BY <1>3, <4>1 DEF Studios
      <4>3. studio' = [told EXCEPT !.save = "done"]
        BY <2>2, <3>1, <4>1 DEF Studios
      <4> HIDE DEF told
      <4>4. studio' \in Studios /\ studio'.save = "done"
        BY <4>2, <4>3 DEF Studios, Saves
      <4> QED BY <2>2, <4>4 DEF StudioInv, Types, IsStudio
    <3>2. CASE ~Mine(p)
      BY <2>2, <3>2 DEF StudioInv, Types, IsStudio
    <3> QED BY <3>1, <3>2
  <2> QED BY <2>1, <2>2 DEF SavedArrives, n
<1>6. Types'
  BY <1>1, <1>2, <1>4, <1>5 DEF StudioInv, Types
<1>7. Told'
  BY <1>2, <1>5 DEF StudioInv, Told
<1>8. PostInv'
  <2>1. \A q \in DOMAIN posts : posts[q] \in Posts /\ Filed(posts[q]) /\ Asked(posts[q])
    BY DEF StudioInv, Types, PostInv
  <2>2. ASSUME NEW q \in DOMAIN posts
        PROVE  Filed(posts[q])' /\ Asked(posts[q])'
    <3>1. CASE q = p
      BY <1>1, <1>2, <1>3, <1>4, <2>1, <3>1 DEF Filed, Asked, n
    <3>2. CASE q # p
      <4>1. posts'[q] = posts[q]
        BY <1>2, <3>2
      <4> QED BY <1>1, <1>4, <2>1, <4>1 DEF Filed, Asked
    <3> QED BY <3>1, <3>2
  <2> QED BY <1>2, <2>2 DEF PostInv
<1> QED BY <1>6, <1>7, <1>8 DEF StudioInv

\* A failure is told to the studio that asked; only a conflict is offered to be
\* overwritten, and it is of a document.
LEMMA Failing ==
  ASSUME StudioInv, NEW p \in DOMAIN posts, SaveFails(p)
  PROVE  StudioInv'
<1>1. /\ posts' = [posts EXCEPT ![p].phase = "over"]
      /\ studio' = IF ~Mine(p) THEN studio
                   ELSE [studio EXCEPT !.save = IF posts[p].phase = "conflict" THEN "conflict"
                                                ELSE "failed"]
      /\ UNCHANGED <<library, list, details, verdicts, page, ran>>
  BY DEF SaveFails, queries
<1>2. /\ posts' \in Seq(Posts) /\ DOMAIN posts' = DOMAIN posts
      /\ \A q \in DOMAIN posts \ {p} : posts'[q] = posts[q]
      /\ posts[p] \in Posts /\ posts'[p].phase = "over"
      /\ \A q \in DOMAIN posts : /\ posts'[q].doc = posts[q].doc
                                 /\ posts'[q].overwrite = posts[q].overwrite
                                 /\ posts'[q].new = posts[q].new
                                 /\ posts'[q].told = posts[q].told
                                 /\ posts'[q].there = posts[q].there
  BY <1>1, Answered DEF Phases
<1>3. \A q \in DOMAIN posts : posts[q] \in Posts /\ Filed(posts[q]) /\ Asked(posts[q])
  BY DEF StudioInv, Types, PostInv
<1>4. IsStudio(studio') /\ Told'
  <2>1. CASE ~Mine(p)
    BY <1>1, <1>2, <2>1 DEF StudioInv, Types, IsStudio, Told
  <2>2. CASE Mine(p)
    <3>1. studio \in Studios /\ studio.post = p
      BY <2>2 DEF Mine, StudioInv, Types, IsStudio, NoStudio
    <3>2. PICK s \in {"conflict", "failed"} :
            /\ studio' = [studio EXCEPT !.save = s]
            /\ s = "conflict" <=> posts[p].phase = "conflict"
      BY <1>1, <2>2
    <3>3. studio' \in Studios /\ studio'.save = s /\ studio'.post = p
      BY <3>1, <3>2 DEF Studios, Saves
    <3>4. s = "conflict" => posts[p].doc \in Documents
      BY <1>3, <3>2 DEF Filed
    <3> QED BY <1>2, <3>3, <3>4 DEF IsStudio, Told
  <2> QED BY <2>1, <2>2
<1>5. Types'
  BY <1>1, <1>2, <1>4 DEF StudioInv, Types
<1>6. PostInv'
  <2>1. ASSUME NEW q \in DOMAIN posts
        PROVE  Filed(posts[q])' /\ Asked(posts[q])'
    <3>1. CASE q = p
      BY <1>1, <1>2, <1>3, <3>1 DEF Filed, Asked
    <3>2. CASE q # p
      <4>1. posts'[q] = posts[q]
        BY <1>2, <3>2
      <4> QED BY <1>1, <1>3, <4>1 DEF Filed, Asked
    <3> QED BY <3>1, <3>2
  <2> QED BY <1>2, <2>1 DEF PostInv
<1> QED BY <1>4, <1>5, <1>6 DEF StudioInv

\* The pages, and other users.
LEMMA Going ==
  ASSUME StudioInv, NEW to \in Names \cup {"library", "new"}, Go(to)
  PROVE  StudioInv'
<1>1. /\ Show(to) /\ to \in Pages
      /\ UNCHANGED <<library, posts, ran>>
  BY DEF Go, Pages
<1>2. /\ page' = to /\ details' \in [Names -> Details]
      /\ verdicts' \in [Texts -> {"none", "asked", "valid", "invalid", "error"}]
      /\ IsStudio(studio')
      /\ studio'.mounted => studio'.save = "idle"
  BY <1>1, Showing DEF StudioInv
<1>3. list' \in Lists /\ SameList
  BY ListAsked DEF Go, StudioInv
<1>4. Types'
  BY <1>1, <1>2, <1>3 DEF StudioInv, Types
<1>5. PostInv'
  BY <1>1, <1>3, Undisturbed DEF StudioInv
<1>6. Told'
  BY <1>2 DEF Told
<1> QED BY <1>4, <1>5, <1>6 DEF StudioInv

LEMMA Others ==
  ASSUME StudioInv, NEW n \in Names, NEW b \in Bodies, RemoteSave(n, b)
  PROVE  StudioInv'
<1>1. /\ library' = [library EXCEPT ![n] = b]
      /\ UNCHANGED <<list, details, verdicts, page, studio, posts, ran>>
  BY DEF RemoteSave, queries
<1>2. /\ library' \in [Names -> Bodies \cup {None}]
      /\ \A m \in Names : library[m] # None => library'[m] # None
  BY <1>1, Growing
<1>3. Types'
  BY <1>1, <1>2 DEF StudioInv, Types, IsStudio
<1>4. PostInv'
  <2>1. \A q \in DOMAIN posts : posts[q] \in Posts /\ Filed(posts[q]) /\ Asked(posts[q])
    BY DEF StudioInv, Types, PostInv
  <2>2. ASSUME NEW q \in DOMAIN posts
        PROVE  Filed(posts[q])' /\ Asked(posts[q])'
    <3>1. posts[q].there \subseteq Names
      BY <2>1 DEF Posts
    <3>2. posts[q].phase \in {"stored", "done"} => posts[q].doc.name \in Names
      BY <2>1 DEF Filed, Documents
    <3> QED BY <1>1, <1>2, <2>1, <3>1, <3>2 DEF Filed, Asked
  <2> QED BY <1>1, <2>2 DEF PostInv
<1> QED BY <1>1, <1>3, <1>4, BannerKept DEF StudioInv

-----------------------------------------------------------------------------
(* The invariant, and what follows from it. *)

\* Requests and the studio stay as StudioInv has them, whatever the order of
\* edits, answers, saves and other users.
LEMMA Invariance == Spec => []StudioInv
<1>1. Init => StudioInv
  <2> SUFFICES ASSUME Init PROVE StudioInv
    OBVIOUS
  <2>1. Types
    BY ScenarioStudioAssumption
    DEF Init, Types, Lists, Requests, Details, Pages, IsStudio, Runs
  <2>2. DOMAIN posts = {}
    BY DEF Init
  <2> QED BY <2>1, <2>2 DEF Init, StudioInv, PostInv, Told, NoStudio
<1>2. StudioInv /\ [Next]_vars => StudioInv'
  <2> SUFFICES ASSUME StudioInv, [Next]_vars PROVE StudioInv'
    OBVIOUS
  <2>1. CASE \/ ListServed \/ ListArrives \/ ListFails \/ Retry \/ Age
             \/ \E n \in Names : DetailArrives(n) \/ DetailFails(n)
    BY <2>1, Answers
  <2>2. CASE Debounce \/ Validate \/ \E t \in Texts : VerdictArrives(t)
    BY <2>2, Lookings
  <2>3. CASE UserEdits
    BY <2>3, Editings
  <2>4. CASE Save \/ Overwrite
    BY <2>4, Saving
  <2>5. ASSUME NEW p \in DOMAIN posts, Check(p) \/ Write(p) \/ SavedArrives(p) \/ SaveFails(p)
        PROVE  StudioInv'
    BY <2>5, Checking, Writing, Arriving, Failing
  <2>6. CASE \/ OpenDialog \/ CloseDialog \/ Run \/ RunCreated \/ RunFails
             \/ \E b \in Bodies : PickAdapter(Target[b])
    BY <2>6, Dialogs
  <2>7. ASSUME NEW to \in Names \cup {"library", "new"}, Go(to) PROVE StudioInv'
    BY <2>7, Going
  <2>8. ASSUME NEW n \in Names, NEW b \in Bodies, RemoteSave(n, b) PROVE StudioInv'
    BY <2>8, Others
  <2>9. CASE UNCHANGED vars
    BY <2>9 DEF vars, queries, StudioInv, Types, IsStudio, PostInv, Filed, Asked, Told
  <2> QED BY <2>1, <2>2, <2>3, <2>4, <2>5, <2>6, <2>7, <2>8, <2>9 DEF Next
<1> QED BY <1>1, <1>2, PTL DEF Spec

\* A scenario the user was told to be saved is in the list, unless the page
\* knows that the list is old, or took for fresh an answer the API had read
\* before: the answer to the save invalidates the list, what was read since has
\* the scenario, and what was stored is never removed.
THEOREM SavedScenariosListed == Spec => []SavedIsListed
<1>1. StudioInv => SavedIsListed
  BY DEF StudioInv, PostInv, Filed, SavedIsListed
<1> QED BY <1>1, Invariance, PTL

\* From the page of a new scenario nothing that was there when the button was
\* pressed is replaced before the user was told of it.
THEOREM NewScenariosAsk == Spec => NewAsksFirst
<1>1. StudioInv => \A p \in DOMAIN posts :
        Write(p) /\ posts[p].new /\ posts[p].told = None
          => posts[p].doc.name \notin posts[p].there
  BY DEF StudioInv, PostInv, Asked, Write
<1> QED BY <1>1, Invariance, PTL DEF NewAsksFirst

\* What is in the editor stays, and its studio too, in every step but an edit, a
\* link, the creation of a run, a failed request for the page's scenario and the
\* answer to its own save under another name.
THEOREM EditsKept == Spec => LateAnswersKeepEdits
<1> DEFINE Stays == /\ page' = page /\ studio'.mounted
                    /\ studio'.draft = studio.draft /\ studio'.raw = studio.raw
<1>1. StudioInv /\ [Next]_vars => [studio.mounted /\ ~UserEdits => Stays \/ Left]_vars
  <2> SUFFICES ASSUME StudioInv, [Next]_vars, studio.mounted, ~UserEdits, ~Left
               PROVE  Stays
    OBVIOUS
  <2>1. studio \in Studios
    BY DEF StudioInv, Types, IsStudio, NoStudio
  <2>2. ASSUME UNCHANGED <<page, studio>> PROVE Stays
    BY <2>2
  <2>3. CASE Debounce
    BY <2>1, <2>3 DEF Debounce, Studios
  <2>4. CASE OpenDialog \/ CloseDialog
    BY <2>1, <2>4 DEF OpenDialog, CloseDialog, Studios
  <2>5. CASE Run
    BY <2>1, <2>5 DEF Run, Studios
  <2>6. CASE RunFails
    BY <2>1, <2>6 DEF RunFails, Studios
  <2>7. ASSUME NEW b \in Bodies, PickAdapter(Target[b])
        PROVE  Stays
    BY <2>1, <2>7 DEF PickAdapter, Studios
  <2>8. CASE Save \/ Overwrite
    BY <2>1, <2>8 DEF Save, Overwrite, Persist, Studios
  <2>9. ASSUME NEW p \in DOMAIN posts, SaveFails(p)
        PROVE  Stays
    BY <2>1, <2>9 DEF SaveFails, Studios
  <2>10. ASSUME NEW p \in DOMAIN posts, SavedArrives(p)
         PROVE  Stays
    <3>1. ~(Mine(p) /\ Editing # posts[p].doc.name)
      BY <2>10 DEF Left
    <3>2. /\ \/ studio' = studio
             \/ studio' = [studio EXCEPT !.saved = posts[p].doc.name, !.save = "done"]
          /\ page' = page
      BY <2>10, <3>1 DEF SavedArrives
    <3> QED BY <2>1, <3>2 DEF Studios
  <2>11. ~\E to \in Names \cup {"library", "new"} : Go(to)
    BY DEF Left
  <2>12. ASSUME NEW n \in Names, DetailArrives(n) PROVE Stays
    BY <2>2, <2>12 DEF DetailArrives, Refresh
  <2>13. ASSUME NEW n \in Names, DetailFails(n) PROVE Stays
    BY <2>2, <2>13 DEF DetailFails, Left
  <2>14. ~RunCreated
    BY DEF Left
  <2>15. ListServed \/ ListArrives \/ ListFails \/ Retry \/ Age \/ Validate => Stays
    BY <2>2 DEF ListServed, ListArrives, ListFails, Retry, Age, Validate
  <2>16. ASSUME NEW t \in Texts, VerdictArrives(t) PROVE Stays
    BY <2>2, <2>16 DEF VerdictArrives
  <2>17. ASSUME NEW p \in DOMAIN posts, Check(p) \/ Write(p) PROVE Stays
    BY <2>2, <2>17 DEF Check, Write
  <2>18. ASSUME NEW n \in Names, NEW b \in Bodies, RemoteSave(n, b) PROVE Stays
    BY <2>2, <2>18 DEF RemoteSave
  <2>19. CASE UNCHANGED vars
    BY <2>2, <2>19 DEF vars
  <2> QED BY <2>3, <2>4, <2>5, <2>6, <2>7, <2>8, <2>9, <2>10, <2>11, <2>12, <2>13,
             <2>14, <2>15, <2>16, <2>17, <2>18, <2>19 DEF Next
<1> QED BY <1>1, Invariance, PTL DEF Spec, LateAnswersKeepEdits
=============================================================================
