------------------------------ MODULE RunPages -------------------------------
(***************************************************************************)
(* The pages that list, compare and report on runs (app/runs/runs-view.tsx,*)
(* app/compare/compare-view.tsx, app/reports/reports-view.tsx), the        *)
(* queries they share (hooks/use-runs.ts) and the API they ask.            *)
(*                                                                         *)
(* A run is known by the order of its creation.  Runs are created and end  *)
(* while a page is open.  A query is known by its key, and its answer      *)
(* stays in the cache when another key or page is shown.  The filters for  *)
(* the adapter and the result do as that for the scenario.                 *)
(***************************************************************************)
EXTENDS Comparison, Sequences, SequencesExt

CONSTANTS ScenarioOf,   \* the scenario of each run, of the runs there may be
          EndsAs,       \* the state in which each run ends
          AnalysisOf,   \* what the analysis of each run is
          StoredRuns,   \* bound: the runs there are when a page is opened
          PAGE_SIZE,    \* rows of a page of the history
          PickLimit,    \* rows asked for by the pages that pick a run
          ANY,
          MaxIncidents, \* bound: failed requests
          MaxClicks     \* bound: clicks

Runs == DOMAIN ScenarioOf

ASSUME PagesAssumption ==
  /\ ScenarioOf \in Seq(Range(ScenarioOf)) /\ ANY \notin {"RUNNING", "COMPLETED", "FAILED"}
  /\ DOMAIN EndsAs = Runs /\ DOMAIN AnalysisOf = Runs
  /\ \A r \in Runs : EndsAs[r] \in {"COMPLETED", "FAILED"} /\ IsAnalysis(AnalysisOf[r])
  /\ StoredRuns \in Runs
  /\ {PAGE_SIZE, PickLimit} \subseteq Nat \ {0}
  /\ {MaxIncidents, MaxClicks} \subseteq Nat

VARIABLES
  stored,  \* the state of each run of the database, the oldest first
  cache,   \* the queries that were asked so far
  address, \* the page in front and what its address names
  pending, \* the address that a navigation under way leads to, or None
  list,    \* filters and offset of the history, and the key it showed last
  counts   \* what was used of the bounds

vars == <<stored, cache, address, pending, list, counts>>

States == {"RUNNING", "COMPLETED", "FAILED"}
Filters == [state : {ANY, "RUNNING", "COMPLETED"}, scenario : {ANY} \cup Range(ScenarioOf)]
NoFilter == [state |-> ANY, scenario |-> ANY]

History    == [page |-> "runs"]
CompareOf(b, c) == [page |-> "compare", baseline |-> b, candidate |-> c]
ReportOf(r) == [page |-> "reports", run |-> r]

Minimum(m, n) == IF m < n THEN m ELSE n

------------------------------------------------------------------------------
(* The API *)

Matches(r, filter) ==
  /\ filter.state \in {ANY, stored[r]}
  /\ filter.scenario \in {ANY, ScenarioOf[r]}

Matching(filter) == {r \in DOMAIN stored : Matches(r, filter)}

\* The i-th newest of some runs.
Newest(runs, i) ==
  CHOOSE r \in runs : Cardinality({s \in runs : s < r}) = Cardinality(runs) - i

\* Mutant: the offset is taken for the first row.
ListRunsLate(filter, limit, offset) ==
  LET found == Matching(filter)
      total == Cardinality(found)
      past  == offset + Minimum(offset, 1)
  IN  [ runs  |-> [i \in 1..(Minimum(offset + limit, total) - past) |->
                     LET r == Newest(found, past + i) IN [id |-> r, state |-> stored[r]]],
        total |-> total ]

\* list_runs: the newest first, from an offset, and how many there are in all.
ListRuns(filter, limit, offset) ==
  LET found == Matching(filter)
      total == Cardinality(found)
  IN  [ runs  |-> [i \in 1..(Minimum(offset + limit, total) - offset) |->
                     LET r == Newest(found, offset + i) IN [id |-> r, state |-> stored[r]]],
        total |-> total ]

Analysis(r) == IF stored[r] = "COMPLETED" THEN AnalysisOf[r] ELSE None

\* The answer to a query.  A comparison is known by the runs it is about.
AnswerTo(key) ==
  CASE key[1] = "runs"    -> ListRuns(key[2], key[3], key[4])
    [] key[1] = "compare" -> [baseline |-> key[2], candidate |-> key[3]]
    [] key[1] = "report"  -> [run |-> key[2]]
    [] key[1] = "run"     -> [run |-> key[2], state |-> stored[key[2]]]

\* A run is created, or one ends.
Create ==
  /\ Len(stored) + 1 \in Runs
  /\ stored' = Append(stored, "RUNNING")
  /\ UNCHANGED <<cache, address, pending, list, counts>>

Finish ==
  /\ \E r \in DOMAIN stored :
       stored[r] = "RUNNING" /\ stored' = [stored EXCEPT ![r] = EndsAs[r]]
  /\ UNCHANGED <<cache, address, pending, list, counts>>

------------------------------------------------------------------------------
(* The queries *)

ListKey(filter, limit, offset) == <<"runs", filter, limit, offset>>

ASSUME KeyAssumption ==
  \A f \in Filters, o \in 0..Len(ScenarioOf) : ListKey(f, PAGE_SIZE, o) # None

HistoryKey(l) == ListKey(l.filter, PAGE_SIZE, l.offset)

\* The completed runs that the other two pages offer: one query for both.
PickKey == ListKey([NoFilter EXCEPT !.state = "COMPLETED"], PickLimit, 0)

CompareKey(b, c) == <<"compare", b, c>>

\* The queries that a page uses and has enabled.
Observed(addr, l) ==
  CASE addr.page = "runs"    -> {HistoryKey(l)}
    [] addr.page = "compare" ->
         {PickKey} \cup (IF None \in {addr.baseline, addr.candidate} THEN {}
                         ELSE {CompareKey(addr.baseline, addr.candidate)})
    [] addr.page = "reports" ->
         {PickKey} \cup (IF addr.run = None THEN {}
                         ELSE {<<"report", addr.run>>, <<"run", addr.run>>})

Unasked == [status |-> "pending", data |-> None, busy |-> TRUE]

Query(key) == IF key \in DOMAIN cache THEN cache[key] ELSE [Unasked EXCEPT !.busy = FALSE]

HasData(q) == q.data # None

Fetching(q) == [q EXCEPT !.busy = TRUE, !.status = IF HasData(q) THEN @ ELSE "pending"]

\* The cache once a page uses other keys: what has no answer is asked, and so is
\* an answer that is no longer fresh.
Uses(keys, stale) ==
  [key \in DOMAIN cache \cup keys |->
     IF key \notin DOMAIN cache THEN Unasked
     ELSE IF key \in keys /\ (stale \/ ~HasData(cache[key])) THEN Fetching(cache[key])
     ELSE cache[key]]

\* Mutant: a list is asked for once.
DueOnce(key) == Query(key).busy

\* A request under way, or sent by the interval at which a list that is shown is
\* asked for: three seconds when it has a run that goes on, else twenty.
Due(key) ==
  \/ Query(key).busy
  \/ key[1] = "runs" /\ key \in Observed(address, list)

Serve(key) ==
  /\ Due(key)
  /\ cache' = [cache EXCEPT ![key] = [status |-> "ok", data |-> AnswerTo(key), busy |-> FALSE]]
  /\ list' = IF address.page = "runs" /\ key = HistoryKey(list)
               THEN [list EXCEPT !.last = key] ELSE list
  /\ UNCHANGED <<stored, address, pending, counts>>

\* A failed request: for a list after it was sent again once.
Fail(key) ==
  /\ Due(key) /\ counts.incidents < MaxIncidents
  /\ cache' = [cache EXCEPT ![key].status = "error", ![key].busy = FALSE]
  /\ counts' = [counts EXCEPT !.incidents = @ + 1]
  /\ UNCHANGED <<stored, address, pending, list>>

Click == counts.clicks < MaxClicks /\ counts' = [counts EXCEPT !.clicks = @ + 1]

\* The button of an error; that of the runs to pick is on the page of the reports.
Retry ==
  /\ \E key \in Observed(address, list) :
       /\ Query(key).status = "error" /\ ~Query(key).busy
       /\ key[1] # "run" /\ (key = PickKey => address.page = "reports")
       /\ cache' = [cache EXCEPT ![key] = Fetching(@)]
  /\ Click
  /\ UNCHANGED <<stored, address, pending, list>>

------------------------------------------------------------------------------
(* The history *)

\* What the history shows: until the first answer to a key the rows of the last
\* one stay, and an error takes them away.
Placeholder == Query(HistoryKey(list)).status = "pending" /\ list.last # None

Shown ==
  IF Placeholder THEN cache[list.last].data
  ELSE IF HasData(Query(HistoryKey(list))) THEN Query(HistoryKey(list)).data
  ELSE [runs |-> <<>>, total |-> 0]

\* No filter is set, or one that a run which matches it goes on to match.
Growing(filter) == filter.state \notin {"RUNNING"}

ListBody ==
  LET q == Query(HistoryKey(list))
  IN  IF q.status = "error" THEN "error"
      ELSE IF q.status = "pending" /\ ~Placeholder THEN "loading"
      ELSE IF Shown.runs = <<>> THEN "empty"
      ELSE "rows"

\* Another filter or another page: what was shown stays until the answer.
Turn(filter, offset) ==
  LET l    == [list EXCEPT !.filter = filter, !.offset = offset]
      kept == IF HasData(Query(HistoryKey(l))) THEN HistoryKey(l) ELSE list.last
  IN  /\ address.page = "runs" /\ Click
      /\ list' = [l EXCEPT !.last = kept]
      /\ \E stale \in BOOLEAN : cache' = Uses({HistoryKey(l)}, stale)
      /\ UNCHANGED <<stored, address, pending>>

SetFilter ==
  \E filter \in Filters :
    /\ \E f \in {"state", "scenario"} :
         filter[f] # list.filter[f] /\ filter = [list.filter EXCEPT ![f] = filter[f]]
    /\ Turn(filter, 0)

ResetFilters == list.filter # NoFilter /\ Turn(NoFilter, 0)

\* Mutant: there is one page more.
LastPageLate(total, offset) == offset + PAGE_SIZE > total

LastPage(total, offset) == offset + PAGE_SIZE >= total

NextPage ==
  /\ Shown.total > PAGE_SIZE /\ ~LastPage(Shown.total, list.offset)
  /\ Turn(list.filter, list.offset + PAGE_SIZE)

PreviousPage ==
  /\ Shown.total > PAGE_SIZE /\ list.offset > 0
  /\ Turn(list.filter, IF list.offset > PAGE_SIZE THEN list.offset - PAGE_SIZE ELSE 0)

------------------------------------------------------------------------------
(* The way from page to page *)

Completed(rows) == {r \in Range(rows) : r.state = "COMPLETED"}

\* A click that leads to another address; one that is under way is given up.
Go(addr) ==
  /\ addr # address /\ Click
  /\ pending' = addr
  /\ UNCHANGED <<stored, cache, address, list>>

\* The links of the pages.
Follow == Go(History) \/ Go(CompareOf(None, None)) \/ Go(ReportOf(None))

\* The buttons of a row of the history.
FollowRow ==
  /\ address.page = "runs" /\ ListBody = "rows"
  /\ \E r \in Completed(Shown.runs) :
       Go(ReportOf(r.id)) \/ Go(CompareOf(r.id, None)) \/ Go(CompareOf(None, r.id))

Offered == IF HasData(Query(PickKey)) THEN Range(Query(PickKey).data.runs) ELSE {}

\* A run is picked: the other one is that of the address shown.
Pick ==
  /\ address.page = "compare"
  /\ \E r \in Offered :
       Go([address EXCEPT !.baseline = r.id]) \/ Go([address EXCEPT !.candidate = r.id])

SelectReport ==
  /\ address.page = "reports" /\ Query(PickKey).status # "error"
  /\ \E r \in Offered : Go(ReportOf(r.id))

NewList == [filter |-> NoFilter, offset |-> 0, last |-> None]

\* The new page is rendered.  A history that is mounted again has no filters.
Navigate ==
  /\ pending # None
  /\ address' = pending /\ pending' = None
  /\ list' = IF pending.page = address.page THEN list
             ELSE IF pending.page = "runs" /\ HasData(Query(HistoryKey(NewList)))
               THEN [NewList EXCEPT !.last = HistoryKey(NewList)]
             ELSE NewList
  /\ \E stale \in BOOLEAN :
       cache' = Uses(IF pending.page = address.page
                       THEN Observed(pending, list) \ Observed(address, list)
                       ELSE Observed(pending, NewList), stale)
  /\ UNCHANGED <<stored, counts>>

\* The body of the comparison, and that of the report.
ComparisonBody ==
  LET q == Query(CompareKey(address.baseline, address.candidate))
  IN  IF None \in {address.baseline, address.candidate} THEN "pick"
      ELSE IF q.status = "error" THEN "unavailable"
      ELSE IF ~HasData(q) THEN "loading" ELSE "shown"

Compared == Query(CompareKey(address.baseline, address.candidate)).data

\* The runs that the two sides of a comparison are about.
Sides == {Compared.baseline, Compared.candidate}

\* The verdict that is said in a sentence.
Headline(c) == [verdict |-> c.verdict, improvements |-> c.improvements,
                regressions |-> c.regressions]

\* A row of a metric: who is better, or that it only moved.
MetricTable(c) == c.metrics

\* The bars of a dimension: one that a run does not have is drawn as none.
DimensionBars(b, c) ==
  LET points(run, d) == IF d \in DOMAIN Score(run) THEN Score(run)[d].points ELSE 0
      rows           == Compare(b, c).dimensions
  IN  [d \in DOMAIN rows |->
         [base |-> points(b, d), cand |-> points(c, d), verdict |-> rows[d]]]

\* The table of the assertions, or that there is none.
AssertionTable(c) == IF DOMAIN c.assertions = {} THEN None ELSE c.assertions

Undecided(c) == \E a \in DOMAIN c.assertions : AssertionTable(c)[a] = "changed"

ReportBody ==
  LET q == Query(<<"report", address.run>>)
  IN  IF address.run = None THEN "select"
      ELSE IF q.status = "error" THEN "not ready"
      ELSE IF ~HasData(q) THEN "loading" ELSE "shown"

\* A page is opened by its address: the history with the filters of it, and the
\* comparison by the button of a completed run.
Init ==
  /\ stored \in {[r \in 1..StoredRuns |-> IF r = 1 THEN EndsAs[1] ELSE "RUNNING"]}
  /\ address \in {History} \cup
       {CompareOf(r, None) : r \in {r \in DOMAIN stored : stored[r] = "COMPLETED"}}
  /\ list \in [filter : {NoFilter, [NoFilter EXCEPT !.state = "RUNNING"]}, offset : {0}, last : {None}]
  /\ cache = [key \in Observed(address, list) |-> Unasked]
  /\ pending = None
  /\ counts = [incidents |-> 0, clicks |-> 0]

Next ==
  \/ Create \/ Finish
  \/ \E key \in DOMAIN cache : Serve(key) \/ Fail(key)
  \/ Retry \/ SetFilter \/ ResetFilters \/ NextPage \/ PreviousPage
  \/ Follow \/ FollowRow \/ Pick \/ SelectReport \/ Navigate

Spec == Init /\ [][Next]_vars

\* What is shown is asked for and answered, and a navigation arrives.
FairSpec ==
  /\ Spec
  /\ \A kind \in {"runs", "compare", "report", "run"} :
       WF_vars(\E key \in Observed(address, list) : key[1] = kind /\ Serve(key))
  /\ WF_vars(Navigate)
------------------------------------------------------------------------------
(* Properties *)

TypeOK ==
  /\ Len(stored) \in 0..Cardinality(Runs) /\ Range(stored) \subseteq States
  /\ \A key \in DOMAIN cache :
       cache[key].status \in {"pending", "ok", "error"} /\ cache[key].busy \in BOOLEAN
  /\ address.page \in {"runs", "compare", "reports"}
  /\ list.filter \in Filters /\ list.offset \in 0..Cardinality(Runs)
  /\ Observed(address, list) \subseteq DOMAIN cache

\* What is shown is what was asked for: rows of the filters that are set, the
\* newest first, a comparison of the two runs that are picked and the report of
\* the one that is selected, whatever the cache holds of others.
ShownIsAsked ==
  /\ address.page = "runs" /\ ~Placeholder =>
       /\ \A row \in Range(Shown.runs) :
            /\ list.filter.state \in {ANY, row.state}
            /\ list.filter.scenario \in {ANY, ScenarioOf[row.id]}
       /\ \A i, j \in DOMAIN Shown.runs : i < j => Shown.runs[i].id > Shown.runs[j].id
  /\ address.page = "compare" /\ ComparisonBody = "shown" =>
       /\ Compared = [baseline |-> address.baseline, candidate |-> address.candidate]
       /\ \A r \in Sides : stored[r] = "COMPLETED"
  /\ address.page = "reports" /\ ReportBody = "shown" =>
       Query(<<"report", address.run>>).data.run = address.run

\* The history without filters is never turned to a page behind its last one,
\* though the buttons go by the rows of another page or of other filters until
\* there is an answer.
NoEmptyPage ==
  address.page = "runs" /\ list.filter = NoFilter /\ ~Placeholder /\ ListBody = "empty" =>
    Shown.total = 0

\* The pages show what was asked for, and rows where there are any.
ShowsWhatIsAsked == ShownIsAsked /\ NoEmptyPage

\* An answer to the page that is shown passes over no run that comes after the last
\* row of the page before it, as that was answered last, whatever was created and
\* ended in between, unless runs leave the filter.  So it is of a page that is turned
\* to for the first time, and of one that was in the cache once it is answered anew:
\* until then the rows it had may well leave a gap.
PagesSkipNone ==
  [][LET key    == HistoryKey(list)
         before == Query(ListKey(list.filter, PAGE_SIZE, list.offset - PAGE_SIZE))
         rows   == cache'[key].data.runs
     IN  (/\ address.page = "runs" /\ key \in DOMAIN cache /\ Serve(key)
          /\ HasData(before) /\ Len(before.data.runs) = PAGE_SIZE
          /\ Growing(list.filter)) =>
           ~\E r \in DOMAIN stored :
              /\ Matches(r, list.filter) /\ r < Last(before.data.runs).id
              /\ rows = <<>> \/ r > rows[1].id]_vars

\* A run that is listed as going on and ended is eventually listed as it ended,
\* or no longer, after any trouble.
Behind == address.page = "runs" /\ \E row \in Range(Shown.runs) : row.state # stored[row.id]

RowsCatchUp == Behind ~> ~Behind

\* A page that loads comes to show something: rows, a comparison, a report, or
\* that there is none.
Loading ==
  CASE address.page = "runs"    -> ListBody = "loading"
    [] address.page = "compare" -> ComparisonBody = "loading"
    [] address.page = "reports" -> ReportBody = "loading"

LoadingEnds == Loading ~> ~Loading

\* No page stays behind the database or at loading.
PagesCatchUp == RowsCatchUp /\ LoadingEnds

\* A comparison that is shown tells the opposite when its runs trade places: metric
\* by metric, and in all unless an assertion was not decided.  A dimension of the
\* score does where it is listed both ways, and the same ones are when neither run
\* has a profile that leaves out a dimension of the other.
VerdictMirrors ==
  address.page = "compare" /\ ComparisonBody = "shown" =>
    LET b     == Analysis(Compared.baseline)
        c     == Analysis(Compared.candidate)
        there == Compare(b, c)
        back  == Compare(c, b)
    IN  /\ \A k \in DOMAIN MetricTable(there) :
             MetricTable(back)[k] = Opposite(MetricTable(there)[k])
        /\ ScoredAlike(b, c) => DOMAIN DimensionBars(c, b) = DOMAIN DimensionBars(b, c)
        /\ \A d \in DOMAIN DimensionBars(b, c) \cap DOMAIN DimensionBars(c, b) :
             LET bar == DimensionBars(b, c)[d]
             IN  DimensionBars(c, b)[d] =
                   [base |-> bar.cand, cand |-> bar.base, verdict |-> Opposite(bar.verdict)]
        /\ ~Undecided(there) /\ ~Undecided(back) =>
             Headline(back) = [ verdict      |-> Opposite(there.verdict),
                                improvements |-> there.regressions,
                                regressions  |-> there.improvements ]

\* runs-view.tsx:152 says of an empty list "No run matches these filters".
EmptyMeansNone == address.page = "runs" /\ ListBody = "empty" => Shown.total = 0

\* compare-view.tsx:33 says of the verdict unchanged "No metric moved between the
\* two runs."
UnchangedMeansUnmoved ==
  address.page = "compare" /\ ComparisonBody = "shown" =>
    LET shown == Compare(Analysis(Compared.baseline), Analysis(Compared.candidate))
    IN  shown.verdict = "unchanged" => Range(shown.metrics) = {"unchanged"}

\* Both runs that were picked are in the address in the end.
KeepsOtherRole ==
  [][address.page = "compare" /\ pending # None /\ pending' # None /\ pending' # pending
       /\ pending.page = "compare" /\ pending'.page = "compare" /\ pending'.baseline # pending.baseline
     => pending'.candidate = pending.candidate]_vars
=============================================================================
