-------------------------- MODULE MCScenarioComposer --------------------------
(***************************************************************************)
(* An instance of ScenarioComposer for TLC: two subsystems of the catalog, *)
(* one of which starts with a transient effect, and a document with every  *)
(* part the form does not edit.                                            *)
(***************************************************************************)
EXTENDS ScenarioComposer

CatalogAllowed ==
  [gnss |-> <<"unavailable", "intermittent">>, link |-> <<"restart", "disconnect">>]

CatalogParameters ==
  [unavailable  |-> <<>>,
   intermittent |-> <<[name |-> "period", type |-> "duration", range |-> {}],
                      [name |-> "duty_cycle", type |-> "ratio", range |-> {"0.4"}]>>,
   restart      |-> <<>>,
   disconnect   |-> <<>>]

CatalogSlugs ==
  [p \in {"gnss", "link"} \X {"unavailable", "intermittent", "restart", "disconnect"} |->
     CASE p[2] = "intermittent" -> 2 [] p[2] = "unavailable" -> 3
       [] p[2] = "disconnect"   -> 4 [] OTHER -> 5]

\* em-gnss before the slugs, em-link too.
ProfileSlugs == [gnss |-> 0, link |-> 1]

Starter ==
  [name |-> "starter", settings |-> "stored", recovery |-> "stored", timeout |-> 60,
   assertions |-> 1,
   events |-> <<[id |-> <<3, 1>>, at |-> 30, subsystem |-> "gnss",
                 effect |-> "unavailable", duration |-> 20, parameters |-> <<>>,
                 expect |-> <<>>]>>,
   labels |-> Absent, configuration |-> Absent, waypoints |-> Absent,
   profile |-> Absent, scoring |-> Absent]

Intermittent ==
  [Starter EXCEPT
     !.events = <<[id |-> <<2, 1>>, at |-> 30, subsystem |-> "gnss",
                   effect |-> "intermittent", duration |-> Blank,
                   parameters |-> <<[name |-> "duty_cycle", value |-> "0.4",
                                     type |-> "number"]>>,
                   expect |-> <<>>]>>,
     !.labels = "labels", !.scoring = "scoring"]

Profiled ==
  [name |-> "profiled", settings |-> "stored", recovery |-> "stored", timeout |-> 60,
   assertions |-> 0, events |-> <<>>,
   labels |-> Absent, configuration |-> "configuration", waypoints |-> "waypoints",
   profile |-> [at |-> 30, duration |-> 8,
                effects |-> <<[subsystem |-> "link", behaviour |-> "restart"],
                              [subsystem |-> "gnss", behaviour |-> "intermittent"]>>],
   scoring |-> Absent]

\* Bases are numbered in their order, and the base is before its suffixes.
Alphabetical == [id \in (0..5) \X (1..9) |-> 10 * id[1] + id[2]]

\* The id of a first injection of unavailable, whatever it is typed into.
TypedIds == {<<3, 1>>}

TypedTimes == {30, Junk}

Library == {Starter, Intermittent, Profiled}
=============================================================================
