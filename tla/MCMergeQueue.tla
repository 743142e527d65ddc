--------------------------------- MODULE MCMergeQueue ---------------------------------
(***************************************************************************)
(* A model of MergeQueue: four subjects that pull requests may be about    *)
(* (dependencies, hooks and pins, test roots, dates), two pull requests.   *)
(***************************************************************************)
EXTENDS MergeQueue, TLC

CONSTANTS pr1, pr2

MCSymmetry == Permutations({pr1, pr2})

MCDists == {"pydantic", "helper", "omnibase-core", "omnibase-infra", "omnibase-compat"}
MCRequires ==
  [d \in MCDists |-> CASE d = "helper" -> {"omnibase-core"}
                       [] d = "omnibase-infra" -> {"omnibase-compat"}
                       [] OTHER -> {}]

Only(surface, values) == {[s \in {surface} |-> v] : v \in values}

Entry(d, sep, form, keys, note) ==
  [dist |-> d, sep |-> sep, form |-> form, keys |-> keys, note |-> note]
Needs(d, sep, group) == [dist |-> d, sep |-> sep, group |-> group]
pydantic == Needs("pydantic", "-", "project")

MCDependencyEdits ==
  Only("sources", {{Entry("omnibase-core", "_", "inline", {"git", "rev"}, note)} :
                     note \in {"none", "empty", "ticket"}}
                  \cup {{Entry("omnibase-core", ".", "inline", {"git"}, "none")},
                        {Entry("omnibase-compat", "-", "table", {"git"}, "none")},
                        {Entry("omnibase-core", "-", "inline", {"index"}, "none")}})
  \cup Only("imports", {{[stmt |-> "from", head |-> "upstream"]}, {[stmt |-> "relative", head |-> "longer"]},
                        {[stmt |-> "dynamic", head |-> "upstream"]}})
  \cup Only("lock", {{"pydantic", "helper"}, {"pydantic", "helper", "omnibase-core"}, NoLock})
  \cup Only("declared", {{pydantic, Needs("helper", "-", "project")},
                         {pydantic, Needs("omnibase-infra", ".", "dev")}})
  \cup {[declared |-> {pydantic, Needs(d, "-", "project")}, lock |-> Closure({"pydantic", d})] :
          d \in {"helper", "omnibase-compat"}}

Hook(language, entry, runs, stages) ==
  [language |-> language, entry |-> entry, runs |-> runs, stages |-> stages]
loud == <<{"cond", "notfound"}, {}, {"exit1"}>>
silent == <<{"cond", "notfound"}, {}, {"exit0"}>>
bypass == <<{"cond", "skipvar"}, {"exit0"}>>
reviewed == <<{"cond", "notfound"}, {"exit0", "ok"}>>
far == <<{"notfound"}, {}, {}, {"exit0"}>>

MCHookEdits ==
  Only("hooks", {{Hook("system", {}, <<"a">>, {"pre-push"})},
                 {Hook("script", {}, <<"b", "a">>, {"manual"})},
                 {Hook("system", {"notfound", "exit0"}, <<>>, {})},
                 {Hook("python", {}, <<"a">>, {"commit-msg"})}})
  \cup Only("scripts", {[a |-> text, b |-> loud] : text \in {silent, bypass, reviewed, far}}
                       \cup {[a |-> loud, b |-> silent]})
  \cup Only("installed", {{"pre-commit"}, {"pre-commit", "pre-push", "commit-msg"}})
  \cup Only("hookPin", {"old", NoPin}) \cup Only("ciPin", {"new", NoPin})
  \cup Only("ciPin2", {"old", "new"})
  \cup {[hookPin |-> "new", ciPin |-> "new"]}

\* Words that name directories: as a path, or as what an option leaves out.
MCDirs == "tests" :> {<<"tests">>} @@ "src" :> {<<"src">>} @@ "--ignore=" :> {<<"src", "tests", "unit">>}

MCTestEdits ==
  Only("testpaths", {{<<"tests">>}, {<<"tests">>, <<"src", "tests">>, <<"lib", "tests">>}, {}})
  \cup Only("testFiles", {{<<"tests">>, <<"src", "tests", "unit">>, <<"lib", "tests">>},
                          {<<"tests", "unit">>}, {<<"tests">>, <<"src", "tests">>, <<"tests", "build">>},
                          {<<"tests">>, <<"src", "tests">>, <<".venv", "tests">>, <<"scripts">>}})
  \cup Only("step", {<<"pytest", "-n", "4", "-x">>, <<"pytest", "tests">>, <<"pytest", "--n", "4">>,
                     <<"pytest", "--n", "-n", "4">>, <<"launcher", "tests">>, <<"pytest", "-n", "ini">>,
                     <<"pytest", "--ignore", "tests">>, <<"pytest", "--ignore=">>,
                     <<"pytest", "--ignore=", "src">>, NoStep})
  \cup Only("selector", {[derives |-> FALSE, roots |-> {<<"tests">>}],
                         [derives |-> FALSE, roots |-> {<<"tests">>, <<"src", "tests">>}]})
  \cup {[testpaths |-> {<<"tests">>}, testFiles |-> {<<"tests">>}]}

File(class, skip, date, sunset) == [class |-> class, skip |-> skip, date |-> date, sunset |-> sunset]

MCDateEdits ==
  UNION {Only(f, {File(TRUE, FALSE, date, NoDate) : date \in {NoDate, 1, 2}}
                 \cup {File(TRUE, TRUE, 1, NoDate), File(FALSE, FALSE, NoDate, 2)}) : f \in Files}

MCProposals == {MCDependencyEdits, MCHookEdits, MCTestEdits, MCDateEdits}

MCInitialDev ==
  [sources |-> {}, declared |-> {pydantic}, lock |-> {"pydantic"}, imports |-> {},
   hooks |-> {Hook("system", {}, <<"b">>, {"pre-commit"})}, installed |-> {"pre-commit", "pre-push"},
   scripts |-> [a |-> loud, b |-> loud], hookPin |-> "old", ciPin |-> "old", ciPin2 |-> NoPin,
   testpaths |-> {<<"tests">>, <<"src", "tests">>}, testFiles |-> {<<"tests">>, <<"src", "tests">>},
   step |-> <<"pytest", "-x">>, selector |-> [derives |-> TRUE, roots |-> {}],
   f1 |-> File(TRUE, FALSE, 1, NoDate), f2 |-> File(FALSE, FALSE, NoDate, NoDate)]

MCInitialIndex == MCDists \ {"omnibase-compat"}
MCRawWindows == {-1, 0}
====================================================================================
