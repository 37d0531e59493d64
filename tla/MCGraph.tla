-------------------------------- MODULE MCGraph --------------------------------
(* Instances of RepositoryGraph for TLC; the sizes are in the .cfg files. *)
EXTENDS RepositoryGraph, TLC

Text(print) ==
    [print |-> print, exports |-> <<>>, imports |-> <<>>, calls |-> <<>>, accesses |-> <<>>,
     handler |-> "", mentions |-> <<>>]
File(path, dirs, lang, text) ==
    [path |-> path, dirs |-> dirs, lang |-> lang, test |-> FALSE, named |-> "", text |-> text]
Fact(kind, path) ==
    [kind |-> kind, source |-> path, path |-> path, name |-> "", command |-> "", queue |-> "",
     service |-> "", route |-> "", method |-> "", mentions |-> <<>>, jobs |-> <<>>]

MCNoContract ==
    [valid |-> FALSE, present |-> FALSE, apps |-> <<>>, services |-> <<>>, generated |-> <<>>, unsafe |-> <<>>,
     setup |-> <<>>, checks |-> <<>>]

Handler ==
    File("api/a.ts", <<"api">>, "typescript",
         [Text("a1") EXCEPT !.exports = <<"get">>, !.imports = <<"api/b.ts", "gone">>, !.calls = <<"api/b.ts">>,
                            !.handler = "get"])
Model ==
    File("api/b.ts", <<"api">>, "typescript",
         [Text("b1") EXCEPT !.exports = <<"load">>,
                            !.accesses = <<[kind |-> "reads", table |-> "users"], [kind |-> "writes", table |-> "users"]>>])
Test ==
    [File("api/a.test.ts", <<"api">>, "typescript", [Text("t1") EXCEPT !.imports = <<"api/b.ts">>])
        EXCEPT !.test = TRUE, !.named = "api/a.ts"]
Manifest == File("package.json", <<>>, "manifest", [Text("m1") EXCEPT !.exports = <<"shop">>])
Readme == File("README.md", <<>>, "text", [Text("r1") EXCEPT !.mentions = <<"api/b.ts", "npm test">>])
Copy == File("docs/copy.md", <<"docs">>, "text", Text("r1"))

First ==
    [files |-> <<Readme, Copy, Handler, Model, Test, Manifest>>,
     facts |->
        <<[Fact("route", "api/a.ts") EXCEPT !.route = "/users", !.method = "GET"],
          [Fact("command", "package.json") EXCEPT !.path = "", !.name = "test", !.command = "npm test",
                                                  !.mentions = <<"api/a.test.ts">>],
          Fact("document", "README.md"), [Fact("workspace", "package.json") EXCEPT !.path = ""],
          [Fact("application", "api") EXCEPT !.name = "api"],
          [Fact("database", "package.json") EXCEPT !.path = "", !.name = "postgresql"]>>,
     contract |-> MCNoContract, problems |-> <<>>,
     candidates |-> <<[id |-> "old", status |-> "unreviewed", kind |-> "path", target |-> "api/b.ts"]>>]

\* The handler is moved, the model edited, a contract and more of everything come.
Second ==
    [files |-> <<Readme, [Handler EXCEPT !.path = "api/c.ts"],
                 [Model EXCEPT !.text.print = "b2"], [Test EXCEPT !.text.imports = <<"api/c.ts">>],
                 File("jobs/w.py", <<"jobs">>, "python", [Text("w1") EXCEPT !.exports = <<"run">>]),
                 [Manifest EXCEPT !.path = "jobs/package.json", !.dirs = <<"jobs">>],
                 File("jobs/v.py", <<"jobs">>, "python", [Text("v1") EXCEPT !.imports = <<"jobs/w.py">>])>>,
     facts |->
        <<[Fact("route", "api/c.ts") EXCEPT !.route = "/users", !.method = "GET"],
          [Fact("worker", "jobs/w.py") EXCEPT !.queue = "mail", !.service = "redis", !.command = "run jobs"],
          [Fact("generated", "api/b.ts") EXCEPT !.command = "npm run generate"],
          Fact("migration", "db"), Fact("seed", "jobs"), [Fact("database", "p") EXCEPT !.path = "", !.name = "postgresql"],
          [Fact("workflow", "ci.yml") EXCEPT !.jobs = <<[id |-> "test", commands |-> <<"npm test", "install">>]>>],
          Fact("instruction", "README.md")>>,
     contract |->
        [valid |-> TRUE, present |-> TRUE,
         apps |-> <<[id |-> "api", root |-> "api", entrypoint |-> "api/c.ts", commands |-> <<"start">>]>>,
         services |-> <<"redis">>,
         generated |-> <<[pattern |-> "dist", command |-> "npm run build", sources |-> <<"api/c.ts">>]>>,
         unsafe |-> <<"vendor">>,
         setup |-> <<[name |-> "migrate", command |-> "npm test"], [name |-> "seed", command |-> "seed"]>>,
         checks |-> <<[id |-> "unit", paths |-> <<"api">>, components |-> <<"api", "web">>]>>],
     problems |-> <<[id |-> "slow", status |-> "open", targets |-> <<"api/c.ts", "nowhere">>]>>,
     candidates |-> <<[id |-> "old", status |-> "unreviewed", kind |-> "path", target |-> "jobs/w.py"],
                      [id |-> "run", status |-> "unreviewed", kind |-> "symbol", target |-> "run"]>>]

MCWorlds == <<First, Second>>

MCNodeKinds == <<"file", "legacy_candidate", "route", "test">>

MCQuestions ==
    {[op |-> "status"],
     [op |-> "related", target |-> "api/a.ts", depth |-> 1],
     [op |-> "related", target |-> "docs/copy.md", depth |-> 3],
     [op |-> "explain", target |-> "old", depth |-> 2],
     [op |-> "path", source |-> <<"test", "api/a.test.ts">>, target |-> <<"table", "users">>, depth |-> 2],
     [op |-> "path", source |-> <<"route", "api/a.ts", "/users", "GET">>, target |-> <<"table", "users">>, depth |-> 1]}

Busy == {w \in Writers : step[w] \notin {"idle", "done", "failed"}}
FromRepository == {w \in Busy : step[w] \in DOMAIN ReadOrder \cup {"ingest"}}
Asking == \E r \in Readers : query[r].step \notin {"idle", "done"}

\* A clear runs alone; one build at a time reads the repository; and while a question is
\* answered no statement has failed and at most one writer is at work, with statements that
\* others can see the effect of.
Focus ==
    /\ ClearsAlone
    /\ Cardinality(FromRepository) <= 1
    /\ Asking => /\ Cardinality(Busy) <= 1 /\ failures = 0
                 /\ \A w \in Busy : step[w] \in {"ensure", "begin", "commit"} \cup DOMAIN ClearOrder

\* Edits come at the start of a build, and in the first one also after the inventory and before
\* the parts read the files; a millisecond passes before the parts of a second build start.
Passing ==
    /\ world' # world => \E w \in FromRepository :
           step[w] \in IF disk.builds = {} THEN {"inventory", "contract", "ingest"} ELSE {"inventory"}
    /\ clock' # clock => disk.builds # {} /\ \E w \in FromRepository : step[w] = "ingest"

MCSpec == Init /\ [][Next /\ Focus' /\ Passing]_vars

=============================================================================
