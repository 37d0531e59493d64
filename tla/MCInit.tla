--------------------------------- MODULE MCInit ---------------------------------
(* Instances of InitRun for TLC; the sizes are in the .cfg files. *)
EXTENDS InitRun, TLC

Folders == [d \in {".", "a", "b"} |-> IF d = "." THEN "application" ELSE d]
Directories == ("package.json" :> ".") @@ ("a/main.py" :> "a") @@ ("b/jobs.py" :> "b") @@ ("b/route.ts" :> "b")

Bare ==
    [packages |-> {}, projects |-> {}, frameworks |-> {}, entries |-> {}, routes |-> {}, workers |-> {},
     commands |-> {}, compose |-> {}, reads |-> {}, example |-> {}, uses |-> {}, imports |-> {},
     seeds |-> FALSE, outputs |-> {}, directory |-> Directories, folder |-> Folders]

\* One package with a server, a worker and a database; two packages of one name, one with routes;
\* and a Python project that is named like its cache, with an application in a file.
MCTrees ==
    {[Bare EXCEPT
        !.packages = {[dir |-> ".", name |-> "shop", scripts |-> {"install", "test"}]},
        !.frameworks = {[by |-> "framework", path |-> ".", name |-> "shop", type |-> "api",
                         confidence |-> "high", declares |-> TRUE]},
        !.entries = {[by |-> "entrypoint", path |-> "a/main.ts", application |-> "shop", confidence |-> "high"]},
        !.workers = {[path |-> "package.json", confidence |-> "high"]},
        !.compose = {[name |-> "db", type |-> "postgresql", environment |-> {"DB_PASSWORD"}]},
        !.commands = {[by |-> "compose", path |-> ".", category |-> "runtime", confidence |-> "high"],
                      [by |-> "makefile", path |-> "a", category |-> "seed", confidence |-> "low"],
                      [by |-> "github-actions", path |-> ".", category |-> "test", confidence |-> "high"]},
        !.example = {"API_URL", "API_TOKEN"}, !.uses = {"redis"}, !.seeds = TRUE,
        !.outputs = {[pattern |-> "dist/**", command |-> FALSE, glob |-> TRUE, lock |-> FALSE],
                     [pattern |-> "yarn.lock", command |-> FALSE, glob |-> FALSE, lock |-> TRUE]}],
     [Bare EXCEPT
        !.packages = {[dir |-> d, name |-> "web", scripts |-> {"test"}] : d \in {"a", "b"}},
        !.routes = {[by |-> "route", path |-> "b/route.ts"]},
        !.reads = {"API_URL"},
        !.commands = {[by |-> "devcontainer", path |-> ".", category |-> "setup", confidence |-> "high"]},
        !.compose = {[name |-> "search", type |-> "container", environment |-> {"discovery.type"}]}],
     [Bare EXCEPT
        !.projects = {[dir |-> "a", name |-> "cache", uses |-> {"redis"}]},
        !.frameworks = {[by |-> "python-framework", path |-> "a/main.py", name |-> "app", type |-> "api",
                         confidence |-> "high", declares |-> TRUE]},
        !.entries = {[by |-> "python-source", path |-> "a/main.py", application |-> "app", confidence |-> "high"]},
        !.routes = {[by |-> "python-route", path |-> "a/main.py"]},
        !.workers = {[path |-> "b/jobs.py", confidence |-> "low"]},
        !.compose = {[name |-> "cache", type |-> "redis", environment |-> {}]},
        !.commands = {[by |-> "python-command", path |-> "b", category |-> "seed", confidence |-> "high"],
                      [by |-> "dockerfile", path |-> ".", category |-> "runtime", confidence |-> "high"]},
        !.imports = {"redis"}, !.seeds = TRUE]}

Empty ==
    [purpose |-> Absent, applications |-> <<>>, services |-> <<>>, environment |-> <<>>,
     setup |-> <<>>, steps |-> <<>>, verification |-> [default |-> <<>>, components |-> {}],
     limitations |-> <<>>, related |-> <<>>,
     systems |-> <<>>, generated |-> <<>>, sensitive |-> <<>>, unsafe |-> <<>>]

App(needs) == [dir |-> "a", body |-> "edited", depends |-> needs, environment |-> {}]

\* A contract with decisions in every section, one that does not validate, and one whose
\* application has the id of a service that a scan finds.
MCDrafts ==
    {[Empty EXCEPT
        !.purpose = "sell",
        !.applications = <<"shop", 1>> :> App({<<"db", 1>>}),
        !.services = <<"db", 1>> :> [body |-> "edited", required |-> FALSE, environment |-> {"DB_PASSWORD"}],
        !.environment = "DB_PASSWORD" :> [secret |-> FALSE, localDefault |-> TRUE],
        !.unsafe = "dist/**" :> <<"edited", "edited again">>,
        !.systems = "API_URL" :> "edited",
        !.steps = <<[id |-> "one", depends |-> {}], [id |-> "two", depends |-> {"one"}]>>,
        !.verification = [default |-> <<>>, components |-> {<<"db", 1>>}],
        !.related = "lib" :> <<"x/lib", "y/lib">>],
     [Empty EXCEPT !.applications = <<"shop", 1>> :> App({<<"nowhere", 1>>})],
     [Empty EXCEPT !.applications = <<"db", 1>> :> App({})]}

MCProperNames == {"DB_PASSWORD", "API_URL", "API_TOKEN"}
MCSecretNames == {"DB_PASSWORD", "API_TOKEN"}

\* Scans in which a detector failed are followed one at a time, by inits that write without
\* force in a worktree that nobody edits; whole scans with the rest, but that the files only
\* change below Git and among inits that write.
Focus ==
    \/ /\ \A i \in Inits : failures[i] = {}
       /\ edits > 0 => place # "none" /\ \A i \in Inits : pc[i] # "idle" => mode[i] = "write"
    \/ /\ \A i \in Inits : pc[i] # "idle" => mode[i] = "write" /\ ~force[i]
       /\ Cardinality({i \in Inits : Running(i)}) <= 1 /\ edits = 0 /\ place = "toplevel"

\* What keeps git status from naming a file (it fails, the file is ignored, it is renamed) comes
\* one at a time, in the top level of a worktree, among inits that write without force.
Plain == renamed = {} /\ ignored = {} /\ \A i \in Inits : answered[i]
Odd ==
    /\ Cardinality({o \in {"failed", "ignored", "renamed"} :
           CASE o = "failed" -> \E i \in Inits : ~answered[i]
             [] o = "ignored" -> ignored # {}
             [] o = "renamed" -> renamed # {}}) <= 1
    /\ ignored \in {{}, Files} /\ place = "toplevel"
    /\ \A i \in Inits : failures[i] = {} /\ (pc[i] # "idle" => mode[i] = "write" /\ ~force[i])

MCStart == Init /\ (Plain \/ Odd)
MCSpec == MCStart /\ [][Next /\ (Plain \/ Odd)' /\ Focus']_vars

Symmetry == Permutations(Inits)

=============================================================================
