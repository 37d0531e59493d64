------------------------------ MODULE GraphParts ------------------------------
(***************************************************************************)
(* The graph of a repository, as graph-builder.ts makes it: sixteen parts  *)
(* read one context, each yields nodes, edges and evidence, and of the     *)
(* records of one id the last part's is kept.                              *)
(*                                                                         *)
(* An id hashes what identifies the record, and is that here: of a node    *)
(* <<kind, key, ...>>, of an edge its ends, kind and extractor, of a piece *)
(* of evidence <<kind, summary, where>>.  Labels, confidence and line      *)
(* numbers are left out; of the metadata, `meta` is the fingerprint of a   *)
(* file or the status of a candidate.  An absent string is "".             *)
(*                                                                         *)
(* A context holds                                                         *)
(*   files      <<[path, dirs, lang, test, named]>>  the inventory: the    *)
(*              directories above a file from the top, its language, is it *)
(*              a test and the source that its name then stands for        *)
(*   texts      path -> what the extractors read in the file, of those     *)
(*              that can be read: its fingerprint, what it exports,        *)
(*              imports, calls, accesses, mentions, its route handler      *)
(*   prints     path -> fingerprint                                        *)
(*   contract   the sections of a valid contract; none is all of them empty*)
(*   facts      <<[kind, source, path, name, command, queue, service,      *)
(*              route, method, jobs]>>                                     *)
(*   problems   <<[id, status, targets]>>                                  *)
(*   candidates <<[id, status, kind, target]>>                             *)
(***************************************************************************)
EXTENDS Integers, SequencesExt

---------------------------------------------------------------------------
(* Records.  A part keeps the first of its nodes of one id and the last of its edges.            *)

Node(id, path, evidence) == [id |-> id, path |-> path, meta |-> "", evidence |-> evidence]
FileNode(path, evidence) == Node(<<"file", path>>, path, evidence)
Repository(evidence) == Node(<<"repository", ".">>, "", evidence)

Edge(source, kind, target, extractor, evidence) ==
    [source |-> source, target |-> target, kind |-> kind, extractor |-> extractor, evidence |-> evidence]
EdgeId(e) == <<e.source, e.target, e.kind, e.extractor>>

Part(nodes, edges) ==
    [nodes    |-> {nodes[i] : i \in {j \in DOMAIN nodes : \A k \in 1 .. j - 1 : nodes[k].id # nodes[j].id}},
     edges    |-> {edges[i] : i \in {j \in DOMAIN edges :
                       \A k \in j + 1 .. Len(edges) : EdgeId(edges[k]) # EdgeId(edges[j])}},
     evidence |-> (UNION {r.evidence : r \in Range(nodes)}) \cup UNION {r.evidence : r \in Range(edges)}]

IsList(s) == s \in Seq(Range(s))
Over(s, of) == FlattenSeq([i \in DOMAIN s |-> of[s[i]]])
Each(s, Of(_)) == Over(s, [x \in Range(s) |-> Of(x)])
Those(s, Is(_)) == Each(s, LAMBDA x : IF Is(x) THEN <<x>> ELSE <<>>)
Given(text, s) == IF text = "" THEN <<>> ELSE s
Stated(texts) ==
    IF \A i \in DOMAIN texts : texts[i] = "" THEN ""
    ELSE texts[CHOOSE i \in DOMAIN texts : texts[i] # "" /\ \A j \in 1 .. i - 1 : texts[j] = ""]

OfKinds(c, kinds) == Those(c.facts, LAMBDA f : f.kind \in kinds)
FactEvidence(f) == {<<"scanner_fact", f.kind, f.source>>}
SourceEvidence(summary, path) == {<<"source_location", summary, path>>}
ContractEvidence(summary) == {<<"contract", summary, "">>}

Paths(c) == {f.path : f \in Range(c.files)}
OfLanguage(c, lang) == Those(c.files, LAMBDA f : f.lang = lang)
Readable(c, files) == Those(files, LAMBDA f : f.path \in DOMAIN c.texts)

---------------------------------------------------------------------------
(* The parts, in the order in which they are merged.                                              *)

ContractPart(c) ==
    LET e == ContractEvidence("Repository contract")
        repository == <<"repository", ".">>
        contains(id) == Edge(repository, "contains", id, "contract-ingest", e)
        application(a) == <<"application", a.id>>
        commands(a) == Each(a.commands, LAMBDA k : <<Node(<<"command", "application", a.id, k>>, "", e)>>)
    IN  IF ~c.contract.present THEN Part(<<>>, <<>>)
        ELSE Part(<<Repository(e)>>
                  \o Each(c.contract.apps, LAMBDA a : <<Node(application(a), "", e)>>
                          \o Given(a.entrypoint, <<FileNode(a.entrypoint, e)>>) \o commands(a))
                  \o Each(c.contract.services, LAMBDA s : <<Node(<<"service", s>>, "", e)>>)
                  \o Each(c.contract.generated, LAMBDA g : <<Node(<<"generated_artifact", g.pattern>>, g.pattern, e)>>)
                  \o Each(c.contract.unsafe, LAMBDA p : <<FileNode(p, e)>>),
                  Each(c.contract.apps, LAMBDA a : <<contains(application(a))>>
                       \o Given(a.entrypoint, <<Edge(application(a), "owns", <<"file", a.entrypoint>>, "contract-ingest", e)>>)
                       \o Each(commands(a), LAMBDA n : <<contains(n.id)>>))
                  \o Each(c.contract.services, LAMBDA s : <<contains(<<"service", s>>)>>)
                  \o Each(c.contract.generated, LAMBDA g : <<contains(<<"generated_artifact", g.pattern>>)>>)
                  \o Each(c.contract.unsafe, LAMBDA p :
                          <<Edge(repository, "unsafe_to_edit", <<"file", p>>, "contract-ingest", e)>>))

\* The kinds of facts that become a node of their own.
FactNodeKind ==
    [k \in {"application", "service", "worker", "route", "command", "generated", "document",
            "instruction", "skill", "workflow"} |->
        CASE k = "generated" -> "generated_artifact"
          [] k \in {"instruction", "skill"} -> "agent_instruction"
          [] k = "workflow" -> "ci_job"
          [] OTHER -> k]

FactPart(c) ==
    LET key(f) == Stated(<<f.path, f.name, f.command>>)
        mapped == Those(OfKinds(c, DOMAIN FactNodeKind), LAMBDA f : key(f) # "")
        id(f) == <<FactNodeKind[f.kind], key(f)>>
    IN  Part(<<Repository({})>> \o Each(mapped, LAMBDA f : <<Node(id(f), f.path, FactEvidence(f))>>),
             Each(mapped, LAMBDA f :
                 <<Edge(<<"repository", ".">>, "contains", id(f), "scanner-fact-ingest", FactEvidence(f))>>))

\* Directories from the top, each in the one above it.
Directories(f) == [i \in DOMAIN f.dirs |-> <<"directory", f.dirs[i]>>]

\* Bug: a directory is named by the file in it.
HolderByPath(f, i) == IF i = 0 THEN <<"repository", ".">> ELSE <<"directory", f.path>>

Holder(f, i) == IF i = 0 THEN <<"repository", ".">> ELSE Directories(f)[i]
Folder(f) == IF f.dirs = <<>> THEN "" ELSE f.dirs[Len(f.dirs)]

StructuralPart(c) ==
    LET e(f) == SourceEvidence("Tracked repository file", f.path)
        of(dir) == SourceEvidence("Repository directory", dir)
        manifest == Those(c.files, LAMBDA f : f.lang = "manifest")
        package(m) == <<"package", IF Folder(m) = "" THEN "." ELSE Folder(m)>>
        within(m) == Those(c.files, LAMBDA f : Folder(m) = "" \/ Folder(m) \in Range(f.dirs))
        workspace == \E f \in Range(c.facts) : f.kind = "workspace"
        root == IF workspace THEN Those(manifest, LAMBDA m : m.dirs = <<>>) ELSE <<>>
        owned(source, kind, id, evidence) == Edge(source, kind, id, "structural-nodes", evidence)
    IN  Part(<<Repository({})>>
             \o Each(c.files, LAMBDA f :
                     <<[FileNode(f.path, e(f)) EXCEPT !.meta = c.prints[f.path]]>>
                     \o [i \in DOMAIN f.dirs |-> Node(Directories(f)[i], f.dirs[i], of(f.dirs[i]))])
             \o Each(manifest, LAMBDA m : <<Node(package(m), Folder(m), SourceEvidence("Package manifest", m.path))>>)
             \o Each(root, LAMBDA m : <<Node(<<"workspace", ".">>, "", SourceEvidence("Workspace manifest", m.path))>>),
             Each(c.files, LAMBDA f :
                  <<owned(Holder(f, Len(f.dirs)), "contains", <<"file", f.path>>, e(f))>>
                  \o [i \in DOMAIN f.dirs |-> owned(Holder(f, i - 1), "contains", Directories(f)[i], of(f.dirs[i]))])
             \o Each(manifest, LAMBDA m :
                     LET s == SourceEvidence("Package manifest", m.path)
                     IN  <<owned(<<"repository", ".">>, "contains", package(m), s)>>
                         \o Each(within(m), LAMBDA f : <<owned(package(m), "owns", <<"file", f.path>>, s)>>))
             \o Each(root, LAMBDA r :
                     LET s == SourceEvidence("Workspace manifest", r.path)
                     IN  <<owned(<<"repository", ".">>, "contains", <<"workspace", ".">>, s)>>
                         \o Each(manifest, LAMBDA m : <<owned(<<"workspace", ".">>, "owns", package(m), s)>>)))

RuntimePart(c) ==
    LET e == IF c.contract.present THEN ContractEvidence("Repository contract") ELSE {}
        joined(source, kind, id, evidence) == Edge(source, kind, id, "runtime-nodes", evidence)
        contains(id, evidence) == joined(<<"repository", ".">>, "contains", id, evidence)
        units == Those(OfKinds(c, {"application", "worker"}), LAMBDA f : Stated(<<f.name, f.path>>) # "")
        unit(f) == <<f.kind, Stated(<<f.name, f.path>>)>>
        component(f) == <<"component", Stated(<<f.name, f.path>>)>>
        file(f) == <<"file", f.path>>
    IN  Part(<<Repository({})>>
             \o Each(c.contract.apps, LAMBDA a :
                     <<Node(<<"application", a.id>>, "", e), Node(<<"component", a.id>>, a.root, e)>>)
             \o Each(c.contract.services, LAMBDA s : <<Node(<<"service", s>>, "", e)>>)
             \o Each(units, LAMBDA f :
                     <<Node(unit(f), f.path, FactEvidence(f))>>
                     \o (IF f.kind = "application" /\ f.path # "" THEN <<Node(component(f), f.path, FactEvidence(f))>>
                         ELSE <<>>)),
             Each(c.contract.apps, LAMBDA a :
                  <<contains(<<"application", a.id>>, e),
                    joined(<<"component", a.id>>, "owns", <<"application", a.id>>, e)>>
                  \o Given(a.entrypoint, <<joined(<<"component", a.id>>, "owns", <<"file", a.entrypoint>>, e)>>)
                  \o Each(a.commands, LAMBDA k :
                          <<joined(<<"application", a.id>>, "runs", <<"command", "application", a.id, k>>, e)>>))
             \o Each(c.contract.services, LAMBDA s : <<contains(<<"service", s>>, e)>>)
             \o Each(units, LAMBDA f :
                     <<contains(unit(f), FactEvidence(f))>>
                     \o (IF f.path = "" THEN <<>>
                         ELSE IF f.kind = "worker" THEN <<joined(unit(f), "owns", file(f), FactEvidence(f))>>
                         ELSE <<joined(component(f), "owns", unit(f), FactEvidence(f)),
                                joined(component(f), "owns", file(f), FactEvidence(f))>>)))

Exports(c, lang, extractor) ==
    LET read == Readable(c, OfLanguage(c, lang))
        e(f, name) == SourceEvidence("Export " \o name, f.path)
    IN  Part(Each(read, LAMBDA f : <<FileNode(f.path, {})>>
                  \o Each(c.texts[f.path].exports, LAMBDA x : <<Node(<<"symbol", f.path, x>>, f.path, e(f, x))>>)),
             Each(read, LAMBDA f : Each(c.texts[f.path].exports, LAMBDA x :
                  <<Edge(<<"file", f.path>>, "exports", <<"symbol", f.path, x>>, extractor, e(f, x))>>)))

\* An import of a file that the inventory does not have, or of no package of the workspace, is
\* a warning and no edge.
Imports(c, lang, packages, extractor) ==
    LET read == Readable(c, OfLanguage(c, lang))
        local == {f.path : f \in Range(OfLanguage(c, lang))}
        e(f, to) == SourceEvidence("Import " \o to, f.path)
        resolved(f) == Those(c.texts[f.path].imports, LAMBDA to : to \in local \cup packages)
    IN  Part(Each(read, LAMBDA f : <<FileNode(f.path, {})>>
                  \o Each(resolved(f), LAMBDA to :
                          <<IF to \in local THEN FileNode(to, {}) ELSE Node(<<"package", to>>, "", e(f, to))>>)),
             Each(read, LAMBDA f : Each(resolved(f), LAMBDA to :
                  <<IF to \in local THEN Edge(<<"file", f.path>>, "imports", <<"file", to>>, extractor, e(f, to))
                    ELSE Edge(<<"file", f.path>>, "depends_on", <<"package", to>>, extractor, e(f, to))>>)))

WorkspacePackages(c) ==
    UNION {Range(c.texts[f.path].exports) : f \in Range(Readable(c, OfLanguage(c, "manifest")))}

TypeScriptSymbolPart(c) == Exports(c, "typescript", "typescript-symbol-index")
TypeScriptImportPart(c) == Imports(c, "typescript", WorkspacePackages(c), "typescript-import-graph")
PythonSymbolPart(c) == Exports(c, "python", "python-symbol-index")
PythonImportPart(c) == Imports(c, "python", {}, "python-import-graph")

Route(f) == <<"route", f.path, f.route, f.method>>
Under(c, path, root) ==
    root \in {".", path} \/ \E f \in Range(c.files) : f.path = path /\ root \in Range(f.dirs)

RoutePart(c) ==
    LET routes == Those(OfKinds(c, {"route"}), LAMBDA f : f.path # "")
        handles(source, target, evidence) == Edge(source, "handles_route", target, "route-index", evidence)
        handler(f) == IF f.path \in DOMAIN c.texts THEN c.texts[f.path].handler ELSE ""
        apps(f) == Those(c.contract.apps, LAMBDA a : Under(c, f.path, a.root))
    IN  Part(Each(routes, LAMBDA f : <<Node(Route(f), f.path, FactEvidence(f)), FileNode(f.path, FactEvidence(f))>>),
             Each(routes, LAMBDA f :
                 <<handles(Route(f), <<"file", f.path>>, FactEvidence(f))>>
                 \o Given(handler(f), <<handles(Route(f), <<"symbol", f.path, handler(f)>>,
                                                SourceEvidence("Route handler", f.path))>>)
                 \o Each(apps(f), LAMBDA a : <<handles(<<"application", a.id>>, Route(f), FactEvidence(f)),
                                               handles(<<"component", a.id>>, Route(f), FactEvidence(f))>>)))

RequestFlowPart(c) ==
    LET routes == Those(OfKinds(c, {"route"}), LAMBDA f : f.path \in DOMAIN c.texts)
        calls(f) == Those(c.texts[f.path].calls, LAMBDA to : to \in Paths(c))
    IN  Part(Each(routes, LAMBDA f : <<Node(Route(f), f.path, {})>> \o Each(calls(f), LAMBDA to : <<FileNode(to, {})>>)),
             Each(routes, LAMBDA f : Each(calls(f), LAMBDA to :
                 <<Edge(Route(f), "calls", <<"file", to>>, "request-flow", SourceEvidence("Direct route call", f.path))>>)))

IsSource(c, path) == \E f \in Range(c.files) : f.path = path /\ f.lang \in {"typescript", "python"}

WorkerPart(c) ==
    LET key(f) == Stated(<<f.path, f.command, f.service>>)
        workers == Those(OfKinds(c, {"worker"}), LAMBDA f : key(f) # "")
        \* What a worker is joined to, and how.
        joined(f) ==
            (IF IsSource(c, f.path) THEN <<<<"owns", FileNode(f.path, FactEvidence(f))>>>> ELSE <<>>)
            \o Given(f.queue, <<<<"depends_on", Node(<<"queue", f.queue>>, "", FactEvidence(f))>>>>)
            \o Given(f.command, <<<<"runs", Node(<<"command", "worker", f.command>>, "", FactEvidence(f))>>>>)
            \o Given(f.service, <<<<"depends_on", Node(<<"service", f.service>>, "", FactEvidence(f))>>>>)
    IN  Part(Each(workers, LAMBDA f : <<Node(<<"worker", key(f)>>, f.path, FactEvidence(f))>>
                  \o [i \in DOMAIN joined(f) |-> joined(f)[i][2]]),
             Each(workers, LAMBDA f : [i \in DOMAIN joined(f) |->
                  Edge(<<"worker", key(f)>>, joined(f)[i][1], joined(f)[i][2].id, "worker-flow", FactEvidence(f))]))

Setup(c, name) == Those(c.contract.setup, LAMBDA s : s.name = name)

DatabasePart(c) ==
    LET databases == Each(OfKinds(c, {"database"}), LAMBDA f : <<Node(<<"database", f.name>>, "", FactEvidence(f))>>)
        places == Those(OfKinds(c, {"migration", "seed"}), LAMBDA f : f.path # "")
        place(f) == IF f.kind = "migration" THEN Node(<<"migration", f.path>>, f.path, FactEvidence(f))
                    ELSE FileNode(f.path, FactEvidence(f))
        runner(f) == Each(Setup(c, IF f.kind = "migration" THEN "migrate" ELSE "seed"),
                          LAMBDA s : <<Node(<<"command", "setup", f.kind>>, "", FactEvidence(f))>>)
        sources == Readable(c, Those(c.files, LAMBDA f : IsSource(c, f.path)))
        accesses(f) == c.texts[f.path].accesses
        table(a) == <<"table", a.table>>
        e(f, a) == SourceEvidence(a.kind \o " " \o a.table, f.path)
        joined(source, kind, target, evidence) == Edge(source, kind, target, "database-access", evidence)
        \* The routes and workers of the scan that are in a file.
        units(f) == Each(Those(OfKinds(c, {"route", "worker"}), LAMBDA x : x.path = f.path),
                         LAMBDA x : <<IF x.kind = "route" THEN Route(x) ELSE <<"worker", x.path>>>>)
    IN  Part(databases
             \o Each(places, LAMBDA f : <<place(f)>> \o runner(f))
             \o Each(sources, LAMBDA f : Each(accesses(f), LAMBDA a :
                     <<FileNode(f.path, {}), Node(table(a), "", e(f, a))>>)),
             Each(places, LAMBDA f :
                  Each(databases, LAMBDA d : <<joined(place(f).id, "depends_on", d.id, FactEvidence(f))>>)
                  \o Each(runner(f), LAMBDA n : <<joined(n.id, "runs", place(f).id, FactEvidence(f))>>))
             \o Each(sources, LAMBDA f : Each(accesses(f), LAMBDA a :
                     Each(databases, LAMBDA d : <<joined(table(a), "contains", d.id, e(f, a))>>)
                     \o <<joined(<<"file", f.path>>, a.kind, table(a), e(f, a))>>
                     \o Each(units(f), LAMBDA u : <<joined(u, a.kind, table(a), e(f, a))>>))))

TestPart(c) ==
    LET tests == Those(c.files, LAMBDA f : f.test)
        sources == {f.path : f \in {g \in Range(c.files) : ~g.test}}
        named(f) == IF f.named \in sources THEN <<f.named>> ELSE <<>>
        imported(f) == IF f.path \in DOMAIN c.texts
                       THEN Those(c.texts[f.path].imports, LAMBDA to : to \in sources) ELSE <<>>
        tested(f, to, extractor, summary) ==
            Edge(<<"test", f.path>>, "tests", <<"file", to>>, extractor, SourceEvidence(summary, f.path))
    IN  Part(Each(tests, LAMBDA f : <<Node(<<"test", f.path>>, f.path, {})>>
                  \o Each(named(f) \o imported(f), LAMBDA to : <<FileNode(to, {})>>)),
             Each(tests, LAMBDA f :
                  Each(named(f), LAMBDA to : <<tested(f, to, "test-relations:naming", "Conventional test filename")>>)
                  \o Each(imported(f), LAMBDA to :
                          <<tested(f, to, "test-relations:import", "Test import " \o to)>>)))

GeneratedPart(c) ==
    LET facts == Those(OfKinds(c, {"generated"}), LAMBDA f : f.path # "")
        e == ContractEvidence("Repository contract generated path")
        artifact(path) == <<"generated_artifact", path>>
        command(text) == <<"command", "generate", text>>
        unsafe(source, path, evidence) == Edge(source, "unsafe_to_edit", <<"file", path>>, "generated-paths", evidence)
        generates(source, path, evidence) == Edge(source, "generates", artifact(path), "generated-paths", evidence)
        of(path, evidence) == <<Node(artifact(path), path, evidence), FileNode(path, evidence)>>
        by(text, evidence) == Given(text, <<Node(command(text), "", evidence)>>)
    IN  Part(Each(facts, LAMBDA f : of(f.path, FactEvidence(f)) \o by(f.command, FactEvidence(f)))
             \o Each(c.contract.generated, LAMBDA g : of(g.pattern, e) \o by(g.command, e)
                     \o Each(g.sources, LAMBDA p : <<FileNode(p, e)>>))
             \o Each(c.contract.unsafe, LAMBDA p : <<Repository(e), FileNode(p, e)>>),
             Each(facts, LAMBDA f : <<unsafe(artifact(f.path), f.path, FactEvidence(f))>>
                  \o Given(f.command, <<generates(command(f.command), f.path, FactEvidence(f))>>))
             \o Each(c.contract.generated, LAMBDA g : <<unsafe(artifact(g.pattern), g.pattern, e)>>
                     \o Given(g.command, <<generates(command(g.command), g.pattern, e)>>)
                     \o Each(g.sources, LAMBDA p : <<generates(<<"file", p>>, g.pattern, e)>>))
             \o Each(c.contract.unsafe, LAMBDA p : <<unsafe(<<"repository", ".">>, p, e)>>))

\* The commands known by their text: the scan's, then the contract's setup, the last one counts.
ScannedCommands(c) ==
    Each(Those(OfKinds(c, {"command"}), LAMBDA f : f.command # ""),
         LAMBDA f : <<[text |-> f.command, mentions |-> f.mentions, evidence |-> FactEvidence(f),
                       id |-> <<"command", "command", Stated(<<f.name, f.command>>), ".">>]>>)
SetupCommands(c) ==
    Each(c.contract.setup, LAMBDA s : <<[text |-> s.command, mentions |-> <<>>, id |-> <<"command", "setup", s.name>>,
                                         evidence |-> ContractEvidence("Repository contract reference")]>>)
ByText(commands) ==
    LET texts == {x.text : x \in Range(commands)}
    IN  [t \in texts |-> commands[CHOOSE i \in DOMAIN commands :
             commands[i].text = t /\ \A j \in i + 1 .. Len(commands) : commands[j].text # t].id]

ReferencePart(c) ==
    LET scanned == ScannedCommands(c)
        known == ByText(scanned \o SetupCommands(c))
        joined(source, kind, target, evidence) == Edge(source, kind, target, "reference-index", evidence)
        mentioned(x) == Those(x.mentions, LAMBDA p : p \in Paths(c))
        jobs == Each(Those(OfKinds(c, {"workflow"}), LAMBDA f : f.path # ""), LAMBDA f :
                     Each(f.jobs, LAMBDA j : <<[path |-> f.path, id |-> j.id, commands |-> j.commands,
                                                evidence |-> FactEvidence(f)]>>))
        run(j, text) == IF text \in DOMAIN ByText(scanned) THEN ByText(scanned)[text]
                        ELSE <<"command", "ci", j.path, j.id, text>>
        e == ContractEvidence("Repository contract reference")
        documents == Those(OfKinds(c, {"document", "instruction"}), LAMBDA f : f.path # "")
        document(f) == <<IF f.kind = "document" THEN "document" ELSE "agent_instruction", f.path>>
        said(f) == IF f.path \in DOMAIN c.texts THEN c.texts[f.path].mentions ELSE <<>>
        at(f, t) == SourceEvidence("Document reference " \o t, f.path)
    IN  Part(Each(scanned, LAMBDA x : <<Node(x.id, "", x.evidence)>> \o Each(mentioned(x), LAMBDA p : <<FileNode(p, {})>>))
             \o Each(jobs, LAMBDA j : <<Node(<<"ci_job", j.path, j.id>>, j.path, j.evidence)>>
                     \o Each(j.commands, LAMBDA t : <<Node(run(j, t), "", j.evidence)>>))
             \o Each(SetupCommands(c), LAMBDA x : <<Node(x.id, "", x.evidence)>>)
             \o Each(c.contract.checks, LAMBDA k :
                     <<Node(<<"verification_check", k.id>>, "", e), Node(<<"command", "verification", k.id>>, "", e)>>
                     \o Each(k.paths, LAMBDA p : <<FileNode(p, e)>>))
             \o Each(documents, LAMBDA f : <<Node(document(f), f.path, FactEvidence(f))>>
                     \o Each(Those(said(f), LAMBDA t : t \in Paths(c)), LAMBDA p : <<FileNode(p, {})>>)),
             Each(scanned, LAMBDA x :
                  Each(mentioned(x), LAMBDA p : <<joined(x.id, "references", <<"file", p>>, x.evidence)>>))
             \o Each(jobs, LAMBDA j : Each(j.commands, LAMBDA t :
                     <<joined(<<"ci_job", j.path, j.id>>, "runs", run(j, t), j.evidence)>>))
             \o Each(c.contract.checks, LAMBDA k :
                     <<joined(<<"verification_check", k.id>>, "runs", <<"command", "verification", k.id>>, e)>>
                     \o Each(k.paths, LAMBDA p : <<joined(<<"verification_check", k.id>>, "verifies", <<"file", p>>, e)>>)
                     \o Each(k.components, LAMBDA m :
                             <<joined(<<"verification_check", k.id>>, "verifies", <<"component", m>>, e)>>))
             \o Each(documents, LAMBDA f :
                     Each(Those(said(f), LAMBDA t : t \in Paths(c)), LAMBDA p :
                          <<joined(document(f), "documents", <<"file", p>>, at(f, p))>>)
                     \o Each(Those(said(f), LAMBDA t : t \in DOMAIN known), LAMBDA t :
                             <<joined(document(f), "documents", known[t], at(f, t))>>)))

\* What a record of the doctor is about: a file or a document only if the inventory has it.
DoctorTarget(c, kind, target, evidence) ==
    CASE kind = "path" -> IF target \in Paths(c) THEN <<FileNode(target, evidence)>> ELSE <<>>
      [] kind = "doc_reference" ->
             IF target \in Paths(c) THEN <<Node(<<"document", target>>, target, evidence)>> ELSE <<>>
      [] OTHER -> <<Node(<<kind, target>>, "", evidence)>>

DoctorPart(c) ==
    LET e(r) == {<<"doctor", r.id, "">>}
        record(kind, r) == [Node(<<kind, r.id>>, "", e(r)) EXCEPT !.meta = r.status]
        problem(p) == Each(p.targets, LAMBDA t : DoctorTarget(c, "path", t, e(p)))
        candidate(x) == DoctorTarget(c, x.kind, x.target, e(x))
        placed(x) == IF x.kind \in {"path", "doc_reference"} THEN x.target ELSE ""
        about(source, kind, targets, r) ==
            Each(targets, LAMBDA n : <<Edge(source, kind, n.id, "doctor-ingest", e(r))>>)
    IN  Part(Each(c.problems, LAMBDA p : <<record("known_problem", p)>> \o problem(p))
             \o Each(c.candidates, LAMBDA x :
                     <<[record("legacy_candidate", x) EXCEPT !.path = placed(x)]>> \o candidate(x)),
             Each(c.problems, LAMBDA p : about(<<"known_problem", p.id>>, "matched_known_problem", problem(p), p))
             \o Each(c.candidates, LAMBDA x : about(<<"legacy_candidate", x.id>>, "candidate_for", candidate(x), x)))

---------------------------------------------------------------------------
(* The merge: of the records of one id the one of the last part that has it. *)

Parts(c) ==
    <<ContractPart(c), FactPart(c), StructuralPart(c), RuntimePart(c),
      TypeScriptSymbolPart(c), TypeScriptImportPart(c), PythonSymbolPart(c), PythonImportPart(c),
      RoutePart(c), RequestFlowPart(c), WorkerPart(c), DatabasePart(c), TestPart(c), GeneratedPart(c),
      ReferencePart(c), DoctorPart(c)>>

MergedNodes(parts) ==
    UNION {{n \in parts[i].nodes : \A j \in i + 1 .. Len(parts) : \A m \in parts[j].nodes : m.id # n.id}
           : i \in DOMAIN parts}

\* No two parts have an extractor in common, nor then an edge.
MergedEdges(parts) == UNION {p.edges : p \in Range(parts)}

Graph(c) ==
    LET parts == Parts(c)
    IN  [nodes |-> MergedNodes(parts), edges |-> MergedEdges(parts),
         evidence |-> UNION {p.evidence : p \in Range(parts)}]

=============================================================================
