------------------------------ MODULE MCVerification ------------------------------
(***************************************************************************)
(* Instances of VerificationRun for TLC.  A contract is about the order of *)
(* checks, about ids that clash and variables, about what selects a check, *)
(* or has one check for commands that meet over the files.                 *)
(***************************************************************************)
EXTENDS VerificationRun, TLC

Symmetry == Permutations(Runs)

MCPaths == {"apps/api/a.ts", "apps/api-docs/b.md", "db/c.sql"}

MCDirs ==
    "apps/" :> {"apps/api/a.ts", "apps/api-docs/b.md"} @@ "apps/api/" :> {"apps/api/a.ts"}
    @@ "apps/api-docs/" :> {"apps/api-docs/b.md"} @@ "db/" :> {"db/c.sql"}

\* Each path without its first three characters.
MCMangled ==
    "apps/api/a.ts" :> {"s/api/a.ts"} @@ "apps/api-docs/b.md" :> {"s/api-docs/b.md"}
    @@ "db/c.sql" :> {"c.sql"}

MCNames == MCPaths \cup DOMAIN MCDirs \cup UNION Range(MCMangled)

MCMatches ==
    "apps/api/*" :> {"apps/api/", "apps/api/a.ts"}
    @@ "apps/api-docs/**" :> {"apps/api-docs/", "apps/api-docs/b.md"}
    @@ "db/**" :> {"db/", "db/c.sql"} @@ "**/*.sql" :> {"db/c.sql"}

\* Stars anywhere but at the end are taken literally.
MCBegins == [MCMatches EXCEPT !["**/*.sql"] = {}]

\* About an application is what begins with its directory, about a service what has its name.
MCAbout ==
    "api" :> {"apps/api/", "apps/api/a.ts", "apps/api-docs/", "apps/api-docs/b.md"}
    @@ "sql" :> {"db/c.sql", "c.sql"}

Own == <<"apps/api/*", "apps/api-docs/**", "db/**">>

Claim(paths, components) == [paths |-> paths, components |-> components]

NoRules == [k \in 1 .. NumRules |-> NoClaims]

Plainly ==
    [id |-> <<1, 2, 3>>, requires |-> <<{}, {}, {}>>, rule |-> <<0, 1, 1>>, rules |-> NoRules,
     claims |-> <<NoClaims, NoClaims, NoClaims>>, unset |-> {}, optional |-> {}]

RulesFrom(d) == [i \in Defs |-> IF i <= d THEN 0 ELSE 1]

\* Of every order of requirements.
Ordered ==
    {[Plainly EXCEPT !.rule = RulesFrom(d), !.requires = needs] :
       d \in {0, 2}, needs \in [Defs -> SUBSET Ids]} \cap Contracts

\* With clashing ids, whatever they are, each check with a path of its own.
Clashing ==
    {[Plainly EXCEPT !.rule = RulesFrom(d), !.id = ids, !.unset = unset, !.optional = {2},
                     !.claims = [i \in Defs |-> Claim({Own[i]}, {})]] :
       d \in 0 .. 2, unset \in {{}, {1}, {2}, {3}, Defs},
       ids \in {<<1, 2, 3>>, <<1, 1, 2>>, <<1, 2, 1>>, <<1, 2, 2>>, <<1, 1, 1>>}}

RuleClaims ==
    {NoClaims, Claim({"apps/api/*"}, {}), Claim({"**/*.sql"}, {"api"}), Claim({}, {"sql"}), Claim({"db/**"}, {})}

\* A default, a check of a rule of its own and one of another rule, which may claim more.
Selecting ==
    {[Plainly EXCEPT !.rule = <<0, 1, 2>>, !.rules = <<first, second>>,
                     !.claims = <<NoClaims, NoClaims, own>>] :
       first \in RuleClaims, second \in {NoClaims, Claim({"**/*.sql"}, {"api"})},
       own \in {NoClaims, Claim({"apps/api-docs/**"}, {})}}
    \ {c \in Contracts : c.rules[2] # NoClaims /\ c.claims[3] # NoClaims}

Single == [Plainly EXCEPT !.id = <<1, 1, 1>>, !.rule = <<0, 0, 0>>]

Clean == [p \in Paths |-> "clean"]

Trees == {Clean, [Clean EXCEPT !["db/c.sql"] = "absent"],
          [Clean EXCEPT !["apps/api/a.ts"] = "absent", !["apps/api-docs/b.md"] = "untracked"],
          [Clean EXCEPT !["db/c.sql"] = "untracked", !["apps/api/a.ts"] = "committed"]}

MCRepositories ==
    [contract : Ordered \cup Clashing \cup {Single}, tree : {Clean}]
    \cup [contract : Selecting, tree : Trees]

\* How a contract tells what it is about.
IsSelecting(c) == c.rule[3] = 2
IsSingle(c) == c.rule[3] = 0 /\ c.claims[3] = NoClaims
IsClashing(c) == c.claims[1] # NoClaims

Told ==
    {[NoOptions EXCEPT !.all = mode = "all", !.changed = mode = "changed", !.base = base,
                       !.paths = asked.paths, !.components = asked.components] :
       mode \in {"git", "changed", "all"}, base \in {"HEAD", "older"},
       asked \in {NoClaims, Claim({"db/c.sql"}, {"api"})}}
    \ {o \in Options : (o.base = "older" /\ ~o.changed)
                       \/ ((o.all \/ o.base = "older") /\ o.paths # {})}

\* --check says which checks are ordered, --paths which of the clashing ones are selected.
MCOptionsFor(c) ==
    CASE IsSingle(c) -> {NoOptions}
      [] IsSelecting(c) -> Told
      [] IsClashing(c) -> {[NoOptions EXCEPT !.noDefault = no, !.paths = paths] :
                             no \in BOOLEAN, paths \in SUBSET Paths}
      [] OTHER -> {[NoOptions EXCEPT !.noDefault = TRUE, !.requested = ids] : ids \in SUBSET Ids}

Alone(r) == \A other \in Runs \ {r} : pc[other] = "idle"

\* Commands only meet over the files, where a contract with one check will do; the tree is
\* only edited, and git only fails, where the selection is looked at, and there no check is run.
MCNext ==
    \/ IsSelecting(contract) /\ EditTree
    \/ \E r \in Runs :
         /\ IsSingle(contract) \/ Alone(r)
         /\ Verify(r)
         /\ IsSelecting(contract) \/ Failed \notin {diff'[r], status'[r]}
         /\ IsSelecting(contract) => pc'[r] \in {"git", "plan", "unusable"} /\ skip'[r] = {}

MCInit == Init /\ (inTurn \/ IsSingle(contract))

MCSpec == MCInit /\ [][MCNext]_vars

=============================================================================
