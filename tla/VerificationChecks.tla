---------------------------- MODULE VerificationChecks ----------------------------
(***************************************************************************)
(* What `board verify` makes of the contract, of git and of its options:   *)
(* the checks the contract configures (check-normalizer.ts), the changes   *)
(* git shows (git.ts), the components they concern (component-impact.ts),  *)
(* the checks selected (selector.ts), those that missing environment       *)
(* blocks (environment.ts), and the status of a run (status.ts).           *)
(***************************************************************************)
EXTENDS Naturals, FiniteSets, Sequences

CONSTANTS
    NumChecks,  \* checks the contract configures
    NumRules,   \* rules they belong to
    Ids,        \* ids of checks
    Paths,      \* of the repository, that git does not ignore
    Names,      \* what git may name in place of paths, paths among them
    Dirs,       \* directory -> the paths in it; of several with the same paths the outermost
    Mangled,    \* path -> what parseStatusOutput makes of it as the old path of a move, if anything
    Begins,     \* pattern -> the names that begin with it, its trailing stars left out
    Matches,    \* pattern -> the names it matches as a glob
    About,      \* application or service -> the names that are taken to be about it
    NoRun

ASSUME ChecksAssumption ==
    /\ NumChecks \in Nat /\ NumRules \in Nat
    /\ DOMAIN Begins = DOMAIN Matches
    /\ Paths \cup DOMAIN Dirs \subseteq Names
    /\ \A d \in DOMAIN Dirs : Dirs[d] \subseteq Paths
    /\ Mangled \in [Paths -> SUBSET Names]

\* The configured checks, in the order normalizeVerificationChecks lists them.
Defs == 1 .. NumChecks

Patterns == DOMAIN Matches

Components == DOMAIN About

Claims == [paths : SUBSET Patterns, components : SUBSET Components]

NoClaims == [paths |-> {}, components |-> {}]

\* Defaults come first (rule 0), then what the rules configure.  Only a command of a rule can
\* require others, and it has no claims of its own; nothing refuses unknown ids, duplicate
\* ids or cycles.
Contracts ==
    {c \in [id       : [Defs -> Ids],
            requires : [Defs -> SUBSET Ids],
            rule     : [Defs -> 0 .. NumRules],
            rules    : [1 .. NumRules -> Claims],
            claims   : [Defs -> Claims],
            unset    : SUBSET Defs,      \* checks that name a variable that is not set
            optional : SUBSET Defs] :
       /\ \A i, j \in Defs : i <= j => c.rule[i] <= c.rule[j]
       /\ \A i \in Defs : c.requires[i] # {} => c.rule[i] # 0 /\ c.claims[i] = NoClaims}

Default(c, i) == c.rule[i] = 0

\* inheritList: what a check does not claim itself it has from its rule.
PathsOf(c, i) ==
    IF c.claims[i].paths # {} THEN c.claims[i].paths ELSE c.rules[c.rule[i]].paths

ComponentsOf(c, i) ==
    IF c.claims[i].components # {} THEN c.claims[i].components ELSE c.rules[c.rule[i]].components

\* The options that say what to select; --all and --changed exclude each other.
Options ==
    {o \in [all        : BOOLEAN,
            changed    : BOOLEAN,
            noDefault  : BOOLEAN,
            base       : {"HEAD", "older"},      \* --base or --since
            requested  : SUBSET Ids,             \* --check
            paths      : SUBSET Paths,           \* --paths
            components : SUBSET Components] :    \* --component
       ~(o.all /\ o.changed)}

-----------------------------------------------------------------------------
(* Git.  A path is as HEAD has it ("clean", "absent"), or not ("modified", "deleted", by *)
(* `git rm` "removed", "untracked", by `git mv` "moved" to another that has "arrived"), or *)
(* differs from an older ref only. *)

PathState ==
    {"clean", "absent", "modified", "deleted", "removed", "untracked", "moved", "arrived", "committed"}

\* Git has the path in its index.
Tracked(tree, p) == tree[p] \in {"clean", "modified", "deleted", "arrived", "committed"}

Differing(tree, base) ==
    {p \in Paths : \/ tree[p] \in {"modified", "deleted", "removed", "untracked", "moved", "arrived"}
                   \/ tree[p] = "committed" /\ base # "HEAD"}

\* git diff --name-only: nothing that is not tracked, and of a move the new path only.
DiffPaths(tree, base) == {p \in Differing(tree, base) : tree[p] \notin {"untracked", "moved"}}

\* The directories of a path in which git tracks nothing.
Bare(tree, p) == {d \in DOMAIN Dirs : p \in Dirs[d] /\ \A q \in Dirs[d] : ~Tracked(tree, q)}

\* How git names a change: without --untracked-files=all, which is not asked for, git status
\* names the outermost directory in which it tracks nothing in place of the paths in it.
NamedAs(tree, p) ==
    IF tree[p] = "untracked" /\ Bare(tree, p) # {}
    THEN {d \in Bare(tree, p) : \A e \in Bare(tree, p) : Dirs[e] \subseteq Dirs[d]}
    ELSE {p}

\* Bug: what git does not track is left out.
TrackedStatusPaths(tree) ==
    {p \in Paths : tree[p] \in {"modified", "deleted", "removed", "arrived"}}

\* git status --porcelain -z; the old path of a move is an entry of its own, of which
\* parseStatusOutput cuts off three characters and keeps the rest.
StatusPaths(tree) ==
    UNION {IF tree[p] = "moved" THEN Mangled[p] ELSE NamedAs(tree, p) : p \in Differing(tree, "HEAD")}

\* All that a change of a path may be named as.
NamesOf(p) == {p} \cup {d \in DOMAIN Dirs : p \in Dirs[d]} \cup Mangled[p]

-----------------------------------------------------------------------------
(* What is selected. *)

RuleComponents(c, k) ==
    c.rules[k].components \cup UNION {c.claims[i].components : i \in {i \in Defs : c.rule[i] = k}}

\* resolveVerificationComponentImpact: rules are matched as globs here.
Impacted(c, o, changed) ==
    o.components
    \cup (UNION {RuleComponents(c, k) :
                  k \in {k \in 1 .. NumRules :
                           \E p \in c.rules[k].paths : Matches[p] \cap changed # {}}})
    \cup {m \in Components : About[m] \cap changed # {}}

\* --changed leaves out the defaults as --no-default does.
IncludesDefaults(o) == ~o.noDefault /\ ~o.changed

\* The checks selectVerificationChecks comes across.  A path that was asked for selects what
\* begins with it, but impacts no component.
Chosen(c, o, changed) ==
    {i \in Defs :
       \/ c.id[i] \in o.requested
       \/ Default(c, i) /\ IncludesDefaults(o)
       \/ /\ ~Default(c, i)
          /\ \/ o.all
             \/ \E p \in PathsOf(c, i) : Begins[p] \cap (changed \cup o.paths) # {}
             \/ ComponentsOf(c, i) \cap Impacted(c, o, changed) # {}}

\* addSelected: of several with one id the first stays, and so there is nothing left for
\* deduplicateVerificationChecks to merge or to refuse.
Selected(c, o, changed) ==
    LET chosen == Chosen(c, o, changed) IN
    {i \in chosen : \A j \in chosen : c.id[j] = c.id[i] => i <= j}

IdsOf(c, S) == {c.id[i] : i \in S}

\* The selected check with an id.
CheckOf(c, S, id) == CHOOSE i \in S : c.id[i] = id

\* A variable that is not set, or empty, blocks the checks that name it, but optional ones.
Blocked(c) == c.unset \ c.optional

-----------------------------------------------------------------------------
(* What became of it. *)

Failure == {"failed", "timed_out"}

Outcome == {"passed", "blocked"} \cup Failure

RunStatus == {"not_configured", "failed", "blocked", "passed"}

\* Bug: a blocked check hides one that failed.
BlockedFirst(have) ==
    CASE have = {} -> "not_configured"
      [] "blocked" \in have -> "blocked"
      [] have \cap Failure # {} /\ "blocked" \notin have -> "failed"
      [] OTHER -> "passed"

\* classifyVerificationRunStatus
Classified(have) ==
    CASE have = {} -> "not_configured"
      [] have \cap Failure # {} -> "failed"
      [] have \cap Failure = {} /\ "blocked" \in have -> "blocked"
      [] have = {"passed"} -> "passed"

=============================================================================
