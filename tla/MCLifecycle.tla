------------------------------- MODULE MCLifecycle -------------------------------
(* Instances of RuntimeLifecycle for TLC; the sizes are in the .cfg files. *)
EXTENDS RuntimeStatus, TLC

CONSTANT MaxMishaps  \* crashes, pids given away, Compose failures and troubles of one behaviour

\* Applications and pids are interchangeable, and so are the sessions.
Symmetry == Permutations(Sessions) \cup Permutations(Apps) \cup Permutations(Pids)

\* A startup has met a trouble; one that is cut short always has a warning.
Met(record, trouble) ==
    \/ trouble = "warnings" /\ record.warnings /\ record.status \notin {"interrupted", "timed_out"}
    \/ trouble = "ports" /\ record.portFailed
    \/ trouble = "health" /\ record.health # "succeeded"

FewMishaps ==
    Cardinality({c \in Commands : pc[c] = "crashed"})
        + Cardinality({p \in Pids : os[p].owner = Foreign})
        + Cardinality({s \in Sessions : mem[s].compose = "failed"})
        + Cardinality({m \in Sessions \X Troubles : Met(mem[m[1]], m[2])}) <= MaxMishaps

=============================================================================
