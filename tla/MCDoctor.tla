--------------------------------- MODULE MCDoctor ---------------------------------
(* Instances of DoctorRun for TLC; the sizes are in the .cfg files. *)
EXTENDS DoctorRun, TLC

\* Candidates are interchangeable, and so are problems, doctors and signals.
Symmetry ==
    Permutations(Doctors) \cup Permutations(Problems) \cup
    Permutations(Candidates) \cup Permutations(Signals)

\* The two stores have nothing in common but the phases of the doctor: a behaviour is
\* either about known problems or about legacy candidates, two updates of them at a time.
OneStore ==
    \/ /\ \A d \in Doctors : findings[d] = {}
       /\ Cardinality({l \in Legs : leg[l] # "idle"}) <= 2
    \/ \A l \in Legs : leg[l] = "idle" /\ candidateFile[l[2]] = NoFile

MCSpec == Init /\ [][Next /\ OneStore']_vars

=============================================================================
