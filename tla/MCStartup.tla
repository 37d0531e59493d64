-------------------------------- MODULE MCStartup --------------------------------
(* Instances of StartupSteps for TLC; the sizes are in the .cfg files. *)
EXTENDS StartupSteps

\* Setup and what it starts are each varied with the other held simple: the two meet only
\* in the errors that setup leaves behind.
SimpleSetup ==
    /\ plan.optional \in {{}, SetupSteps}
    /\ plan.blocked = {}
    /\ plan.maxSetup = NumSetup + 1
    /\ \A i \in SetupSteps : plan.depends[i] = {}

SimpleResources ==
    /\ ServiceSteps \cup ApplicationSteps \subseteq plan.steps
    /\ plan.composed = ServiceSteps
    /\ plan.runnable = ApplicationSteps
    /\ plan.maxProcesses = 1

MCInit == Init /\ (SimpleSetup \/ SimpleResources)

MCSpec == MCInit /\ [][Next]_vars

=============================================================================
