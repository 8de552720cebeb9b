----------------------------- MODULE MCServices -----------------------------
(***************************************************************************)
(* Downloads, build hooks, the connection to the daemon, the sinks that    *)
(* scan and rewrite, and addTempRoot with the collector.  A behaviour is   *)
(* one of the component that is chosen at the start; the others stay in an *)
(* initial state.                                                          *)
(***************************************************************************)
EXTENDS FileTransfer, BuildHook, DaemonProtocol, MCReferences, GarbageCollector

VARIABLE component

collectorVars == vars
serviceVars == <<transferVars, hookVars, daemonVars, referenceVars, collectorVars>>
allVars == <<component, serviceVars>>

OneAndTwo == <<1, 2>>
\* Machine 1 does not suit one of the builds.
AllButOne == [m \in 1 .. NrMachines |-> IF m = 1 THEN Hooks \ {CHOOSE h \in Hooks : TRUE} ELSE Hooks]

\* One thread, and one path without references.
OwnProcess == [t \in Threads |-> CHOOSE P \in Procs : TRUE]
NoRefs == [p \in Paths |-> {}]
AllPaths == {Paths}

ServicesInit ==
    /\ component \in {"transfer", "hook", "daemon", "references", "collector"}
    /\ TransferInit /\ HookInit /\ DaemonInit /\ ReferencesInit /\ Init
    /\ component = "transfer" \/ \A d \in Downloads : res[d].ranges /\ res[d].encoded
    /\ component = "references" \/ input = <<>>

OnlyTransfer(A) ==
    component = "transfer" /\ A
    /\ UNCHANGED <<component, hookVars, daemonVars, referenceVars, collectorVars>>
OnlyHook(A) ==
    component = "hook" /\ A
    /\ UNCHANGED <<component, transferVars, daemonVars, referenceVars, collectorVars>>
OnlyDaemon(A) ==
    component = "daemon" /\ A
    /\ UNCHANGED <<component, transferVars, hookVars, referenceVars, collectorVars>>
OnlyReferences(A) ==
    component = "references" /\ A
    /\ UNCHANGED <<component, transferVars, hookVars, daemonVars, collectorVars>>
OnlyCollector(A) ==
    component = "collector" /\ A
    /\ UNCHANGED <<component, transferVars, hookVars, daemonVars, referenceVars>>

ServicesNext ==
    \/ OnlyTransfer(TransferNext) \/ OnlyHook(HookNext) \/ OnlyDaemon(DaemonNext)
    \/ OnlyReferences(ReferencesNext) \/ OnlyCollector(Next)

\* The fairness of each component, while it is the one that runs.
ServicesFairness ==
    /\ WF_transferVars(OnlyTransfer(WorkerStep))
    /\ \A t \in {"worker", "signal"} : WF_transferVars(OnlyTransfer(Quit(t)))
    /\ \A d \in Downloads :
        /\ WF_transferVars(OnlyTransfer(DownloadStep(d)))
        /\ WF_transferVars(OnlyTransfer(EmbargoEnds(d)))
        /\ SF_transferVars(OnlyTransfer(CurlStep(d)))
        /\ \A t \in {"worker", "signal"} : WF_transferVars(OnlyTransfer(Destructor(t, d)))
    /\ \A h \in Hooks : SF_hookVars(OnlyHook(HookStep(h)))
    /\ WF_daemonVars(OnlyDaemon(ClientProceeds)) /\ WF_daemonVars(OnlyDaemon(DaemonStep))
    /\ \A t \in Threads : WF_collectorVars(OnlyCollector(Rooting(t)))
    /\ \A P \in Procs : WF_collectorVars(OnlyCollector(Server(P)))
    /\ WF_collectorVars(OnlyCollector(Collect))

ServicesSpec == ServicesInit /\ [][ServicesNext]_allVars /\ ServicesFairness
=============================================================================
