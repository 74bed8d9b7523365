----------------------------- MODULE Lifecycle -----------------------------
(***************************************************************************)
(* The life of a provider replica in required mode: main.go's start-up,    *)
(* the wait for a kubeconfig, the campaign for the controller lease, one   *)
(* manager per won term with its endpoint watchdog, and the health that    *)
(* /readyz and the heartbeat report.                                       *)
(*                                                                         *)
(* Leader election is provider-sdk's: a term ends when its callback        *)
(* returns, which releases the lease, or when the lease is lost, which     *)
(* cancels the term's context while the manager may still be running.      *)
(***************************************************************************)
EXTENDS Naturals

CONSTANTS
    Replicas,
    MaxFaults,    \* how many failures of the environment a behaviour has
    None

ASSUME FaultsAssumption == MaxFaults \in Nat
ASSUME NoReplica == None \notin Replicas

VARIABLES
    kubeconfig,   \* the provider kubeconfig can be read
    slice,        \* the APIExportEndpointSlice carries a usable URL
    lease,        \* the replica that holds the controller lease, or None
    faults,       \* failures still to come
    rep           \* the replicas

vars == <<kubeconfig, slice, lease, faults, rep>>

\* loading: waiting for a kubeconfig; campaign: no term; ensure, wait, run:
\* a term's stages; over: the goroutine has returned.
Phases == {"loading", "campaign", "ensure", "wait", "run", "over"}
InTerm == {"ensure", "wait", "run"}

States == {"starting", "ready", "failed", "stopped", "standby"}

\* misses counts the watchdog's, 3 when it has cancelled the manager; up is
\* false once the process was told to terminate.
Replica == [phase : Phases, state : States, cancelled : BOOLEAN, misses : 0..3,
            configured : BOOLEAN, authority : BOOLEAN, up : BOOLEAN]

Move(r, new) == rep' = [rep EXCEPT ![r] = new]

\* Something fails that the code must cope with.
Fault == faults > 0 /\ faults' = faults - 1
-----------------------------------------------------------------------------
\* runServe: with a kubeconfig the factory is configured and given the slice
\* authority, without one it is deferred.  Clients are made from a config that
\* could be read, which does not fail.
Boot == [phase |-> "loading", state |-> "starting", cancelled |-> FALSE, misses |-> 0,
         configured |-> kubeconfig, authority |-> kubeconfig, up |-> TRUE]

\* The first loop of runLeaderElectedControllers: it tries again until the
\* kubeconfig can be read, then configures the tenant factory.
LoadConfig(r) ==
    /\ rep[r].phase = "loading" /\ rep[r].up
    /\ Move(r, IF kubeconfig
               THEN [rep[r] EXCEPT !.phase = "campaign", !.state = "standby",
                                   !.configured = TRUE]
               ELSE [rep[r] EXCEPT !.state = "failed"])
    /\ UNCHANGED <<kubeconfig, slice, lease, faults>>

\* Slip: the watchdog's count outlives its term.
WinTermKeepsMisses(r) ==
    /\ rep[r].phase = "campaign" /\ rep[r].up
    /\ lease = None
    /\ lease' = r
    /\ Move(r, [rep[r] EXCEPT !.phase = "ensure", !.state = "starting",
                              !.cancelled = FALSE])
    /\ UNCHANGED <<kubeconfig, slice, faults>>

\* The election calls the term's callback.
WinTerm(r) ==
    /\ rep[r].phase = "campaign" /\ rep[r].up
    /\ lease = None
    /\ lease' = r
    /\ Move(r, [rep[r] EXCEPT !.phase = "ensure", !.state = "starting",
                              !.cancelled = FALSE, !.misses = 0])
    /\ UNCHANGED <<kubeconfig, slice, faults>>

\* Slip: whoever holds the lease, it is given up.
EndTermReleasesAny(r, failed) ==
    /\ Move(r, [rep[r] EXCEPT
          !.phase = "campaign",
          !.state = IF ~rep[r].cancelled THEN "standby"
                    ELSE IF failed THEN "failed" ELSE @])
    /\ lease' = None

\* The callback returns: a failure is recorded, then standby unless the term
\* was cancelled; the election releases the lease.
EndTerm(r, failed) ==
    /\ Move(r, [rep[r] EXCEPT
          !.phase = "campaign",
          !.state = IF ~rep[r].cancelled THEN "standby"
                    ELSE IF failed THEN "failed" ELSE @])
    /\ lease' = IF lease = r THEN None ELSE lease

\* EnsureAPIExportEndpointSlice.
Ensure(r) ==
    /\ rep[r].phase = "ensure"
    /\ ~rep[r].cancelled
    /\ Move(r, [rep[r] EXCEPT !.phase = "wait"])
    /\ UNCHANGED <<kubeconfig, slice, lease, faults>>

\* waitForSliceEndpoint finds a URL, the manager and its controllers are
\* built, the watchdog and the manager started.
StartManager(r) ==
    /\ rep[r].phase = "wait"
    /\ ~rep[r].cancelled
    /\ slice
    /\ Move(r, [rep[r] EXCEPT !.phase = "run", !.state = "ready"])
    /\ UNCHANGED <<kubeconfig, slice, lease, faults>>

\* No URL within the start-up timeout.
WaitTimesOut(r) ==
    /\ rep[r].phase = "wait"
    /\ ~slice
    /\ EndTerm(r, TRUE)
    /\ UNCHANGED <<kubeconfig, slice, faults>>

\* Ensuring the slice, reading it or building the manager fails; a cancelled
\* term fails them all.
SetupFails(r) ==
    /\ rep[r].phase \in {"ensure", "wait"}
    /\ IF rep[r].cancelled THEN UNCHANGED faults ELSE Fault
    /\ EndTerm(r, TRUE)
    /\ UNCHANGED <<kubeconfig, slice>>

\* Slip: the watchdog gives a lost endpoint one miss and then looks away.
WatchdogCountsToOne(r, readable) ==
    /\ rep[r].phase = "run" /\ rep[r].misses < 3
    /\ IF readable THEN UNCHANGED faults ELSE Fault
    /\ Move(r, [rep[r] EXCEPT !.misses = IF readable /\ slice THEN 0 ELSE 1])
    /\ UNCHANGED <<kubeconfig, slice, lease>>

\* One tick of the watchdog; the third consecutive miss cancels the manager.
Watchdog(r, readable) ==
    /\ rep[r].phase = "run" /\ rep[r].misses < 3
    /\ IF readable THEN UNCHANGED faults ELSE Fault
    /\ Move(r, [rep[r] EXCEPT !.misses = IF readable /\ slice THEN 0 ELSE @ + 1])
    /\ UNCHANGED <<kubeconfig, slice, lease>>

\* mgr.Start returns because its context is done, with or without an error.
ManagerStops(r, clean) ==
    /\ rep[r].phase = "run"
    /\ rep[r].cancelled \/ rep[r].misses = 3
    /\ EndTerm(r, rep[r].misses = 3 \/ ~clean)
    /\ UNCHANGED <<kubeconfig, slice, faults>>

\* mgr.Start fails by itself.
ManagerFails(r) ==
    /\ rep[r].phase = "run"
    /\ Fault
    /\ EndTerm(r, TRUE)
    /\ UNCHANGED <<kubeconfig, slice>>

\* leaderelection.Run returns an error: the goroutine ends.
ElectionFails(r) ==
    /\ rep[r].phase = "campaign"
    /\ Fault
    /\ Move(r, [rep[r] EXCEPT !.phase = "over", !.state = "failed"])
    /\ UNCHANGED <<kubeconfig, slice, lease>>

\* The lease cannot be renewed: the term is cancelled and others may win.
LoseLease(r) ==
    /\ lease = r /\ rep[r].phase \in InTerm
    /\ Fault
    /\ lease' = None
    /\ Move(r, [rep[r] EXCEPT !.cancelled = TRUE])
    /\ UNCHANGED <<kubeconfig, slice>>

\* The lease of a replica that is gone runs out.
LeaseExpires ==
    /\ \E r \in Replicas : lease = r /\ rep[r].phase \notin InTerm
    /\ lease' = None
    /\ UNCHANGED <<kubeconfig, slice, faults, rep>>

\* SIGTERM cancels the process's context, and a term's with it.
Terminate(r) ==
    /\ rep[r].up
    /\ Fault
    /\ Move(r, [rep[r] EXCEPT !.up = FALSE, !.cancelled = TRUE])
    /\ UNCHANGED <<kubeconfig, slice, lease>>

\* The wait for a kubeconfig or the campaign sees the context done.
Stop(r) ==
    /\ rep[r].phase \in {"loading", "campaign"}
    /\ ~rep[r].up
    /\ Move(r, [rep[r] EXCEPT !.phase = "over", !.state = "stopped"])
    /\ UNCHANGED <<kubeconfig, slice, lease, faults>>

\* The process ends, killed or after SIGTERM without waiting for the
\* controllers, and is started again.
Restart(r) ==
    /\ IF rep[r].up THEN Fault ELSE UNCHANGED faults
    /\ Move(r, Boot)
    /\ UNCHANGED <<kubeconfig, slice, lease>>

\* The kubeconfig Secret is mounted; kcp publishes or withdraws endpoints.
MountKubeconfig ==
    /\ ~kubeconfig
    /\ kubeconfig' = TRUE
    /\ UNCHANGED <<slice, lease, faults, rep>>

SliceChanges ==
    /\ slice' = ~slice
    /\ UNCHANGED <<kubeconfig, lease, faults, rep>>

Init ==
    /\ kubeconfig \in BOOLEAN
    /\ slice \in BOOLEAN
    /\ lease = None
    /\ faults = MaxFaults
    /\ rep = [r \in Replicas |-> Boot]

\* What the replica's own goroutines do.
Step(r) ==
    \/ LoadConfig(r) \/ WinTerm(r) \/ Ensure(r) \/ StartManager(r) \/ WaitTimesOut(r)
    \/ Watchdog(r, TRUE)
    \/ \E clean \in BOOLEAN : ManagerStops(r, clean)
    \/ Stop(r)

Next ==
    \/ \E r \in Replicas :
          \/ Step(r)
          \/ SetupFails(r) \/ Watchdog(r, FALSE) \/ ManagerFails(r) \/ ElectionFails(r)
          \/ LoseLease(r) \/ Terminate(r) \/ Restart(r)
    \/ LeaseExpires \/ MountKubeconfig \/ SliceChanges

Spec == Init /\ [][Next]_vars

\* Each goroutine keeps running, a cancelled set-up fails, the process exits
\* after SIGTERM and leases run out.
Fairness ==
    /\ \A r \in Replicas :
          /\ WF_vars(LoadConfig(r)) /\ WF_vars(WinTerm(r)) /\ WF_vars(Ensure(r))
          /\ WF_vars(StartManager(r)) /\ WF_vars(Watchdog(r, TRUE))
          /\ WF_vars(\E clean \in BOOLEAN : ManagerStops(r, clean))
          /\ WF_vars(rep[r].cancelled /\ SetupFails(r))
          /\ WF_vars(~rep[r].up /\ Restart(r))
    /\ WF_vars(LeaseExpires)

FairSpec == Spec /\ Fairness
-----------------------------------------------------------------------------
(***************************************************************************)
(* Properties                                                              *)
(***************************************************************************)
\* Every variable has its type.
TypeOK ==
    /\ kubeconfig \in BOOLEAN
    /\ slice \in BOOLEAN
    /\ lease \in Replicas \cup {None}
    /\ faults \in 0..MaxFaults
    /\ rep \in [Replicas -> Replica]

\* What /readyz and the heartbeat go by: the tenant factory is configured and
\* has an authority.
Serving(r) == rep[r].configured /\ rep[r].authority

\* However terms end (watchdog, failure, lost lease, SIGTERM, crash), no two
\* replicas both run a term that has not been cancelled.
OneLiveTerm ==
    \A r, s \in Replicas :
        /\ rep[r].phase \in InTerm /\ ~rep[r].cancelled
        /\ rep[s].phase \in InTerm /\ ~rep[s].cancelled
        => r = s

\* The callback's comment, on markStandby: it is there "so /readyz
\* introspection doesn't report a stale "ready"" once the manager has
\* stopped.
ReadyIsCurrent ==
    \A r \in Replicas : rep[r].state = "ready" => rep[r].phase = "run"

\* A manager does not outlive the endpoints it watches: when they stay away
\* the watchdog ends its term.
LostEndpointEndsTerm ==
    \A r \in Replicas : <>[]~slice => []<>(rep[r].phase # "run")

\* The election loop is the retry loop: once a kubeconfig and an endpoint are
\* there to stay, controllers run for good, somewhere, unless every replica's
\* controller goroutine has ended.
ControllersRun ==
    <>[](kubeconfig /\ slice) =>
        \/ <>[](\E r \in Replicas : rep[r].phase = "run")
        \/ <>[](\A r \in Replicas : rep[r].phase = "over")

\* runServe's comment: "A later kubeconfig recovery can then install
\* caller-token client configuration without leaving discovery/actions
\* permanently bound to the initial failure."
ServingRecovers ==
    \A r \in Replicas :
        rep[r].configured ~> (Serving(r) \/ ~rep[r].up)
=============================================================================
