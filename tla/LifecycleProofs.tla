-------------------------- MODULE LifecycleProofs --------------------------
(***************************************************************************)
(* Proofs about Lifecycle, for any number of replicas and of failures.     *)
(***************************************************************************)
EXTENDS Lifecycle, TLAPS

\* A term that was not cancelled holds the lease.
TermInv(r) == rep[r].phase \in InTerm /\ ~rep[r].cancelled => lease = r

Inv == TypeOK /\ \A r \in Replicas : TermInv(r)

\* A step of one replica that leaves the lease alone, takes it when it is free
\* or gives up its own disturbs no other replica's term.
LEMMA MoveKeeps ==
    ASSUME TypeOK, \A p \in Replicas : TermInv(p),
           NEW r \in Replicas, NEW new \in Replica, Move(r, new),
           new.phase \in InTerm /\ ~new.cancelled => lease' = r,
           lease' = lease \/ lease \in {r, None}
    PROVE  rep' \in [Replicas -> Replica] /\ \A p \in Replicas : TermInv(p)'
<1>1. rep' = [rep EXCEPT ![r] = new]
  BY DEF Move
<1>2. /\ rep' \in [Replicas -> Replica]
      /\ \A p \in Replicas : rep'[p] = IF p = r THEN new ELSE rep[p]
  BY <1>1 DEF TypeOK
<1>3. TermInv(r)'
  BY <1>2 DEF TermInv
<1>4. ASSUME NEW p \in Replicas, p # r PROVE TermInv(p)'
  <2>1. rep'[p] = rep[p]
    BY <1>2, <1>4
  <2>2. lease = p => lease' = p
    BY <1>4, NoReplica
  <2> QED BY <2>1, <2>2 DEF TermInv
<1> QED BY <1>2, <1>3, <1>4

\* The end of a term leaves nothing of it behind.
LEMMA EndTermKeeps ==
    ASSUME TypeOK, \A p \in Replicas : TermInv(p),
           NEW r \in Replicas, NEW failed \in BOOLEAN, EndTerm(r, failed)
    PROVE  /\ rep' \in [Replicas -> Replica] /\ \A p \in Replicas : TermInv(p)'
           /\ lease' \in Replicas \cup {None}
<1> DEFINE state == IF ~rep[r].cancelled THEN "standby"
                    ELSE IF failed THEN "failed" ELSE rep[r].state
           new == [rep[r] EXCEPT !.phase = "campaign", !.state = state]
<1>1. rep[r] \in Replica
  BY DEF TypeOK
<1>2. state \in States
  BY <1>1 DEF Replica, States
<1>3. Move(r, new)
  BY <1>1 DEF EndTerm, Replica
<1> HIDE DEF state
<1>4. new \in Replica /\ new.phase = "campaign"
  BY <1>1, <1>2 DEF Replica, Phases
<1> HIDE DEF new
<1>5. lease' = lease \/ lease = r
  BY DEF EndTerm
<1>6. lease' \in Replicas \cup {None}
  BY DEF EndTerm, TypeOK
<1> QED BY <1>3, <1>4, <1>5, <1>6, MoveKeeps DEF InTerm

\* Every step keeps the invariant.
LEMMA InvStep == Inv /\ [Next]_vars => Inv'
<1> SUFFICES ASSUME Inv, [Next]_vars PROVE Inv'
  OBVIOUS
<1> USE DEF Inv
<1>0. /\ kubeconfig \in BOOLEAN /\ slice \in BOOLEAN
      /\ lease \in Replicas \cup {None} /\ faults \in 0..MaxFaults
      /\ \A r \in Replicas : rep[r] \in Replica
  BY DEF TypeOK
<1>f. ASSUME Fault PROVE faults' \in 0..MaxFaults
  BY <1>f, <1>0, FaultsAssumption DEF Fault
<1>1. ASSUME NEW r \in Replicas, LoadConfig(r) PROVE Inv'
  <2> DEFINE a == [rep[r] EXCEPT !.phase = "campaign", !.state = "standby",
                                 !.configured = TRUE]
             b == [rep[r] EXCEPT !.state = "failed"]
  <2>1. a \in Replica /\ a.phase = "campaign"
    BY <1>0 DEF Replica, Phases, States
  <2>2. b \in Replica /\ b.phase = "loading"
    BY <1>0, <1>1 DEF Replica, States, LoadConfig
  <2>3. /\ Move(r, a) \/ Move(r, b)
        /\ UNCHANGED <<kubeconfig, slice, lease, faults>>
    BY <1>1 DEF LoadConfig
  <2> HIDE DEF a, b
  <2> QED BY <2>1, <2>2, <2>3, MoveKeeps DEF TypeOK, InTerm
<1>2. ASSUME NEW r \in Replicas, WinTerm(r) PROVE Inv'
  <2> DEFINE new == [rep[r] EXCEPT !.phase = "ensure", !.state = "starting",
                                   !.cancelled = FALSE, !.misses = 0]
  <2>1. new \in Replica
    <3>1. /\ "ensure" \in Phases /\ "starting" \in States /\ 0 \in 0..3
          /\ rep[r] \in Replica
      BY <1>0 DEF Phases, States
    <3> QED BY <3>1 DEF Replica
  <2>2. /\ Move(r, new) /\ lease = None /\ lease' = r
        /\ UNCHANGED <<kubeconfig, slice, faults>>
    BY <1>2 DEF WinTerm
  <2> HIDE DEF new
  <2> QED BY <2>1, <2>2, MoveKeeps DEF TypeOK
<1>3. ASSUME NEW r \in Replicas, Ensure(r) PROVE Inv'
  <2> DEFINE new == [rep[r] EXCEPT !.phase = "wait"]
  <2>1. /\ new \in Replica
        /\ new.cancelled = rep[r].cancelled
    BY <1>0 DEF Replica, Phases
  <2>2. /\ Move(r, new) /\ UNCHANGED <<kubeconfig, slice, lease, faults>>
        /\ rep[r].phase \in InTerm
    BY <1>3 DEF Ensure, InTerm
  <2>3. TermInv(r)
    OBVIOUS
  <2> HIDE DEF new
  <2> QED BY <2>1, <2>2, <2>3, MoveKeeps DEF TypeOK, TermInv
<1>4. ASSUME NEW r \in Replicas, StartManager(r) PROVE Inv'
  <2> DEFINE new == [rep[r] EXCEPT !.phase = "run", !.state = "ready"]
  <2>1. /\ new \in Replica
        /\ new.cancelled = rep[r].cancelled
    BY <1>0 DEF Replica, Phases, States
  <2>2. /\ Move(r, new) /\ UNCHANGED <<kubeconfig, slice, lease, faults>>
        /\ rep[r].phase \in InTerm
    BY <1>4 DEF StartManager, InTerm
  <2>3. TermInv(r)
    OBVIOUS
  <2> HIDE DEF new
  <2> QED BY <2>1, <2>2, <2>3, MoveKeeps DEF TypeOK, TermInv
<1>5. ASSUME NEW r \in Replicas, NEW failed \in BOOLEAN, EndTerm(r, failed),
             UNCHANGED <<kubeconfig, slice>>, UNCHANGED faults \/ Fault
      PROVE  Inv'
  <2>1. faults' \in 0..MaxFaults
    BY <1>5, <1>0, <1>f
  <2> QED BY <1>5, <2>1, EndTermKeeps DEF TypeOK
<1>6. ASSUME NEW r \in Replicas,
             \/ WaitTimesOut(r) \/ SetupFails(r) \/ ManagerFails(r)
             \/ \E clean \in BOOLEAN : ManagerStops(r, clean)
      PROVE  Inv'
  <2>1. CASE \E clean \in BOOLEAN : ManagerStops(r, clean)
    <3>1. PICK clean \in BOOLEAN : ManagerStops(r, clean)
      BY <2>1
    <3> DEFINE failed == rep[r].misses = 3 \/ ~clean
    <3>2. EndTerm(r, failed) /\ UNCHANGED <<kubeconfig, slice, faults>>
      BY <3>1 DEF ManagerStops
    <3>3. failed \in BOOLEAN
      OBVIOUS
    <3> HIDE DEF failed
    <3> QED BY <3>2, <3>3, <1>5
  <2>2. CASE WaitTimesOut(r) \/ SetupFails(r) \/ ManagerFails(r)
    <3>1. /\ EndTerm(r, TRUE) /\ UNCHANGED <<kubeconfig, slice>>
          /\ UNCHANGED faults \/ Fault
      BY <2>2 DEF WaitTimesOut, SetupFails, ManagerFails
    <3> QED BY <3>1, <1>5
  <2> QED BY <1>6, <2>1, <2>2
<1>7. ASSUME NEW r \in Replicas, NEW readable \in BOOLEAN, Watchdog(r, readable)
      PROVE  Inv'
  <2> DEFINE misses == IF readable /\ slice THEN 0 ELSE rep[r].misses + 1
             new == [rep[r] EXCEPT !.misses = misses]
  <2>1. misses \in 0..3
    BY <1>0, <1>7 DEF Watchdog, Replica
  <2>2. /\ Move(r, new) /\ UNCHANGED <<kubeconfig, slice, lease>>
        /\ UNCHANGED faults \/ Fault
    BY <1>0, <1>7 DEF Watchdog, Replica
  <2>3. faults' \in 0..MaxFaults
    BY <2>2, <1>0, <1>f
  <2> HIDE DEF misses
  <2>4. /\ new \in Replica /\ new.phase = rep[r].phase
        /\ new.cancelled = rep[r].cancelled
    BY <1>0, <2>1 DEF Replica
  <2>5. TermInv(r)
    OBVIOUS
  <2> HIDE DEF new
  <2> QED BY <2>2, <2>3, <2>4, <2>5, MoveKeeps DEF TypeOK, TermInv
<1>8. ASSUME NEW r \in Replicas, ElectionFails(r) PROVE Inv'
  <2> DEFINE new == [rep[r] EXCEPT !.phase = "over", !.state = "failed"]
  <2>1. new \in Replica /\ new.phase = "over"
    BY <1>0 DEF Replica, Phases, States
  <2>2. Move(r, new) /\ UNCHANGED <<kubeconfig, slice, lease>> /\ Fault
    BY <1>8 DEF ElectionFails
  <2> HIDE DEF new
  <2> QED BY <2>1, <2>2, <1>f, MoveKeeps DEF TypeOK, InTerm
<1>9. ASSUME NEW r \in Replicas, LoseLease(r) PROVE Inv'
  <2> DEFINE new == [rep[r] EXCEPT !.cancelled = TRUE]
  <2>1. /\ new \in Replica /\ new.cancelled = TRUE
        /\ new.phase = rep[r].phase
    BY <1>0 DEF Replica
  <2>2. /\ Move(r, new) /\ lease = r /\ lease' = None
        /\ UNCHANGED <<kubeconfig, slice>> /\ Fault
    BY <1>9 DEF LoseLease
  <2>3. TermInv(r)
    OBVIOUS
  <2> HIDE DEF new
  <2> QED BY <2>1, <2>2, <2>3, <1>f, MoveKeeps DEF TypeOK, TermInv
<1>10. ASSUME NEW r \in Replicas, Terminate(r) PROVE Inv'
  <2> DEFINE new == [rep[r] EXCEPT !.up = FALSE, !.cancelled = TRUE]
  <2>1. /\ new \in Replica /\ new.cancelled = TRUE
        /\ new.phase = rep[r].phase
    BY <1>0 DEF Replica
  <2>2. Move(r, new) /\ UNCHANGED <<kubeconfig, slice, lease>> /\ Fault
    BY <1>10 DEF Terminate
  <2>3. TermInv(r)
    OBVIOUS
  <2> HIDE DEF new
  <2> QED BY <2>1, <2>2, <2>3, <1>f, MoveKeeps DEF TypeOK, TermInv
<1>11. ASSUME NEW r \in Replicas, Stop(r) PROVE Inv'
  <2> DEFINE new == [rep[r] EXCEPT !.phase = "over", !.state = "stopped"]
  <2>1. new \in Replica /\ new.phase = "over"
    BY <1>0 DEF Replica, Phases, States
  <2>2. Move(r, new) /\ UNCHANGED <<kubeconfig, slice, lease, faults>>
    BY <1>11 DEF Stop
  <2> HIDE DEF new
  <2> QED BY <2>1, <2>2, MoveKeeps DEF TypeOK, InTerm
<1>12. ASSUME NEW r \in Replicas, Restart(r) PROVE Inv'
  <2>1. Boot \in Replica /\ Boot.phase = "loading"
    BY <1>0 DEF Boot, Replica, Phases, States
  <2>2. /\ Move(r, Boot) /\ UNCHANGED <<kubeconfig, slice, lease>>
        /\ UNCHANGED faults \/ Fault
    BY <1>12 DEF Restart
  <2>3. faults' \in 0..MaxFaults
    BY <2>2, <1>0, <1>f
  <2> QED BY <2>1, <2>2, <2>3, MoveKeeps DEF TypeOK, InTerm
<1>13. CASE LeaseExpires
  <2>1. PICK r \in Replicas : lease = r /\ rep[r].phase \notin InTerm
    BY <1>13 DEF LeaseExpires
  <2> QED BY <1>13, <2>1 DEF LeaseExpires, TypeOK, TermInv
<1>14. CASE MountKubeconfig \/ SliceChanges \/ UNCHANGED vars
  BY <1>14 DEF MountKubeconfig, SliceChanges, vars, TypeOK, TermInv
<1> QED BY <1>1, <1>2, <1>3, <1>4, <1>6, <1>7, <1>8, <1>9, <1>10, <1>11, <1>12,
           <1>13, <1>14 DEF Next, Step

\* Every replica starts without a term.
LEMMA InvInit == Init => Inv
<1> SUFFICES ASSUME Init PROVE Inv
  OBVIOUS
<1>1. Boot \in Replica /\ Boot.phase = "loading"
  BY DEF Init, Boot, Replica, Phases, States
<1>2. TypeOK /\ \A r \in Replicas : rep[r] = Boot
  BY <1>1, FaultsAssumption DEF Init, TypeOK
<1> QED BY <1>1, <1>2 DEF Inv, TermInv, InTerm

\* runControllerManagerTerm: at any time one replica at most has a term that
\* was not told to end.
THEOREM OneTermCorrect == Spec => []OneLiveTerm
<1>1. Inv => OneLiveTerm
  BY DEF Inv, TermInv, OneLiveTerm
<1> QED BY <1>1, InvInit, InvStep, PTL DEF Spec

\* The replicas' state keeps its types; the watchdog's count stays within 3.
THEOREM LifecycleTypeCorrect == Spec => []TypeOK
<1>1. Inv => TypeOK
  BY DEF Inv
<1> QED BY <1>1, InvInit, InvStep, PTL DEF Spec
=============================================================================
