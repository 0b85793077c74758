----------------------- MODULE MachineApproverProofs -----------------------
(***************************************************************************)
(* Proofs about the karpenter-machine-approver controller, for any nodes,  *)
(* any batch size and any number of requests, failures and restarts.       *)
(***************************************************************************)
EXTENDS MachineApprover, TLAPS

-----------------------------------------------------------------------------
(* The inductive invariant.  Instances are only taken from NodeClaims, a      *)
(* cached CSR with the current resourceVersion is the CSR itself, and what    *)
(* the worker has read, verified and still holds is true of the cluster.      *)

CacheCurrent == \A k \in Keys : fcsr[k] => ccsr[k] = csr[k]

WorkerHolds ==
    /\ worker.ids \subseteq Karpenter
    /\ worker.pc # "idle" => worker.key \in Reconciled
    /\ worker.pc # "idle" /\ worker.fresh => csr[worker.key] = "pending"
    /\ worker.pc = "approve" =>
          worker.key[1] \in Karpenter /\ instance[worker.key[1]] # "none"

Inv == TypeOK /\ CacheCurrent /\ WorkerHolds /\ OnlyKarpenterNodes

LEMMA ReconciledKeys == Reconciled \subseteq Keys
  BY DEF Reconciled

LEMMA IdleType == Idle \in Worker /\ Idle.pc = "idle" /\ Idle.ids = {}
  BY DEF Idle, Worker

LEMMA FilteredKeys == {k \in Keys : csrFilterFn(k[2], csr[k])} \subseteq Reconciled
  BY DEF csrFilterFn, Reconciled

(* The end of a reconcile, with or without an error. *)
LEMMA EndHolds ==
  ASSUME Inv, Done \/ (worker.pc # "idle" /\ Fail)
  PROVE  worker' \in Worker /\ WorkerHolds' /\ queue' \subseteq Reconciled
  BY IdleType DEF Inv, TypeOK, Done, Fail, WorkerHolds

(* Nodes, Karpenter and other approvers write CSRs, but never approve one in  *)
(* this operator's name, and their write outdates the copy the worker holds.  *)
LEMMA OthersWrite ==
  ASSUME Inv, NEW k \in Keys, NEW to \in {"pending", "settled"}, WriteCSR(k, to),
         budget' \in Nat
  PROVE  Inv'
<1>1. UNCHANGED <<claim, instance, ccsr, cclaim, queue, patient>>
  BY DEF WriteCSR
<1>2. csr' \in [Keys -> CSR] /\ fcsr' \in [Keys -> BOOLEAN]
  BY DEF Inv, TypeOK, WriteCSR, CSR
<1>3. /\ csr'[k] = to /\ fcsr'[k] = FALSE
      /\ \A l \in Keys \ {k} : csr'[l] = csr[l] /\ fcsr'[l] = fcsr[l]
  BY DEF Inv, TypeOK, WriteCSR
<1>4. /\ worker' \in Worker /\ worker'.key = worker.key /\ worker'.pc = worker.pc
      /\ worker'.ids = worker.ids
      /\ worker'.fresh => worker.fresh /\ worker.key # k
  BY DEF Inv, TypeOK, WriteCSR, Worker
<1>5. CacheCurrent' /\ OnlyKarpenterNodes'
  BY <1>1, <1>3 DEF Inv, CacheCurrent, OnlyKarpenterNodes
<1>6. WorkerHolds'
  BY <1>1, <1>3, <1>4, ReconciledKeys DEF Inv, WorkerHolds
<1> QED
  BY <1>1, <1>2, <1>4, <1>5, <1>6 DEF Inv, TypeOK

(* Instances come and go, but one that was launched stays known. *)
LEMMA InstancesChange ==
  ASSUME Inv, UNCHANGED <<csr, ccsr, cclaim, fcsr, queue, worker, patient>>,
         claim' \in [Karpenter -> NodeClaim], budget' \in Nat,
         instance' \in [Karpenter -> {"none", "running", "terminated"}],
         \A n \in Karpenter : instance[n] # "none" => instance'[n] # "none"
  PROVE  Inv'
<1>1. TypeOK' /\ CacheCurrent'
  BY DEF Inv, TypeOK, CacheCurrent
<1>2. WorkerHolds' /\ OnlyKarpenterNodes'
  BY DEF Inv, WorkerHolds, OnlyKarpenterNodes
<1> QED
  BY <1>1, <1>2 DEF Inv

LEMMA InvInit == Init => Inv
<1> SUFFICES ASSUME Init PROVE Inv
  OBVIOUS
<1>1. TypeOK
  BY IdleType, ConstantsAreTyped DEF Init, TypeOK, CSR, NodeClaim
<1>2. CacheCurrent /\ WorkerHolds /\ OnlyKarpenterNodes
  BY IdleType DEF Init, CacheCurrent, WorkerHolds, OnlyKarpenterNodes
<1> QED
  BY <1>1, <1>2 DEF Inv

LEMMA InvNext == Inv /\ [Next]_vars => Inv'
<1> SUFFICES ASSUME Inv, [Next]_vars PROVE Inv'
  OBVIOUS
<1>1. CASE \E k \in Keys : Reconcile(k)
  <2>1. PICK k \in Keys : Reconcile(k)
    BY <1>1
  <2>2. UNCHANGED <<csr, claim, instance, ccsr, cclaim, fcsr, budget, patient>>
    BY <2>1 DEF Reconcile
  <2>3. k \in Reconciled /\ queue' \subseteq Reconciled
    BY <2>1 DEF Reconcile, Inv, TypeOK
  <2>4. Candidates(k) \subseteq Karpenter
    BY DEF Candidates
  <2>5. worker' \in Worker /\ WorkerHolds'
    <3>1. CASE worker' = Idle
      BY <3>1, IdleType DEF WorkerHolds
    <3>3. CASE worker' = worker
      BY <2>2, <3>3 DEF Inv, TypeOK, WorkerHolds
    <3>2. CASE /\ isCertificateRequestPending(ccsr[k])
               /\ worker' = [pc |-> "verify", key |-> k, fresh |-> fcsr[k], ids |-> Candidates(k)]
      <4>1. worker' \in Worker
        BY <2>4, <3>2, ConstantsAreTyped DEF Worker, Inv, TypeOK
      <4>2. fcsr[k] => csr[k] = "pending"
        BY <3>2 DEF Inv, CacheCurrent, isCertificateRequestPending
      <4> QED
        BY <2>2, <2>3, <2>4, <3>2, <4>1, <4>2 DEF WorkerHolds
    <3> QED
      BY <2>1, <3>1, <3>2, <3>3 DEF Reconcile
  <2> QED
    BY <2>2, <2>3, <2>5 DEF Inv, TypeOK, CacheCurrent, OnlyKarpenterNodes
<1>2. CASE Verify
  <2>1. PICK batch \in Batches(worker.ids) :
          \/ (\E m \in batch : instance[m] = "terminated") /\ Fail
          \/ /\ matchesPrivateDNSName(batch, worker.key[1])
             /\ worker' = [worker EXCEPT !.pc = "approve", !.ids = {}] /\ UNCHANGED queue
          \/ /\ ~matchesPrivateDNSName(batch, worker.key[1])
             /\ IF batch = worker.ids THEN Done
                ELSE worker' = [worker EXCEPT !.ids = @ \ batch] /\ UNCHANGED queue
    BY <1>2 DEF Verify
  <2>2. worker.pc = "verify" /\ UNCHANGED <<csr, claim, instance, ccsr, cclaim, fcsr, budget, patient>>
    BY <1>2 DEF Verify
  <2>3. batch \subseteq Karpenter
    BY DEF Batches, Inv, WorkerHolds
  <2>4. worker' \in Worker /\ WorkerHolds' /\ queue' \subseteq Reconciled
    <3>1. CASE Done \/ Fail
      BY <2>2, <3>1, EndHolds
    <3>2. CASE /\ matchesPrivateDNSName(batch, worker.key[1])
               /\ worker' = [worker EXCEPT !.pc = "approve", !.ids = {}] /\ UNCHANGED queue
      <4>1. /\ worker' \in Worker /\ worker'.pc = "approve" /\ worker'.ids = {}
            /\ worker'.key = worker.key /\ worker'.fresh = worker.fresh
        BY <3>2 DEF Inv, TypeOK, Worker
      <4>2. worker.key[1] \in Karpenter /\ instance[worker.key[1]] # "none"
        BY <2>3, <3>2 DEF matchesPrivateDNSName
      <4> QED
        BY <2>2, <3>2, <4>1, <4>2 DEF Inv, TypeOK, WorkerHolds
    <3>3. CASE worker' = [worker EXCEPT !.ids = @ \ batch] /\ UNCHANGED queue
      <4>1. /\ worker' \in Worker /\ worker'.pc = "verify" /\ worker'.ids \subseteq worker.ids
            /\ worker'.key = worker.key /\ worker'.fresh = worker.fresh
        BY <2>2, <3>3 DEF Inv, TypeOK, Worker
      <4> QED
        BY <2>2, <3>3, <4>1 DEF Inv, TypeOK, WorkerHolds
    <3> QED
      BY <2>1, <3>1, <3>2, <3>3
  <2> QED
    BY <2>2, <2>4 DEF Inv, TypeOK, CacheCurrent, OnlyKarpenterNodes
<1>3. CASE Approve
  <2>1. worker.pc = "approve" /\ UNCHANGED <<claim, instance, ccsr, cclaim, budget, patient>>
    BY <1>3 DEF Approve
  <2>2. worker.key \in Keys /\ worker.key[1] \in Karpenter /\ instance[worker.key[1]] # "none"
    BY <2>1, ReconciledKeys DEF Inv, WorkerHolds
  <2>3. CASE /\ csr' = [csr EXCEPT ![worker.key] = "approved"]
             /\ fcsr' = [fcsr EXCEPT ![worker.key] = FALSE] /\ Done
    <3>1. worker' \in Worker /\ queue' \subseteq Reconciled
      BY <2>3, EndHolds
    <3>2. csr' \in [Keys -> CSR] /\ fcsr' \in [Keys -> BOOLEAN]
      BY <2>2, <2>3 DEF Inv, TypeOK, CSR
    <3>3. /\ fcsr'[worker.key] = FALSE
          /\ \A l \in Keys \ {worker.key} : csr'[l] = csr[l] /\ fcsr'[l] = fcsr[l]
      BY <2>2, <2>3 DEF Inv, TypeOK
    <3>4. CacheCurrent' /\ OnlyKarpenterNodes'
      BY <2>1, <2>2, <3>3 DEF Inv, CacheCurrent, OnlyKarpenterNodes
    <3>5. WorkerHolds'
      BY <2>3, IdleType DEF Done, WorkerHolds
    <3> QED
      BY <2>1, <3>1, <3>2, <3>4, <3>5 DEF Inv, TypeOK
  <2>4. CASE Fail /\ UNCHANGED <<csr, fcsr>>
    BY <2>1, <2>4, EndHolds DEF Inv, TypeOK, CacheCurrent, OnlyKarpenterNodes
  <2> QED
    BY <1>3, <2>3, <2>4 DEF Approve
<1>4. CASE CallFails
  BY <1>4, EndHolds DEF CallFails, Spend, Inv, TypeOK, CacheCurrent, OnlyKarpenterNodes
<1>5. CASE Restart
  <2>1. queue' \subseteq Reconciled
    BY <1>5, FilteredKeys DEF Restart
  <2> QED
    BY <1>5, <2>1, IdleType
       DEF Restart, Spend, Inv, TypeOK, CacheCurrent, WorkerHolds, OnlyKarpenterNodes
<1>6. CASE SyncCSRs
  <2>1. queue' \subseteq Reconciled
    BY <1>6, FilteredKeys DEF SyncCSRs, Inv, TypeOK
  <2> QED
    BY <1>6, <2>1 DEF SyncCSRs, Inv, TypeOK, CacheCurrent, WorkerHolds, OnlyKarpenterNodes
<1>7. CASE SyncClaims
  BY <1>7 DEF SyncClaims, Inv, TypeOK, CacheCurrent, WorkerHolds, OnlyKarpenterNodes
<1>8. CASE Environment
  <2>1. ASSUME NEW n \in Karpenter, Launch(n) \/ Terminate(n)
        PROVE  Inv'
    BY <2>1, InstancesChange DEF Launch, Terminate, Spend, Inv, TypeOK
  <2>2. ASSUME NEW n \in Karpenter, SetProviderID(n) \/ Register(n) \/ RemoveClaim(n)
        PROVE  Inv'
    <3>1. claim' \in [Karpenter -> NodeClaim]
      BY <2>2 DEF SetProviderID, Register, RemoveClaim, ChangeClaim, Inv, TypeOK, NodeClaim
    <3> QED
      BY <2>2, <3>1, InstancesChange
         DEF SetProviderID, Register, RemoveClaim, ChangeClaim, Inv, TypeOK
  <2>3. ASSUME NEW n \in Nodes, NEW kind \in Kinds, Request(n, kind)
        PROVE  Inv'
    <3>1. <<n, kind>> \in Keys
      BY DEF Keys
    <3>2. budget' \in Nat
      BY <2>3 DEF Request, Spend, Inv, TypeOK
    <3> QED
      BY <2>3, <3>1, <3>2, OthersWrite DEF Request
  <2>4. ASSUME NEW k \in Keys, Retry(k) \/ RetryEarly(k) \/ Settle(k)
        PROVE  Inv'
    <3>1. budget' \in Nat
      BY <2>4 DEF Retry, RetryEarly, Settle, Spend, Inv, TypeOK
    <3> QED
      BY <2>4, <3>1, OthersWrite DEF Retry, RetryEarly, Settle
  <2> QED
    BY <1>8, <2>1, <2>2, <2>3, <2>4 DEF Environment
<1>9. CASE UNCHANGED vars
  BY <1>9 DEF vars, Inv, TypeOK, CacheCurrent, WorkerHolds, OnlyKarpenterNodes
<1> QED
  BY <1>1, <1>2, <1>3, <1>4, <1>5, <1>6, <1>7, <1>8, <1>9 DEF Next, WorkerStep

LEMMA InvThroughout == Spec => []Inv
  BY InvInit, InvNext, PTL DEF Spec

-----------------------------------------------------------------------------
(* Only CSRs of nodes that Karpenter launched are ever approved, for any      *)
(* nodes of the cluster, any split of the candidates into batches and any     *)
(* delay of the caches (authorize, Verify).                                   *)
THEOREM OnlyKarpenterNodesTheorem == Spec => []OnlyKarpenterNodes
<1>1. Inv => OnlyKarpenterNodes
  BY DEF Inv
<1> QED
  BY <1>1, InvThroughout, PTL

(* The operator never overrides a decision: what it approves was pending at   *)
(* that very moment, although the CSR was read from the cache before the      *)
(* calls to EC2 and somebody else may have denied it meanwhile (approve: the  *)
(* update carries the resourceVersion that was read).                         *)
ApprovesOnlyPending ==
    [][\A k \in Keys :
          csr'[k] = "approved" /\ csr[k] # "approved" => csr[k] = "pending"]_vars

THEOREM ApprovesOnlyPendingTheorem == Spec => ApprovesOnlyPending
<1> DEFINE Step == \A k \in Keys :
                      csr'[k] = "approved" /\ csr[k] # "approved" => csr[k] = "pending"
<1>1. ASSUME Inv, [Next]_vars PROVE [Step]_vars
  <2>1. CASE Approve
    BY <1>1, <2>1 DEF Approve, Inv, TypeOK, WorkerHolds, Step
  <2>2. ASSUME NEW k \in Keys, NEW to \in {"pending", "settled"}, WriteCSR(k, to)
        PROVE  Step
    BY <1>1, <2>2 DEF WriteCSR, Inv, TypeOK, Step
  <2>3. CASE UNCHANGED csr
    BY <2>3
  <2>4. ASSUME NEW n \in Nodes, NEW kind \in Kinds, Request(n, kind)
        PROVE  Step
    <3>1. <<n, kind>> \in Keys
      BY DEF Keys
    <3> QED
      BY <2>2, <2>4, <3>1 DEF Request
  <2>5. ASSUME NEW k \in Keys, Retry(k) \/ RetryEarly(k) \/ Settle(k)
        PROVE  Step
    BY <2>2, <2>5 DEF Retry, RetryEarly, Settle
  <2> HIDE DEF Step
  <2> QED
    BY <1>1, <2>1, <2>3, <2>4, <2>5
       DEF Next, WorkerStep, Verify, CallFails, Restart, SyncCSRs, SyncClaims, Reconcile,
           Environment, Launch, SetProviderID, Register, Terminate, RemoveClaim, ChangeClaim, vars
<1> QED
  BY <1>1, InvThroughout, PTL DEF Spec, ApprovesOnlyPending
=============================================================================
