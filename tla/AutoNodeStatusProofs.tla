------------------------ MODULE AutoNodeStatusProofs ------------------------
(***************************************************************************)
(* Proofs about the autonode-status controller, for any nodes, capacities  *)
(* and number of disturbances.                                             *)
(***************************************************************************)
EXTENDS AutoNodeStatus, FiniteSetTheorems, WellFoundedInduction, TLAPS

-----------------------------------------------------------------------------
(* Sums.  The library's induction is about operators; here it is done with a *)
(* least number, or a least set, of a set of counterexamples.                *)

LEMMA LeastNumber ==
  ASSUME NEW T \in SUBSET Nat, T # {}
  PROVE  \E n \in T : \A m \in T : n <= m
<1> DEFINE R == OpToRel(<, Nat)
<1>1. IsWellFoundedOn(R, Nat)
  BY NatLessThanWellFounded
<1>2. \A m, n \in Nat : <<m, n>> \in R <=> m < n
  BY DEF OpToRel
<1> HIDE DEF R
<1>3. PICK n \in T : \A m \in T : ~ (<<m, n>> \in R)
  BY <1>1, WFMin
<1>4. ASSUME NEW m \in T PROVE n <= m
  <2>1. m \in Nat /\ n \in Nat
    OBVIOUS
  <2>2. ~ (m < n)
    BY <1>2, <1>3, <2>1
  <2> QED BY <2>1, <2>2
<1> QED BY <1>4

LEMMA LeastSet ==
  ASSUME NEW S, IsFiniteSet(S), NEW T \in SUBSET SUBSET S, T # {}
  PROVE  \E x \in T : \A y \in T : y \subseteq x => y = x
<1>1. IsWellFoundedOn(StrictSubsetOrdering(S), SUBSET S)
  BY FS_StrictSubsetOrderingWellFounded, FS_FiniteSubsetsOfFinite
<1>2. \E x \in T : \A y \in T : ~ (<<y, x>> \in StrictSubsetOrdering(S))
  BY <1>1, WFMin
<1>3. \A x, y \in SUBSET S : <<y, x>> \in StrictSubsetOrdering(S) <=> y \subseteq x /\ y # x
  BY DEF StrictSubsetOrdering
<1> QED BY <1>2, <1>3

Pick(s) == CHOOSE x \in s : TRUE

(* The equation of a sum, and the functions on the subsets of S that meet it *)
Step(f, g, s) == IF s = {} THEN 0 ELSE f[Pick(s)] + g[s \ {Pick(s)}]
Sums(f, S, g) == g = [s \in SUBSET S |-> Step(f, g, s)]

LEMMA SumByDefinition ==
  ASSUME NEW f, NEW S
  PROVE  SumFunctionOnSet(f, S) = (CHOOSE g : Sums(f, S, g))[S]
  BY DEF SumFunctionOnSet, FoldFunctionOnSet, MapThenFoldSet, Sums, Step, Pick

(* A function that meets the equation up to size k gives one that meets it up *)
(* to k + 1.                                                                  *)
LEMMA SumsExist ==
  ASSUME NEW S, IsFiniteSet(S), NEW f, \A x \in S : f[x] \in Int
  PROVE  \E g \in [SUBSET S -> Int] : Sums(f, S, g)
<1> DEFINE Up(g, k) == \A s \in SUBSET S : Cardinality(s) <= k => g[s] = Step(f, g, s)
           Good(k) == \E g \in [SUBSET S -> Int] : Up(g, k)
<1>1. ASSUME NEW s \in SUBSET S
      PROVE  IsFiniteSet(s) /\ Cardinality(s) \in Nat /\ Cardinality(s) <= Cardinality(S)
  BY FS_Subset, FS_CardinalityType
<1>2. ASSUME NEW s \in SUBSET S, s # {}
      PROVE  Pick(s) \in s /\ s \ {Pick(s)} \in SUBSET S /\ Cardinality(s \ {Pick(s)}) = Cardinality(s) - 1
  <2>1. Pick(s) \in s
    BY <1>2 DEF Pick
  <2> QED BY <1>1, <2>1, FS_RemoveElement
<1>3. Good(0)
  <2> DEFINE g == [s \in SUBSET S |-> 0]
  <2>1. g \in [SUBSET S -> Int]
    OBVIOUS
  <2>2. \A s \in SUBSET S : Cardinality(s) <= 0 => s = {}
    BY <1>1, FS_EmptySet
  <2>3. Up(g, 0)
    BY <2>2 DEF Step
  <2> QED BY <2>1, <2>3
<1>4. ASSUME NEW k \in Nat, Good(k) PROVE Good(k + 1)
  <2>1. PICK g \in [SUBSET S -> Int] : Up(g, k)
    BY <1>4
  <2> DEFINE h == [s \in SUBSET S |-> Step(f, g, s)]
  <2>2. h \in [SUBSET S -> Int]
    <3>1. ASSUME NEW s \in SUBSET S PROVE Step(f, g, s) \in Int
      <4>1. CASE s = {}
        BY <4>1 DEF Step
      <4>2. CASE s # {}
        <5>1. f[Pick(s)] \in Int /\ g[s \ {Pick(s)}] \in Int
          BY <1>2, <4>2
        <5> QED BY <4>2, <5>1 DEF Step
      <4> QED BY <4>1, <4>2
    <3> QED BY <3>1
  <2>3. ASSUME NEW s \in SUBSET S, Cardinality(s) <= k + 1 PROVE h[s] = Step(f, h, s)
    <3>1. CASE s = {}
      BY <3>1 DEF Step
    <3>2. CASE s # {}
      <4> DEFINE t == s \ {Pick(s)}
      <4>1. t \in SUBSET S /\ Cardinality(t) <= k
        BY <1>1, <1>2, <2>3, <3>2
      <4>2. g[t] = h[t]
        BY <2>1, <4>1
      <4> QED BY <3>2, <4>2 DEF Step
    <3> QED BY <3>1, <3>2
  <2> HIDE DEF h
  <2> QED BY <2>2, <2>3
<1>5. \A k \in Nat : Good(k)
  <2> HIDE DEF Good
  <2> DEFINE Bad == {k \in Nat : ~Good(k)}
  <2> SUFFICES ASSUME Bad # {} PROVE FALSE
    OBVIOUS
  <2>1. PICK n \in Bad : \A m \in Bad : n <= m
    BY LeastNumber
  <2>2. n # 0 /\ n - 1 \in Nat /\ n - 1 \notin Bad
    BY <1>3, <2>1
  <2>3. Good((n - 1) + 1)
    BY <1>4, <2>2
  <2> QED BY <2>2, <2>3
<1>6. PICK g \in [SUBSET S -> Int] : Up(g, Cardinality(S))
  BY <1>1, <1>5
<1>7. \A s \in SUBSET S : g[s] = Step(f, g, s)
  BY <1>1, <1>6
<1> QED BY <1>7 DEF Sums

LEMMA SumsAgree ==
  ASSUME NEW S, IsFiniteSet(S), NEW f, NEW g, Sums(f, S, g), NEW T \in SUBSET S, NEW h, Sums(f, T, h)
  PROVE  \A s \in SUBSET T : g[s] = h[s]
<1> DEFINE Bad == {s \in SUBSET T : g[s] # h[s]}
<1> SUFFICES ASSUME Bad # {} PROVE FALSE
  OBVIOUS
<1>1. IsFiniteSet(T)
  BY FS_Subset
<1>2. PICK s \in Bad : \A t \in Bad : t \subseteq s => t = s
  <2>1. Bad \in SUBSET SUBSET T
    OBVIOUS
  <2> HIDE DEF Bad
  <2> QED BY <1>1, <2>1, LeastSet
<1>3. g[s] = Step(f, g, s) /\ h[s] = Step(f, h, s)
  BY DEF Sums
<1>4. s # {}
  BY <1>3 DEF Step
<1>5. Pick(s) \in s
  BY <1>4 DEF Pick
<1>6. g[s \ {Pick(s)}] = h[s \ {Pick(s)}]
  BY <1>2, <1>5
<1> QED BY <1>3, <1>6 DEF Step

LEMMA SumFacts ==
  ASSUME NEW S, IsFiniteSet(S), NEW f, \A x \in S : f[x] \in Int
  PROVE  /\ SumFunctionOnSet(f, S) \in Int
         /\ S = {} => SumFunctionOnSet(f, S) = 0
         /\ S # {} => SumFunctionOnSet(f, S) = f[Pick(S)] + SumFunctionOnSet(f, S \ {Pick(S)})
<1> DEFINE g == CHOOSE x : Sums(f, S, x)
<1>1. PICK x \in [SUBSET S -> Int] : Sums(f, S, x)
  BY SumsExist
<1>2. Sums(f, S, g)
  BY <1>1
<1>3. SumFunctionOnSet(f, S) = g[S]
  BY SumByDefinition
<1> HIDE DEF g
<1>4. g[S] = Step(f, g, S)
  BY <1>2 DEF Sums
<1>5. g[S] = x[S] /\ x[S] \in Int
  BY <1>1, <1>2, SumsAgree
<1>6. ASSUME S # {}
      PROVE  g[S \ {Pick(S)}] = SumFunctionOnSet(f, S \ {Pick(S)})
  <2> DEFINE T == S \ {Pick(S)}
             h == CHOOSE y : Sums(f, T, y)
  <2>1. IsFiniteSet(T) /\ T \in SUBSET S
    BY FS_Subset
  <2>2. \A y \in T : f[y] \in Int
    OBVIOUS
  <2> HIDE DEF T
  <2>3. \E y \in [SUBSET T -> Int] : Sums(f, T, y)
    BY <2>1, <2>2, SumsExist
  <2>4. Sums(f, T, h)
    BY <2>3
  <2>5. SumFunctionOnSet(f, T) = h[T]
    BY SumByDefinition
  <2> HIDE DEF h
  <2>6. g[T] = h[T]
    BY <1>2, <2>1, <2>4, SumsAgree
  <2> QED BY <2>5, <2>6 DEF T
<1> QED BY <1>3, <1>4, <1>5, <1>6 DEF Step

(* The order of the elements does not matter. *)
LEMMA SumWithout ==
  ASSUME NEW S, IsFiniteSet(S), NEW f, \A x \in S : f[x] \in Int, NEW x \in S
  PROVE  SumFunctionOnSet(f, S) = f[x] + SumFunctionOnSet(f, S \ {x})
<1> DEFINE sum(s) == SumFunctionOnSet(f, s)
           Bad == {s \in SUBSET S : \E y \in s : sum(s) # f[y] + sum(s \ {y})}
<1> SUFFICES ASSUME Bad # {} PROVE FALSE
  OBVIOUS
<1>1. ASSUME NEW s \in SUBSET S
      PROVE  /\ sum(s) \in Int
             /\ s # {} => Pick(s) \in s /\ sum(s) = f[Pick(s)] + sum(s \ {Pick(s)})
  <2>1. IsFiniteSet(s) /\ \A y \in s : f[y] \in Int
    BY FS_Subset
  <2>2. s # {} => Pick(s) \in s
    BY DEF Pick
  <2> QED BY <2>1, <2>2, SumFacts
<1>2. Bad \in SUBSET SUBSET S
  OBVIOUS
<1>3. PICK s \in Bad : \A t \in Bad : t \subseteq s => t = s
  <2> HIDE DEF Bad
  <2> QED BY <1>2, LeastSet
<1>4. PICK y \in s : sum(s) # f[y] + sum(s \ {y})
  OBVIOUS
<1> DEFINE c == Pick(s)
<1>5. c \in s /\ sum(s) = f[c] + sum(s \ {c}) /\ y # c /\ f[c] \in Int /\ f[y] \in Int
  BY <1>1, <1>4
<1>6. ASSUME NEW t \in SUBSET s, t # s, NEW z \in t PROVE sum(t) = f[z] + sum(t \ {z})
  BY <1>3, <1>6
<1> HIDE DEF sum, Bad, c
<1>7. sum(s \ {c}) = f[y] + sum((s \ {c}) \ {y})
  BY <1>5, <1>6
<1>8. sum(s \ {y}) = f[c] + sum((s \ {y}) \ {c})
  BY <1>5, <1>6
<1>9. (s \ {c}) \ {y} = (s \ {y}) \ {c} /\ (s \ {c}) \ {y} \in SUBSET S
  BY <1>2
<1>10. sum((s \ {c}) \ {y}) \in Int
  BY <1>1, <1>9
<1>11. sum(s) = f[c] + (f[y] + sum((s \ {c}) \ {y})) /\ f[y] + sum(s \ {y}) = f[y] + (f[c] + sum((s \ {c}) \ {y}))
  BY <1>5, <1>7, <1>8, <1>9
<1>12. sum(s) = f[y] + sum(s \ {y})
  BY <1>5, <1>10, <1>11
<1> QED BY <1>4, <1>12

(* Terms that are zero may be left out. *)
LEMMA SumOfSome ==
  ASSUME NEW S, IsFiniteSet(S), NEW f, \A x \in S : f[x] \in Int, NEW T \in SUBSET S,
         NEW g, \A x \in T : g[x] = f[x], \A x \in S \ T : f[x] = 0
  PROVE  SumFunctionOnSet(f, S) = SumFunctionOnSet(g, T)
<1> DEFINE Bad == {s \in SUBSET S : SumFunctionOnSet(f, s) # SumFunctionOnSet(g, s \cap T)}
<1>0. S \cap T = T
  OBVIOUS
<1> SUFFICES ASSUME Bad # {} PROVE FALSE
  BY <1>0
<1>1. ASSUME NEW s \in SUBSET S
      PROVE  /\ IsFiniteSet(s) /\ \A x \in s : f[x] \in Int
             /\ IsFiniteSet(s \cap T) /\ \A x \in s \cap T : g[x] \in Int
  <2>1. s \cap T \in SUBSET S
    OBVIOUS
  <2> QED BY <2>1, FS_Subset
<1>2. PICK s \in Bad : \A t \in Bad : t \subseteq s => t = s
  <2>1. Bad \in SUBSET SUBSET S
    OBVIOUS
  <2> HIDE DEF Bad
  <2> QED BY <2>1, LeastSet
<1>3. s \in SUBSET S /\ SumFunctionOnSet(f, s) # SumFunctionOnSet(g, s \cap T)
  OBVIOUS
<1>4. s # {}
  <2>1. SumFunctionOnSet(f, {}) = 0
    BY FS_EmptySet, SumFacts
  <2>2. SumFunctionOnSet(g, {}) = 0
    BY FS_EmptySet, SumFacts
  <2>3. s = {} => s \cap T = {}
    OBVIOUS
  <2> QED BY <1>3, <2>1, <2>2, <2>3
<1>5. PICK x \in s : TRUE
  BY <1>4
<1>6. SumFunctionOnSet(f, s \ {x}) = SumFunctionOnSet(g, (s \ {x}) \cap T)
  BY <1>2, <1>3
<1> HIDE DEF Bad
<1>7. SumFunctionOnSet(f, s) = f[x] + SumFunctionOnSet(f, s \ {x})
  BY <1>1, <1>3, SumWithout
<1>8. CASE x \in T
  <2>1. SumFunctionOnSet(g, s \cap T) = g[x] + SumFunctionOnSet(g, (s \cap T) \ {x})
    BY <1>1, <1>3, <1>8, SumWithout
  <2>2. (s \cap T) \ {x} = (s \ {x}) \cap T
    OBVIOUS
  <2>3. g[x] = f[x]
    BY <1>8
  <2> QED BY <1>3, <1>6, <1>7, <2>1, <2>2, <2>3, Zenon
<1>9. CASE x \notin T
  <2>1. s \cap T = (s \ {x}) \cap T /\ f[x] = 0
    BY <1>3, <1>9
  <2>2. SumFunctionOnSet(g, s \cap T) \in Int
    BY <1>1, <1>3, SumFacts
  <2>3. SumFunctionOnSet(f, s) = 0 + SumFunctionOnSet(g, s \cap T)
    BY <1>6, <1>7, <2>1, Zenon
  <2>4. ASSUME NEW m \in Int PROVE 0 + m = m
    OBVIOUS
  <2> QED BY <1>3, <2>2, <2>3, <2>4, Zenon
<1> QED BY <1>8, <1>9

-----------------------------------------------------------------------------
(* The report *)

Rec(pc, status, nodes, desired) ==
    [pc |-> pc, status |-> status, nodes |-> nodes, desired |-> desired]

ReportOf(h) == h = [exists |-> h.exists, status |-> h.status]

Shape ==
    /\ ReportOf(hcp)
    /\ worker = Rec(worker.pc, worker.status, worker.nodes, worker.desired)
    /\ claim \in [Names -> Claim] /\ cclaim \in [Names -> Claim]
    /\ node \in [Names -> Node] /\ cnode \in [Names -> Node]
    /\ queued \in BOOLEAN /\ fhcp \in BOOLEAN

(* A NodeClaim that is gone leaves nothing behind. *)
GoneIsEmpty == \A n \in Names : ~claim[n].exists => claim[n] = NoClaim

Fresh == fhcp => chcp = hcp

(* While no request waits, the reconcile has read what the caches still hold, *)
(* and the status of an idle one is what they count to.                       *)
Tracked ==
    ~queued =>
      /\ worker.pc = "claims" => chcp.exists /\ worker.status = chcp.status /\ worker.nodes = cnode
      /\ worker.pc = "apply" => worker.desired = Counts(cclaim, cnode)
      /\ worker.pc = "idle" /\ fhcp /\ hcp.exists => hcp.status = Counts(cclaim, cnode)

IInv == Shape /\ GoneIsEmpty /\ Fresh /\ Tracked

LEMMA IdleFields ==
  Idle = Rec(Idle.pc, Idle.status, Idle.nodes, Idle.desired) /\ Idle.pc = "idle"
  BY DEF Idle, Rec

(* The two records that a reconcile goes on with *)
LEMMA HasRead ==
  ASSUME NEW status, NEW nodes
  PROVE  [Idle EXCEPT !.pc = "claims", !.status = status, !.nodes = nodes]
           = Rec("claims", status, nodes, Idle.desired)
<1> DEFINE d == Idle.desired
           i1 == [Idle EXCEPT !.pc = "claims"]
           i2 == [i1 EXCEPT !.status = status]
           i3 == [i2 EXCEPT !.nodes = nodes]
<1>1. [Idle EXCEPT !.pc = "claims", !.status = status, !.nodes = nodes] = i3
  OBVIOUS
<1>2. i1 = Rec("claims", Idle.status, Idle.nodes, d)
  BY DEF Idle, Rec
<1> HIDE DEF i1, d
<1>3. i2 = Rec("claims", status, Idle.nodes, d)
  BY <1>2 DEF Rec
<1> HIDE DEF i2
<1>4. i3 = Rec("claims", status, nodes, d)
  BY <1>3 DEF Rec
<1> HIDE DEF i3
<1> QED BY <1>1, <1>4, Zenon DEF d

LEMMA HasListed ==
  ASSUME NEW v, v = Rec(v.pc, v.status, v.nodes, v.desired), NEW desired
  PROVE  [v EXCEPT !.pc = "apply", !.desired = desired] = Rec("apply", v.status, v.nodes, desired)
<1> DEFINE v1 == [v EXCEPT !.pc = "apply"]
           v2 == [v1 EXCEPT !.desired = desired]
<1>1. [v EXCEPT !.pc = "apply", !.desired = desired] = v2
  OBVIOUS
<1>2. v1 = Rec("apply", v.status, v.nodes, v.desired)
  BY DEF Rec
<1> HIDE DEF v1
<1>3. v2 = Rec("apply", v.status, v.nodes, desired)
  BY <1>2 DEF Rec
<1> HIDE DEF v2
<1> QED BY <1>1, <1>3, Zenon

LEMMA RecFields ==
  ASSUME NEW a, NEW b, NEW c, NEW d, NEW w, w = Rec(a, b, c, d)
  PROVE  /\ w.pc = a /\ w.status = b /\ w.nodes = c /\ w.desired = d
         /\ w = Rec(w.pc, w.status, w.nodes, w.desired)
  BY DEF Rec

LEMMA NoClaimTyped ==
  /\ NoClaim \in Claim /\ ~NoClaim.exists
  /\ [NoClaim EXCEPT !.exists = TRUE] \in Claim
  /\ [NoClaim EXCEPT !.exists = TRUE].exists
  BY ConstantsAreTyped DEF NoClaim, Claim

LEMMA InitIInv == Init => IInv
<1> SUFFICES ASSUME Init PROVE IInv
  OBVIOUS
<1>1. ReportOf(hcp)
  BY DEF Init, ReportOf
<1>2. hcp.exists \in BOOLEAN
  BY DEF Init
<1>3. Shape
  BY <1>1, <1>2, IdleFields, NoClaimTyped DEF Init, Shape, Node
<1>4. GoneIsEmpty /\ Fresh
  BY DEF Init, GoneIsEmpty, Fresh
<1>5. Tracked
  BY IdleFields DEF Init, Tracked
<1> QED BY <1>3, <1>4, <1>5 DEF IInv

(* What the API servers' objects do is seen only through the caches. *)
LEMMA HCPChanges ==
  ASSUME IInv, NEW h, ReportOf(h), ChangeHCP(h) PROVE IInv'
<1>1. Shape' /\ GoneIsEmpty'
  BY DEF IInv, ChangeHCP, Shape, GoneIsEmpty, ReportOf
<1>2. Fresh' /\ Tracked'
  BY DEF IInv, ChangeHCP, Fresh, Tracked, Counts, sumNodeClaimVCPUs
<1> QED BY <1>1, <1>2 DEF IInv

LEMMA NodeChanges ==
  ASSUME IInv, NEW n \in Names, NEW to \in Node, ChangeNode(n, to) PROVE IInv'
<1>1. Shape' /\ GoneIsEmpty'
  BY DEF IInv, ChangeNode, Shape, GoneIsEmpty, ReportOf
<1>2. Fresh' /\ Tracked'
  BY DEF IInv, ChangeNode, Fresh, Tracked, Counts, sumNodeClaimVCPUs
<1> QED BY <1>1, <1>2 DEF IInv

LEMMA ClaimChanges ==
  ASSUME IInv, NEW n \in Names, NEW to \in Claim, ~to.exists => to = NoClaim, ChangeClaim(n, to)
  PROVE  IInv'
<1>1. Shape' /\ GoneIsEmpty'
  BY DEF IInv, ChangeClaim, Shape, GoneIsEmpty, ReportOf
<1>2. Fresh' /\ Tracked'
  BY DEF IInv, ChangeClaim, Fresh, Tracked, Counts, sumNodeClaimVCPUs
<1> QED BY <1>1, <1>2 DEF IInv

LEMMA EnvironmentIInv == ASSUME IInv, Environment PROVE IInv'
<1>1. ASSUME CreateHCP \/ RemoveHCP \/ ResetStatus PROVE IInv'
  <2>1. ReportOf([exists |-> TRUE, status |-> NoStatus]) /\ ReportOf([exists |-> FALSE, status |-> NoStatus])
    BY DEF ReportOf
  <2>2. ReportOf([hcp EXCEPT !.status = NoStatus])
    BY DEF IInv, Shape, ReportOf
  <2> QED BY <1>1, <2>1, <2>2, HCPChanges DEF CreateHCP, RemoveHCP, ResetStatus
<1>2. ASSUME NEW n \in Names, JoinNode(n) \/ LabelNode(n) \/ UnlabelNode(n) \/ RemoveNode(n) PROVE IInv'
  <2>1. "absent" \in Node /\ "plain" \in Node /\ "labelled" \in Node
    BY DEF Node
  <2> QED BY <1>2, <2>1, NodeChanges DEF JoinNode, LabelNode, UnlabelNode, RemoveNode
<1>3. ASSUME NEW n \in Names, CreateClaim(n) \/ RemoveClaim(n) PROVE IInv'
  BY <1>3, NoClaimTyped, ClaimChanges DEF CreateClaim, RemoveClaim
<1>4. ASSUME NEW n \in Names, NameClaim(n) PROVE IInv'
  <2>1. [claim[n] EXCEPT !.named = TRUE] \in Claim /\ [claim[n] EXCEPT !.named = TRUE].exists
    BY <1>4 DEF IInv, Shape, Claim, NameClaim
  <2> QED BY <1>4, <2>1, ClaimChanges DEF NameClaim
<1>5. ASSUME NEW n \in Names, NEW cpu \in CPUs, SetCapacity(n, cpu) PROVE IInv'
  <2>1. [claim[n] EXCEPT !.cpu = cpu] \in Claim /\ [claim[n] EXCEPT !.cpu = cpu].exists
    BY <1>5 DEF IInv, Shape, Claim, SetCapacity
  <2> QED BY <1>5, <2>1, ClaimChanges DEF SetCapacity
<1> QED BY <1>1, <1>2, <1>3, <1>4, <1>5 DEF Environment

(* What the predicates let pass is every difference of the counts. *)
LEMMA SyncIInv == ASSUME IInv, SyncHCP \/ SyncNodes \/ SyncClaims PROVE IInv'
<1>1. CASE SyncHCP
  <2>1. Shape' /\ GoneIsEmpty' /\ Fresh'
    BY <1>1 DEF IInv, SyncHCP, Shape, ReportOf, GoneIsEmpty, Fresh
  <2>2. ~queued' => ~queued /\ fhcp /\ chcp' = chcp
    BY <1>1 DEF IInv, SyncHCP, Fresh
  <2>3. Tracked'
    BY <1>1, <2>2 DEF IInv, SyncHCP, Tracked, Counts, sumNodeClaimVCPUs
  <2> QED BY <2>1, <2>3 DEF IInv
<1>2. CASE SyncNodes
  <2>1. Shape' /\ GoneIsEmpty' /\ Fresh'
    BY <1>2 DEF IInv, SyncNodes, Shape, ReportOf, GoneIsEmpty, Fresh
  <2>2. ~queued' => ~queued /\ cnode' = cnode
    <3>1. ~queued' => ~queued /\ \A n \in Names : cnode[n] = node[n]
      BY <1>2 DEF IInv, SyncNodes, countChangePredicate
    <3>2. (\A n \in Names : cnode[n] = node[n]) => cnode = node
      BY DEF IInv, Shape
    <3> QED BY <1>2, <3>1, <3>2 DEF SyncNodes
  <2>3. Tracked'
    BY <1>2, <2>2 DEF IInv, SyncNodes, Tracked, Counts, sumNodeClaimVCPUs
  <2> QED BY <2>1, <2>3 DEF IInv
<1>3. CASE SyncClaims
  <2>1. Shape' /\ GoneIsEmpty' /\ Fresh'
    BY <1>3 DEF IInv, SyncClaims, Shape, ReportOf, GoneIsEmpty, Fresh
  <2>2. ~queued' => ~queued /\ cclaim' = cclaim
    <3>1. ~queued' => ~queued /\ \A n \in Names : ~nodeClaimPredicate(cclaim[n], claim[n])
      BY <1>3 DEF IInv, SyncClaims
    <3>2. ASSUME NEW n \in Names, ~nodeClaimPredicate(cclaim[n], claim[n]) PROVE cclaim[n] = claim[n]
      BY <3>2 DEF IInv, Shape, Claim, nodeClaimPredicate
    <3>3. (\A n \in Names : cclaim[n] = claim[n]) => cclaim = claim
      BY DEF IInv, Shape
    <3> QED BY <1>3, <3>1, <3>2, <3>3 DEF SyncClaims
  <2>3. Tracked'
    BY <1>3, <2>2 DEF IInv, SyncClaims, Tracked, Counts, sumNodeClaimVCPUs
  <2> QED BY <2>1, <2>3 DEF IInv
<1> QED BY <1>1, <1>2, <1>3

(* A reconcile reads the two lists one after the other: what changed between *)
(* them has queued another.                                                  *)
LEMMA WorkerIInv == ASSUME IInv, Reconcile \/ WorkerStep PROVE IInv'
<1>1. CASE Reconcile
  <2> DEFINE w == [Idle EXCEPT !.pc = "claims", !.status = chcp.status, !.nodes = cnode]
  <2>1. /\ w = Rec(w.pc, w.status, w.nodes, w.desired)
        /\ w.pc = "claims" /\ w.status = chcp.status /\ w.nodes = cnode
    <3>1. w = Rec("claims", chcp.status, cnode, Idle.desired)
      BY HasRead
    <3> HIDE DEF w
    <3> QED BY <3>1, RecFields
  <2>2. worker' = IF chcp.exists THEN w ELSE Idle
    BY <1>1 DEF Reconcile
  <2> HIDE DEF w
  <2>3. Shape' /\ GoneIsEmpty' /\ Fresh'
    BY <1>1, <2>1, <2>2, IdleFields DEF IInv, Reconcile, Shape, ReportOf, GoneIsEmpty, Fresh
  <2>4. Tracked'
    BY <1>1, <2>1, <2>2, IdleFields DEF IInv, Reconcile, Fresh, Tracked
  <2> QED BY <2>3, <2>4 DEF IInv
<1>2. CASE ListClaims
  <2> DEFINE desired == Counts(cclaim, worker.nodes)
             w == [worker EXCEPT !.pc = "apply", !.desired = desired]
  <2>1. w = Rec(w.pc, w.status, w.nodes, w.desired) /\ w.pc = "apply" /\ w.desired = desired
    <3> HIDE DEF desired
    <3>1. worker = Rec(worker.pc, worker.status, worker.nodes, worker.desired)
      BY DEF IInv, Shape
    <3>2. w = Rec("apply", worker.status, worker.nodes, desired)
      BY <3>1, HasListed
    <3> HIDE DEF w
    <3> QED BY <3>2, RecFields
  <2>2. worker' = IF desired = worker.status THEN Idle ELSE w
    BY <1>2 DEF ListClaims
  <2>3. ~queued => desired = Counts(cclaim, cnode)
    BY <1>2 DEF IInv, Tracked, ListClaims
  <2> HIDE DEF w, desired
  <2>4. Shape' /\ GoneIsEmpty' /\ Fresh'
    BY <1>2, <2>1, <2>2, IdleFields DEF IInv, ListClaims, Shape, ReportOf, GoneIsEmpty, Fresh
  <2>5. Counts(cclaim, cnode)' = Counts(cclaim, cnode)
    BY <1>2 DEF ListClaims, Counts, sumNodeClaimVCPUs
  <2>6. /\ queued' = queued /\ chcp' = chcp /\ hcp' = hcp /\ fhcp' = fhcp
        /\ worker.pc = "claims"
    BY <1>2 DEF ListClaims
  <2>7. Tracked'
    BY <2>1, <2>2, <2>3, <2>5, <2>6, IdleFields DEF IInv, Fresh, Tracked
  <2> QED BY <2>4, <2>7 DEF IInv
<1>3. CASE Apply
  <2>1. worker.pc = "apply" /\ worker' = Idle
    BY <1>3 DEF Apply, Done, Fail
  <2>2. Counts(cclaim, cnode)' = Counts(cclaim, cnode)
    BY <1>3 DEF Apply, Counts, sumNodeClaimVCPUs
  <2>3. CASE hcp.exists
    <3>1. hcp' = [hcp EXCEPT !.status = worker.desired] /\ fhcp' = (fhcp /\ hcp' = hcp) /\ queued' = queued
      BY <1>3, <2>3 DEF Apply, Done
    <3>2. ReportOf(hcp)' /\ hcp'.status = worker.desired
      BY <3>1 DEF IInv, Shape, ReportOf
    <3>3. Shape' /\ GoneIsEmpty' /\ Fresh'
      BY <1>3, <2>1, <3>1, <3>2, IdleFields DEF IInv, Apply, Shape, GoneIsEmpty, Fresh
    <3>4. Tracked'
      BY <1>3, <2>1, <2>2, <3>1, <3>2, IdleFields DEF IInv, Tracked
    <3> QED BY <3>3, <3>4 DEF IInv
  <2>4. CASE ~hcp.exists
    <3>1. Shape' /\ GoneIsEmpty' /\ Fresh' /\ Tracked'
      BY <1>3, <2>1, <2>4, IdleFields DEF IInv, Apply, Fail, Shape, ReportOf, GoneIsEmpty, Fresh, Tracked
    <3> QED BY <3>1 DEF IInv
  <2> QED BY <2>3, <2>4
<1> QED BY <1>1, <1>2, <1>3 DEF WorkerStep

LEMMA FailureIInv == ASSUME IInv, CallFails \/ Restart PROVE IInv'
<1>1. CASE CallFails
  <2>1. Shape' /\ GoneIsEmpty' /\ Fresh' /\ Tracked'
    BY <1>1, IdleFields DEF IInv, CallFails, Fail, Shape, ReportOf, GoneIsEmpty, Fresh, Tracked
  <2> QED BY <2>1 DEF IInv
<1>2. CASE Restart
  <2> DEFINE q == hcp.exists \/ \E n \in Names : node[n] # "absent" \/ claim[n].exists
  <2>1. queued' = q /\ hcp' = hcp
    BY <1>2 DEF Restart
  <2>2. q \in BOOLEAN
    OBVIOUS
  <2>3. hcp.exists => q
    OBVIOUS
  <2> HIDE DEF q
  <2>4. Shape' /\ GoneIsEmpty' /\ Fresh'
    BY <1>2, <2>1, <2>2, IdleFields DEF IInv, Restart, Shape, ReportOf, GoneIsEmpty, Fresh
  <2>5. Tracked'
    BY <1>2, <2>1, <2>3, IdleFields DEF Restart, Tracked
  <2> QED BY <2>4, <2>5 DEF IInv
<1> QED BY <1>1, <1>2

LEMMA StutterIInv == ASSUME IInv, UNCHANGED vars PROVE IInv'
<1>1. Shape' /\ GoneIsEmpty' /\ Fresh'
  BY DEF IInv, vars, Shape, ReportOf, GoneIsEmpty, Fresh
<1>2. Tracked'
  BY DEF IInv, vars, Tracked, Counts, sumNodeClaimVCPUs
<1> QED BY <1>1, <1>2 DEF IInv

(* The Nodes that a NodeClaim accounts for: what sumNodeClaimVCPUs adds up   *)
(* over NodeClaims is the capacity of the existing Nodes.                    *)
LEMMA CountsAreExact ==
  ASSUME Shape, GoneIsEmpty, hcp.status = Counts(claim, node)
  PROVE  Exact
<1>1. {n \in Names : claim[n].exists} = {n \in Names : claim[n] # NoClaim}
  BY NoClaimTyped DEF GoneIsEmpty
<1>2. sumNodeClaimVCPUs(claim, node) =
        SumFunctionOnSet([n \in Names |-> IF claim[n].named THEN claim[n].cpu ELSE 0],
                         {n \in Names : node[n] # "absent"})
  <2> DEFINE f == [n \in Names |-> IF claim[n].named THEN claim[n].cpu ELSE 0]
             g == [n \in Names |-> claim[n].cpu]
             S == {n \in Names : node[n] # "absent"}
             T == {n \in Names : claim[n].exists /\ claim[n].named /\ node[n] # "absent"}
  <2>1. IsFiniteSet(S)
    <3>1. S \in SUBSET Names
      OBVIOUS
    <3> QED BY <3>1, ConstantsAreTyped, FS_Subset
  <2>2. ASSUME NEW n \in S PROVE f[n] \in Int
    <3>1. claim[n].cpu \in CPUs
      BY DEF Shape, Claim
    <3>2. \A k \in CPUs : k \in Int
      BY ConstantsAreTyped
    <3> QED BY <3>1, <3>2
  <2>3. T \in SUBSET S
    OBVIOUS
  <2>4. ASSUME NEW n \in T PROVE g[n] = f[n]
    OBVIOUS
  <2>5. ASSUME NEW n \in S \ T PROVE f[n] = 0
    BY DEF GoneIsEmpty, NoClaim
  <2>6. sumNodeClaimVCPUs(claim, node) = SumFunctionOnSet(g, T)
    BY DEF sumNodeClaimVCPUs
  <2>7. SumFunctionOnSet(f, S) = SumFunctionOnSet(g, T)
    <3> HIDE DEF f, g, S, T
    <3> QED BY <2>1, <2>2, <2>3, <2>4, <2>5, SumOfSome
  <2> QED BY <2>6, <2>7
<1>3. /\ hcp.status.set /\ hcp.status.nodes = Cardinality({n \in Names : node[n] = "labelled"})
      /\ hcp.status.claims = Cardinality({n \in Names : claim[n].exists})
      /\ hcp.status.vcpus = sumNodeClaimVCPUs(claim, node)
  BY DEF Counts
<1> QED BY <1>1, <1>2, <1>3, Zenon DEF Exact

LEMMA NextIInv == IInv /\ [Next]_vars => IInv'
  BY EnvironmentIInv, SyncIInv, WorkerIInv, FailureIInv, StutterIInv DEF Next

(* At rest, with caches that are current, the reported counts are exact:     *)
(* neither the predicates of SetupWithManager nor the two separate lists of  *)
(* reconcileAutoNodeStatus lose a change, for any nodes and capacities, and  *)
(* however often others write the status or a call fails.                    *)
THEOREM ExactAtRestTheorem == Spec => []ExactAtRest
<1>1. Init => IInv
  BY InitIInv
<1>2. IInv /\ [Next]_vars => IInv'
  BY NextIInv
<1>3. IInv => ExactAtRest
  <2> SUFFICES ASSUME IInv, ~queued, worker.pc = "idle", hcp.exists, fhcp, cnode = node, cclaim = claim
               PROVE  Exact
    BY DEF ExactAtRest
  <2>1. hcp.status = Counts(claim, node)
    BY DEF IInv, Tracked
  <2> QED BY <2>1, CountsAreExact DEF IInv
<1> QED BY <1>1, <1>2, <1>3, PTL DEF Spec

-----------------------------------------------------------------------------
(* Types: the reported counts stay within what nodes and capacities allow. *)

LEMMA MaxExists ==
  ASSUME NEW S, IsFiniteSet(S), \A x \in S : x \in Nat
  PROVE  \A s \in SUBSET S : s # {} => \E x \in s : \A y \in s : x >= y
<1> DEFINE Has(s) == \E x \in s : \A y \in s : x >= y
           Bad == {s \in SUBSET S : s # {} /\ ~Has(s)}
<1> SUFFICES ASSUME Bad # {} PROVE FALSE
  OBVIOUS
<1>1. Bad \in SUBSET SUBSET S
  OBVIOUS
<1>2. PICK s \in Bad : \A t \in Bad : t \subseteq s => t = s
  <2> HIDE DEF Bad
  <2> QED BY <1>1, LeastSet
<1>3. PICK x \in s : TRUE
  OBVIOUS
<1>4. x \in Nat /\ \A y \in s : y \in Nat
  OBVIOUS
<1>5. CASE s \ {x} = {}
  <2>1. \A y \in s : y = x
    BY <1>5
  <2> QED BY <1>4, <2>1
<1>6. CASE s \ {x} # {}
  <2>1. Has(s \ {x})
    <3>1. s \ {x} \in SUBSET S /\ s \ {x} # s /\ s \ {x} \subseteq s
      OBVIOUS
    <3> HIDE DEF Has
    <3>2. s \ {x} \notin Bad
      BY <1>2, <3>1
    <3> QED BY <1>6, <3>1, <3>2
  <2>2. PICK m \in s \ {x} : \A y \in s \ {x} : m >= y
    BY <2>1
  <2>3. CASE m >= x
    <3>1. \A y \in s : m >= y
      BY <2>2, <2>3
    <3> QED BY <3>1
  <2>4. CASE ~(m >= x)
    <3>1. \A y \in s : x >= y
      BY <1>4, <2>2, <2>4
    <3> QED BY <3>1
  <2> QED BY <2>3, <2>4
<1> QED BY <1>5, <1>6

LEMMA MaxIsBound ==
  ASSUME NEW S, IsFiniteSet(S), S \subseteq Nat, S # {}
  PROVE  Max(S) \in S /\ \A x \in S : x <= Max(S)
<1>1. \E x \in S : \A y \in S : x >= y
  BY MaxExists
<1>2. Max(S) \in S /\ \A y \in S : Max(S) >= y
  BY <1>1 DEF Max
<1> QED BY <1>2

LEMMA SumBounded ==
  ASSUME NEW S, IsFiniteSet(S), NEW M \in Nat, NEW f, \A x \in S : f[x] \in 0..M
  PROVE  SumFunctionOnSet(f, S) \in 0..Cardinality(S) * M
<1> DEFINE sum(s) == SumFunctionOnSet(f, s)
           Bad == {s \in SUBSET S : sum(s) \notin 0..Cardinality(s) * M}
<1> SUFFICES ASSUME Bad # {} PROVE FALSE
  OBVIOUS
<1>1. Bad \in SUBSET SUBSET S
  OBVIOUS
<1>2. PICK s \in Bad : \A t \in Bad : t \subseteq s => t = s
  <2> HIDE DEF Bad
  <2> QED BY <1>1, LeastSet
<1>3. s \in SUBSET S /\ sum(s) \notin 0..Cardinality(s) * M
  OBVIOUS
<1>4. /\ IsFiniteSet(s) /\ Cardinality(s) \in Nat
      /\ \A x \in s : f[x] \in Int
  BY <1>3, FS_Subset, FS_CardinalityType
<1>5. s # {}
  <2>1. s = {} => sum(s) = 0 /\ Cardinality(s) = 0
    BY <1>4, SumFacts, FS_EmptySet
  <2>2. 0 \in 0..0 * M
    OBVIOUS
  <2> QED BY <1>3, <2>1, <2>2
<1>6. PICK x \in s : TRUE
  BY <1>5
<1>7. sum(s \ {x}) \in 0..Cardinality(s \ {x}) * M
  <2>1. s \ {x} \notin Bad
    BY <1>2, <1>6
  <2>2. s \ {x} \in SUBSET S
    BY <1>3
  <2> HIDE DEF sum
  <2> QED BY <2>1, <2>2
<1>8. sum(s) = f[x] + sum(s \ {x})
  BY <1>4, SumWithout
<1>9. Cardinality(s \ {x}) = Cardinality(s) - 1 /\ f[x] \in 0..M
  BY <1>3, <1>4, <1>6, FS_RemoveElement
<1>10. Cardinality(s) - 1 \in Nat
  BY <1>4, <1>5, FS_EmptySet
<1>11. ASSUME NEW c \in Nat, c - 1 \in Nat, NEW a \in 0..M, NEW b \in 0..(c - 1) * M PROVE a + b \in 0..c * M
  <2>1. (c - 1) * M + M = c * M /\ (c - 1) * M \in Nat /\ c * M \in Nat
    OBVIOUS
  <2> QED BY <2>1
<1> DEFINE c == Cardinality(s)
           a == f[x]
           b == sum(s \ {x})
<1>12. c \in Nat /\ c - 1 \in Nat /\ a \in 0..M /\ b \in 0..(c - 1) * M
  BY <1>4, <1>7, <1>9, <1>10, Zenon
<1> HIDE DEF a, b, c, sum
<1>13. a + b \in 0..c * M
  BY <1>11, <1>12
<1> QED BY <1>3, <1>8, <1>13 DEF a, b, c

LEMMA CapacityBound ==
  Max(CPUs) \in Nat /\ \A c \in CPUs : c \in 0..Max(CPUs)
<1>1. IsFiniteSet(CPUs) /\ CPUs \subseteq Nat /\ CPUs # {}
  BY ConstantsAreTyped
<1>2. Max(CPUs) \in CPUs /\ \A c \in CPUs : c <= Max(CPUs)
  BY <1>1, MaxIsBound
<1>3. ASSUME NEW c \in CPUs PROVE c \in 0..Max(CPUs)
  <2>1. c \in Nat /\ Max(CPUs) \in Nat /\ c <= Max(CPUs)
    BY <1>1, <1>2
  <2> QED BY <2>1
<1> QED BY <1>1, <1>2, <1>3

LEMMA SomeNames ==
  ASSUME NEW T \in SUBSET Names PROVE Cardinality(T) \in 0..Cardinality(Names)
<1>1. Cardinality(T) \in Nat /\ Cardinality(Names) \in Nat /\ Cardinality(T) <= Cardinality(Names)
  BY ConstantsAreTyped, FS_Subset, FS_CardinalityType
<1> QED BY <1>1

LEMMA CountsType ==
  ASSUME NEW claims \in [Names -> Claim], NEW nodes PROVE Counts(claims, nodes) \in Status
<1> DEFINE T == {n \in Names : claims[n].exists /\ claims[n].named /\ nodes[n] # "absent"}
           g == [n \in Names |-> claims[n].cpu]
           f == [n \in Names |-> IF n \in T THEN claims[n].cpu ELSE 0]
           M == Max(CPUs)
           N == Cardinality(Names)
<1>1. ASSUME NEW n \in Names PROVE f[n] \in 0..M
  <2>1. claims[n].cpu \in CPUs /\ 0 \in CPUs
    BY ConstantsAreTyped DEF Claim
  <2>2. f[n] \in CPUs
    BY <2>1
  <2> HIDE DEF f, M
  <2> QED BY <2>2, CapacityBound DEF M
<1>2. T \in SUBSET Names /\ (\A n \in T : g[n] = f[n]) /\ (\A n \in Names \ T : f[n] = 0)
  OBVIOUS
<1>3. sumNodeClaimVCPUs(claims, nodes) = SumFunctionOnSet(g, T)
  BY DEF sumNodeClaimVCPUs
<1>4. Cardinality({n \in Names : nodes[n] = "labelled"}) \in 0..N
  <2>1. {n \in Names : nodes[n] = "labelled"} \in SUBSET Names
    OBVIOUS
  <2> QED BY <2>1, SomeNames
<1>5. Cardinality({n \in Names : claims[n].exists}) \in 0..N
  <2>1. {n \in Names : claims[n].exists} \in SUBSET Names
    OBVIOUS
  <2> QED BY <2>1, SomeNames
<1>6. SumFunctionOnSet(f, Names) = SumFunctionOnSet(g, T)
  <2>1. ASSUME NEW n \in Names PROVE f[n] \in Int
    <3> HIDE DEF f, M
    <3>1. f[n] \in 0..M
      BY <1>1
    <3> QED BY <3>1
  <2> HIDE DEF f, g, T
  <2> QED BY <1>2, <2>1, ConstantsAreTyped, SumOfSome
<1>7. SumFunctionOnSet(f, Names) \in 0..N * M
  <2> HIDE DEF f
  <2> QED BY <1>1, ConstantsAreTyped, CapacityBound, SumBounded
<1>8. sumNodeClaimVCPUs(claims, nodes) \in 0..N * M
  BY <1>3, <1>6, <1>7, Zenon
<1>9. ASSUME NEW a \in 0..N, NEW b \in 0..N, NEW c \in 0..N * M
      PROVE  [set |-> TRUE, nodes |-> a, claims |-> b, vcpus |-> c] \in Status
  <2> DEFINE R == [set : {TRUE}, nodes : 0..N, claims : 0..N, vcpus : 0..N * M]
  <2>1. R \subseteq Status
    BY DEF Status
  <2>2. [set |-> TRUE, nodes |-> a, claims |-> b, vcpus |-> c] \in R
    <3> DEFINE A == 0..N
               C == 0..N * M
    <3>1. a \in A /\ b \in A /\ c \in C
      OBVIOUS
    <3> HIDE DEF A, C
    <3> QED BY <3>1 DEF A, C
  <2> HIDE DEF R
  <2> QED BY <2>1, <2>2
<1> HIDE DEF N, M
<1> QED BY <1>4, <1>5, <1>8, <1>9 DEF Counts

LEMMA HCPUpdate == ASSUME NEW h \in HCP, NEW s \in Status PROVE [h EXCEPT !.status = s] \in HCP
  BY DEF HCP

LEMMA NoStatusType == NoStatus \in Status
  BY DEF Status

LEMMA IdleType == Idle \in Worker
  BY NoStatusType DEF Idle, Worker, Node

LEMMA HCPMade == ASSUME NEW e \in BOOLEAN PROVE [exists |-> e, status |-> NoStatus] \in HCP
  BY NoStatusType DEF HCP

LEMMA RecType ==
  ASSUME NEW pc \in {"idle", "claims", "apply"}, NEW s \in Status, NEW nodes \in [Names -> Node], NEW d \in Status
  PROVE  Rec(pc, s, nodes, d) \in Worker
  BY DEF Rec, Worker

(* The counts that are reported, held by the worker or cached are those of   *)
(* no more than the existing names, and the vCPUs no more than their number  *)
(* times the largest capacity.                                               *)
THEOREM TypeCorrect == Spec => []TypeOK
<1>1. Init => TypeOK
  <2> SUFFICES ASSUME Init PROVE TypeOK
    OBVIOUS
  <2>1. hcp \in HCP
    BY NoStatusType DEF Init, HCP
  <2>2. hcp.exists \in BOOLEAN
    BY DEF Init
  <2> QED BY <2>1, <2>2, IdleType, NoClaimTyped, ConstantsAreTyped DEF Init, TypeOK, Node
<1>2. TypeOK /\ IInv /\ [Next]_vars => TypeOK'
  <2> SUFFICES ASSUME TypeOK, IInv, [Next]_vars PROVE TypeOK'
    OBVIOUS
  <2>1. Shape'
    BY NextIInv DEF IInv
  <2>2. hcp' \in HCP /\ chcp' \in HCP /\ worker' \in Worker /\ budget' \in Nat => TypeOK'
    BY <2>1 DEF Shape, TypeOK
  <2>3. ASSUME NEW h \in HCP, ChangeHCP(h) PROVE TypeOK'
    BY <2>2, <2>3 DEF ChangeHCP, Spend, TypeOK
  <2>4. CASE Environment
    <3>1. CASE CreateHCP \/ RemoveHCP \/ ResetStatus
      <4>1. /\ [exists |-> TRUE, status |-> NoStatus] \in HCP /\ [exists |-> FALSE, status |-> NoStatus] \in HCP
            /\ [hcp EXCEPT !.status = NoStatus] \in HCP
        BY HCPMade, HCPUpdate, NoStatusType DEF TypeOK
      <4> QED BY <2>3, <3>1, <4>1 DEF CreateHCP, RemoveHCP, ResetStatus
    <3>2. ASSUME NEW n \in Names, NEW to, ChangeNode(n, to) \/ ChangeClaim(n, to) PROVE TypeOK'
      BY <2>2, <3>2 DEF ChangeNode, ChangeClaim, Spend, TypeOK
    <3>3. ASSUME NEW n \in Names, JoinNode(n) \/ LabelNode(n) \/ UnlabelNode(n) \/ RemoveNode(n) PROVE TypeOK'
      BY <3>2, <3>3 DEF JoinNode, LabelNode, UnlabelNode, RemoveNode
    <3>4. ASSUME NEW n \in Names, CreateClaim(n) \/ NameClaim(n) \/ RemoveClaim(n) PROVE TypeOK'
      BY <3>2, <3>4 DEF CreateClaim, NameClaim, RemoveClaim
    <3>5. ASSUME NEW n \in Names, NEW cpu \in CPUs, SetCapacity(n, cpu) PROVE TypeOK'
      BY <3>2, <3>5 DEF SetCapacity
    <3> QED BY <2>4, <3>1, <3>3, <3>4, <3>5 DEF Environment
  <2>5. CASE SyncHCP \/ SyncNodes \/ SyncClaims
    BY <2>2, <2>5 DEF SyncHCP, SyncNodes, SyncClaims, TypeOK
  <2>6. CASE Reconcile
    <3>1. chcp.status \in Status
      BY DEF TypeOK, HCP
    <3>2. Rec("claims", chcp.status, cnode, Idle.desired) \in Worker
      <4>1. Idle.desired \in Status
        BY NoStatusType DEF Idle
      <4> QED BY <3>1, <4>1, RecType DEF TypeOK
    <3>3. worker' = IF chcp.exists THEN Rec("claims", chcp.status, cnode, Idle.desired) ELSE Idle
      BY <2>6, HasRead DEF Reconcile
    <3>4. worker' \in Worker
      BY <3>2, <3>3, IdleType
    <3> QED BY <2>2, <2>6, <3>4 DEF Reconcile, TypeOK
  <2>7. CASE ListClaims
    <3> DEFINE desired == Counts(cclaim, worker.nodes)
    <3>1. desired \in Status
      BY CountsType DEF TypeOK
    <3>2. worker' = IF desired = worker.status THEN Idle ELSE [worker EXCEPT !.pc = "apply", !.desired = desired]
      BY <2>7 DEF ListClaims
    <3> HIDE DEF desired
    <3>3. worker.status \in Status /\ worker.nodes \in [Names -> Node]
      BY DEF TypeOK, Worker
    <3>4. Rec("apply", worker.status, worker.nodes, desired) \in Worker
      BY <3>1, <3>3, RecType
    <3>5. [worker EXCEPT !.pc = "apply", !.desired = desired] = Rec("apply", worker.status, worker.nodes, desired)
      BY HasListed DEF IInv, Shape
    <3>6. worker' \in Worker
      BY <3>2, <3>4, <3>5, IdleType
    <3> QED BY <2>2, <2>7, <3>6 DEF ListClaims, TypeOK
  <2>8. CASE Apply
    <3>1. worker' = Idle /\ UNCHANGED <<chcp, budget>>
      BY <2>8 DEF Apply, Done, Fail
    <3>2. worker.desired \in Status
      BY DEF TypeOK, Worker
    <3>3. hcp' = hcp \/ hcp' = [hcp EXCEPT !.status = worker.desired]
      BY <2>8 DEF Apply
    <3>4. hcp' \in HCP
      BY <3>2, <3>3, HCPUpdate DEF TypeOK
    <3> QED BY <2>2, <3>1, <3>4, IdleType DEF TypeOK
  <2>9. CASE CallFails \/ Restart
    BY <2>2, <2>9, IdleType DEF CallFails, Restart, Fail, Spend, TypeOK
  <2>10. CASE UNCHANGED vars
    BY <2>2, <2>10 DEF vars, TypeOK
  <2> QED BY <2>4, <2>5, <2>6, <2>7, <2>8, <2>9, <2>10 DEF Next, WorkerStep
<1>3. Spec => []IInv
  BY InitIInv, NextIInv, PTL DEF Spec
<1> QED BY <1>1, <1>2, <1>3, PTL DEF Spec
=============================================================================
