--------------------------- MODULE RoleFlowProofs ---------------------------
(***************************************************************************)
(* What the operators of RoleFlow return, for every message, decision and  *)
(* graph: a sequence that mentions agents names each of them once; a chain *)
(* of handoffs exists and stays in its graph; so tasks are planned for     *)
(* agents of the graph, one or more, none of them twice.                   *)
(***************************************************************************)
EXTENDS RoleFlow, FiniteSetTheorems, SequenceTheorems, TLAPS

(* A sequence without repetition of members of a set.                      *)
Listing(seq, set) ==
  /\ seq \in Seq(set)
  /\ \A i, j \in DOMAIN seq : seq[i] = seq[j] => i = j

-----------------------------------------------------------------------------
(* Least and greatest numbers of a set.                                    *)
LEMMA Least ==
  ASSUME NEW S \in SUBSET Nat, S # {}
  PROVE  \E m \in S : \A k \in S : m <= k
<1> DEFINE R == OpToRel(<, Nat)
<1>0. IsWellFoundedOn(R, Nat)
  BY NatLessThanWellFounded
<1>1. \E m \in S : \A k \in S : ~ (<< k, m >> \in R)
  <2> HIDE DEF R
  <2> QED
    BY <1>0, WFMin
<1>2. PICK m \in S : \A k \in S : ~ (<< k, m >> \in R)
  BY <1>1
<1>3. ASSUME NEW k \in S PROVE m <= k
  <2> DEFINE p == << k, m >>
  <2> HIDE DEF R
  <2>1. p \in Nat \X Nat /\ p[1] = k /\ p[2] = m
    OBVIOUS
  <2>2. ~ (p \in R)
    BY <1>2
  <2> HIDE DEF p
  <2>3. ~ (p[1] < p[2])
    BY <2>1, <2>2 DEF OpToRel, R
  <2> QED
    BY <2>1, <2>3
<1> QED
  BY <1>3

LEMMA Greatest ==
  ASSUME NEW S \in SUBSET Nat, S # {}, NEW n \in Nat, \A k \in S : k <= n
  PROVE  \E m \in S : \A k \in S : k <= m
<1> DEFINE D == {d \in 0 .. n : n - d \in S}
<1>1. D \in SUBSET Nat /\ D # {}
  <2>1. PICK k \in S : TRUE
    OBVIOUS
  <2>2. n - k \in D
    BY <2>1
  <2> QED
    BY <2>2
<1> HIDE DEF D
<1>2. PICK d \in D : \A e \in D : d <= e
  BY <1>1, Least
<1>3. d \in 0 .. n /\ n - d \in S
  BY DEF D
<1>4. ASSUME NEW k \in S PROVE k <= n - d
  <2>1. n - k \in D
    BY DEF D
  <2> QED
    BY <1>2, <1>3, <2>1
<1> QED
  BY <1>3, <1>4

-----------------------------------------------------------------------------
(* What a sequence mentions of a set is there, each member once.  A member *)
(* is as far behind the first one as there are others mentioned before it, *)
(* so no two are at the same place and every place is taken.               *)
LEMMA FiniteRange ==
  ASSUME NEW X, NEW seq \in Seq(X)
  PROVE  ToSet(seq) \subseteq X /\ IsFiniteSet(ToSet(seq))
<1>1. Len(seq) \in Nat /\ DOMAIN seq = 1 .. Len(seq) /\ seq \in [1 .. Len(seq) -> X]
  BY LenProperties
<1>2. ToSet(seq) \subseteq X
  BY <1>1 DEF ToSet
<1>3. seq \in Surjection(1 .. Len(seq), ToSet(seq))
  BY <1>1 DEF ToSet, Surjection
<1>4. IsFiniteSet(1 .. Len(seq))
  BY <1>1, FS_Interval
<1> QED
  BY <1>2, <1>3, <1>4, FS_Surjection

LEMMA FunctionSeq ==
  ASSUME NEW S, NEW n \in Nat, NEW f \in [1 .. n -> S]
  PROVE  f \in Seq(S) /\ Len(f) = n /\ DOMAIN f = 1 .. n
OBVIOUS

LEMMA MentionedOnce ==
  ASSUME NEW X, NEW seq \in Seq(X), NEW set
  PROVE  /\ Listing(Mentioned(seq, set), set \intersect ToSet(seq))
         /\ ToSet(Mentioned(seq, set)) = set \intersect ToSet(seq)
<1> DEFINE F == set \intersect ToSet(seq)
           at(a) == CHOOSE i \in DOMAIN seq : seq[i] = a /\ \A j \in 1 .. i - 1 : seq[j] # a
           before(a) == Cardinality({b \in F : at(b) < at(a)})
           n == Cardinality(F)
           M == [i \in 1 .. n |-> CHOOSE a \in F : before(a) = i - 1]
           rank == [a \in F |-> before(a) + 1]
<1>1. M = Mentioned(seq, set)
  BY DEF Mentioned
<1>2. Len(seq) \in Nat /\ DOMAIN seq = 1 .. Len(seq)
  BY LenProperties
<1>3. IsFiniteSet(F)
  BY FiniteRange, FS_Subset
<1>4. n \in Nat
  BY <1>3, FS_CardinalityType
<1>5. ASSUME NEW a \in F PROVE at(a) \in 1 .. Len(seq) /\ seq[at(a)] = a
  <2> DEFINE I == {i \in DOMAIN seq : seq[i] = a}
  <2>1. I \in SUBSET Nat /\ I # {}
    BY <1>2 DEF ToSet
  <2>2. PICK i \in I : \A k \in I : i <= k
    BY <2>1, Least
  <2>3. i \in DOMAIN seq /\ seq[i] = a /\ \A j \in 1 .. i - 1 : seq[j] # a
    BY <2>2, <1>2
  <2> QED
    BY <2>3, <1>2
<1> HIDE DEF at
<1>6. ASSUME NEW a \in F
      PROVE  before(a) \in Nat /\ before(a) < n
  <2> DEFINE B == {b \in F : at(b) < at(a)}
  <2>1. B \in SUBSET F /\ IsFiniteSet(B) /\ Cardinality(B) <= n /\ (n = Cardinality(B) => F = B)
    <3>1. B \in SUBSET F
      OBVIOUS
    <3> QED
      BY <3>1, <1>3, FS_Subset
  <2>2. a \notin B
    BY <1>5, <1>2
  <2>3. Cardinality(B) \in Nat
    BY <2>1, FS_CardinalityType
  <2> HIDE DEF n, B
  <2>4. Cardinality(B) # n
    BY <2>1, <2>2
  <2>5. Cardinality(B) < n
    BY <2>1, <2>3, <2>4, <1>4
  <2> QED
    BY <2>3, <2>5 DEF B
<1>7. ASSUME NEW a \in F, NEW b \in F, at(a) < at(b) PROVE before(a) < before(b)
  <2> DEFINE A == {c \in F : at(c) < at(a)}
             B == {c \in F : at(c) < at(b)}
  <2>1. A \in SUBSET B /\ a \in B /\ a \notin A
    BY <1>2, <1>5, <1>7
  <2>2. IsFiniteSet(B)
    BY <1>3, FS_Subset
  <2>3. Cardinality(A) <= Cardinality(B) /\ (Cardinality(B) = Cardinality(A) => A = B)
    BY <2>1, <2>2, FS_Subset
  <2>4. Cardinality(A) \in Nat /\ Cardinality(B) \in Nat
    BY <1>6
  <2> HIDE DEF A, B
  <2>5. Cardinality(A) < Cardinality(B)
    BY <2>1, <2>3, <2>4
  <2> QED
    BY <2>5 DEF A, B
<1> HIDE DEF before, n, F
<1>8. ASSUME NEW a \in F, NEW b \in F, before(a) = before(b) PROVE a = b
  <2>1. ~ (at(a) < at(b)) /\ ~ (at(b) < at(a))
    BY <1>7, <1>6, <1>8
  <2>2. at(a) = at(b)
    BY <2>1, <1>5, <1>2
  <2> QED
    BY <2>2, <1>5
<1>9. rank \in Injection(F, 1 .. n)
  <2>1. rank \in [F -> 1 .. n]
    BY <1>4, <1>6
  <2>2. ASSUME NEW a \in F, NEW b \in F, rank[a] = rank[b] PROVE a = b
    BY <1>8, <1>6, <2>2
  <2> QED
    BY <2>1, <2>2 DEF Injection, IsInjective
<1>10. IsFiniteSet(1 .. n) /\ Cardinality(1 .. n) = n
  BY <1>4, FS_Interval
<1>11. rank \in Surjection(F, 1 .. n)
  BY <1>9, <1>10, <1>3, FS_Injection DEF n
<1>12. ASSUME NEW i \in 1 .. n PROVE M[i] \in F /\ before(M[i]) = i - 1
  <2>1. PICK a \in F : rank[a] = i
    BY <1>11 DEF Surjection
  <2>2. before(a) = i - 1
    BY <2>1, <1>6
  <2> QED
    BY <2>2
<1>13. M \in [1 .. n -> F]
  BY <1>12
<1> HIDE DEF M
<1>14. M \in Seq(F) /\ Len(M) = n /\ DOMAIN M = 1 .. n
  BY <1>13, <1>4, FunctionSeq
<1>15. ASSUME NEW i \in DOMAIN M, NEW j \in DOMAIN M, M[i] = M[j] PROVE i = j
  BY <1>12, <1>14, <1>15, <1>4
<1>16. ASSUME NEW a \in F PROVE \E i \in DOMAIN M : M[i] = a
  <2>1. before(a) + 1 \in 1 .. n
    BY <1>6, <1>4
  <2>2. before(M[before(a) + 1]) = before(a) /\ M[before(a) + 1] \in F
    BY <2>1, <1>12, <1>6
  <2> QED
    BY <2>1, <2>2, <1>8, <1>14
<1>17. Listing(M, F)
  BY <1>14, <1>15 DEF Listing
<1>18. ToSet(M) = F
  BY <1>13, <1>14, <1>16 DEF ToSet
<1> QED
  BY <1>1, <1>17, <1>18 DEF F, M, n

(* A listing of n members has n members.                                   *)
LEMMA ListingSize ==
  ASSUME NEW set, NEW seq, Listing(seq, set)
  PROVE  Cardinality(ToSet(seq)) = Len(seq)
<1>1. seq \in Seq(set) /\ Len(seq) \in Nat /\ DOMAIN seq = 1 .. Len(seq)
      /\ seq \in [1 .. Len(seq) -> set]
  BY LenProperties DEF Listing
<1>2. seq \in Surjection(1 .. Len(seq), ToSet(seq))
  BY <1>1 DEF ToSet, Surjection
<1>3. seq \in Injection(1 .. Len(seq), ToSet(seq))
  BY <1>1 DEF ToSet, Injection, IsInjective, Listing
<1>4. IsFiniteSet(1 .. Len(seq)) /\ Cardinality(1 .. Len(seq)) = Len(seq)
  BY <1>1, FS_Interval
<1> QED
  BY <1>2, <1>3, <1>4, FS_Surjection

-----------------------------------------------------------------------------
(* The roles chosen one after the other.                                   *)
LEMMA ManifestRoles ==
  /\ DOMAIN Manifest = 1 .. 5
  /\ Manifest[1] = "product_pm" /\ Manifest[2] = "planner" /\ Manifest[3] = "researcher"
  /\ Manifest[4] = "coder" /\ Manifest[5] = "reporter"
BY DEF Manifest

(* What was chosen stays, in its place.                                    *)
Continues(long, short) ==
  \A i \in DOMAIN short : i \in DOMAIN long /\ long[i] = short[i]

LEMMA AppendRoleOnce ==
  ASSUME NEW available, NEW wanted, NEW chosen, Listing(chosen, available)
  PROVE  /\ Listing(AppendRole(available, chosen, wanted), available)
         /\ Continues(AppendRole(available, chosen, wanted), chosen)
         /\ \/ AppendRole(available, chosen, wanted) # << >>
            \/ available \intersect wanted \intersect ToSet(Manifest) = {}
<1> DEFINE fit == {i \in DOMAIN Manifest : /\ Manifest[i] \in available \intersect wanted
                                           /\ Manifest[i] \notin ToSet(chosen)}
           ids == AppendRole(available, chosen, wanted)
<1>1. ids = IF fit = {} THEN chosen ELSE Append(chosen, Manifest[Min(fit)])
  BY DEF AppendRole
<1>2. chosen \in Seq(available) /\ Len(chosen) \in Nat /\ DOMAIN chosen = 1 .. Len(chosen)
  BY LenProperties DEF Listing
<1>3. CASE fit = {}
  <2>1. ids = chosen
    BY <1>1, <1>3
  <2>2. chosen # << >> \/ available \intersect wanted \intersect ToSet(Manifest) = {}
    <3> SUFFICES ASSUME chosen = << >> PROVE available \intersect wanted \intersect ToSet(Manifest) = {}
      OBVIOUS
    <3>1. ToSet(chosen) = {}
      BY DEF ToSet
    <3> QED
      BY <3>1, <1>3 DEF ToSet
  <2> QED
    BY <2>1, <2>2 DEF Continues
<1>4. CASE fit # {}
  <2>1. fit \in SUBSET Nat
    BY ManifestRoles
  <2>2. PICK k \in fit : \A l \in fit : k <= l
    BY <2>1, <1>4, Least
  <2>3. Min(fit) \in fit
    BY <2>2 DEF Min
  <2> DEFINE role == Manifest[Min(fit)]
  <2>4. role \in available /\ role \notin ToSet(chosen)
    BY <2>3
  <2> HIDE DEF role, fit
  <2>5. ids = Append(chosen, role)
    BY <1>1, <1>4 DEF role
  <2> HIDE DEF ids
  <2>6. ids \in Seq(available) /\ DOMAIN ids = 1 .. Len(chosen) + 1 /\ ids[Len(chosen) + 1] = role
        /\ \A i \in DOMAIN chosen : ids[i] = chosen[i]
    BY <2>4, <2>5, <1>2, AppendProperties
  <2>7. \A i \in DOMAIN chosen : chosen[i] # role
    BY <2>4 DEF ToSet
  <2>8. Listing(ids, available)
    BY <2>6, <2>7, <1>2 DEF Listing
  <2>9. Continues(ids, chosen) /\ ids # << >>
    BY <2>6, <1>2 DEF Continues
  <2> QED
    BY <2>8, <2>9 DEF ids
<1> QED
  BY <1>3, <1>4

LEMMA NothingChosen == ASSUME NEW available PROVE Listing(<< >>, available)
BY DEF Listing

LEMMA DefaultRolesOnce ==
  ASSUME NEW available, NEW m, available \subseteq ToSet(Manifest)
  PROVE  /\ Listing(DefaultRoleIDs(available, m), available)
         /\ available # {} => DefaultRoleIDs(available, m) # << >>
         /\ Continues(DefaultRoleIDs(available, m),
                      AppendRole(available, AppendRole(available, << >>, Entrypoints), PlanRoles))
<1> DEFINE lead == AppendRole(available, << >>, Entrypoints)
           plan == AppendRole(available, lead, PlanRoles)
           facts == IF WantsResearch(m) \/ WantsFreshInfo(m)
                    THEN AppendRole(available, plan, ResearchRoles) ELSE plan
           code == IF WantsImplementation(m) THEN AppendRole(available, facts, CodeRoles)
                   ELSE facts
           ids == AppendRole(available, code, ReportRoles)
           one == AppendRole(available, << >>, available)
<1>1. DefaultRoleIDs(available, m) = IF ids # << >> THEN ids ELSE one
  BY DEF DefaultRoleIDs
<1>2. Listing(lead, available)
  BY NothingChosen, AppendRoleOnce
<1> HIDE DEF lead
<1>3. Listing(plan, available)
  BY <1>2, AppendRoleOnce
<1> HIDE DEF plan
<1>4. Listing(facts, available) /\ Continues(facts, plan)
  <2>1. Continues(plan, plan)
    BY DEF Continues
  <2> QED
    BY <1>3, <2>1, AppendRoleOnce
<1> HIDE DEF facts
<1>5. Listing(code, available) /\ Continues(code, facts)
  <2>1. Continues(facts, facts)
    BY DEF Continues
  <2> QED
    BY <1>4, <2>1, AppendRoleOnce
<1> HIDE DEF code
<1>6. Listing(ids, available) /\ Continues(ids, code)
  BY <1>5, AppendRoleOnce
<1> HIDE DEF ids
<1>7. Continues(ids, plan)
  BY <1>4, <1>5, <1>6 DEF Continues
<1>8. Listing(one, available) /\ (available # {} => one # << >>)
  BY NothingChosen, AppendRoleOnce
<1> HIDE DEF one
<1>9. ids = << >> => Continues(one, plan)
  BY <1>7 DEF Continues
<1> QED
  BY <1>1, <1>6, <1>7, <1>8, <1>9 DEF plan, lead

LEMMA MatchRolesOnce ==
  ASSUME NEW graph, NEW start, NEW d, d.roles \in Seq(Ids)
  PROVE  Listing(MatchRoles(graph, start, d), DOMAIN graph.agents)
<1> DEFINE available == ToSet(Manifest) \intersect DOMAIN graph.agents
           named == RoleIDsFromDecision(d.roles, available)
           default == DefaultRoleIDs(available, d.goal)
           ids == MatchRoles(graph, start, d)
<1>1. ids = IF start \notin Entrypoints THEN << >> ELSE IF named # << >> THEN named ELSE default
  BY DEF MatchRoles
<1>2. Listing(named, available \intersect ToSet(d.roles))
  BY MentionedOnce DEF RoleIDsFromDecision
<1>3. Listing(default, available)
  BY DefaultRolesOnce
<1> HIDE DEF named, default, ids
<1>4. ids \in Seq(DOMAIN graph.agents)
  <2>1. named \in Seq(DOMAIN graph.agents)
    BY <1>2, SeqMonotonic DEF Listing
  <2>2. default \in Seq(DOMAIN graph.agents)
    BY <1>3, SeqMonotonic DEF Listing
  <2>3. << >> \in Seq(DOMAIN graph.agents)
    OBVIOUS
  <2>4. ids = << >> \/ ids = named \/ ids = default
    BY <1>1
  <2> QED
    BY <2>1, <2>2, <2>3, <2>4
<1> QED
  BY <1>1, <1>2, <1>3, <1>4 DEF Listing, ids

(* A matched planner comes before the coder, if nobody named the roles.    *)
LEMMA PlannerBeforeCoder ==
  ASSUME NEW graph, NEW start, NEW d, d.roles = << >>,
         start \in Entrypoints, start \in DOMAIN graph.agents,
         "planner" \in DOMAIN graph.agents,
         NEW j \in DOMAIN MatchRoles(graph, start, d),
         MatchRoles(graph, start, d)[j] = "coder"
  PROVE  2 < j /\ MatchRoles(graph, start, d)[2] = "planner"
<1> DEFINE available == ToSet(Manifest) \intersect DOMAIN graph.agents
           ids == MatchRoles(graph, start, d)
           lead == AppendRole(available, << >>, Entrypoints)
           plan == AppendRole(available, lead, PlanRoles)
<1>1. start = "product_pm" /\ "product_pm" \in available /\ "planner" \in available
  BY ManifestRoles DEF Entrypoints, ToSet
<1>2. ids = DefaultRoleIDs(available, d.goal)
  <2>1. RoleIDsFromDecision(d.roles, available) = << >>
    <3> DEFINE none == << >>
    <3>1. none \in Seq(Ids) /\ ToSet(none) = {}
      BY DEF ToSet
    <3>2. d.roles = none
      OBVIOUS
    <3> HIDE DEF none
    <3>3. Listing(Mentioned(none, available), available \intersect ToSet(none))
      BY <3>1, MentionedOnce
    <3>4. Mentioned(none, available) \in Seq({})
      BY <3>1, <3>3 DEF Listing
    <3> QED
      BY <3>2, <3>4 DEF RoleIDsFromDecision
  <2> QED
    BY <2>1 DEF MatchRoles
<1> HIDE DEF available
<1>3. lead = << "product_pm" >>
  <2> DEFINE fit == {i \in DOMAIN Manifest : /\ Manifest[i] \in available \intersect Entrypoints
                                             /\ Manifest[i] \notin ToSet(<< >>)}
  <2>1. fit = {1}
    BY <1>1, ManifestRoles DEF Entrypoints, ToSet
  <2>2. Min(fit) = 1
    BY <2>1 DEF Min
  <2> HIDE DEF fit
  <2>3. lead = Append(<< >>, Manifest[Min(fit)])
    BY <2>1 DEF AppendRole, fit
  <2> QED
    BY <2>2, <2>3, ManifestRoles
<1>4. PlanRoles = {"planner", "product_pm"}
  BY DEF PlanRoles, RoleHas, Requiring, RequiredSkills, RequiredTools, Manifest, ToSet
<1>5. DOMAIN plan = 1 .. 2 /\ plan[1] = "product_pm" /\ plan[2] = "planner"
  <2> DEFINE fit == {i \in DOMAIN Manifest : /\ Manifest[i] \in available \intersect PlanRoles
                                             /\ Manifest[i] \notin ToSet(lead)}
  <2>1. ToSet(lead) = {"product_pm"}
    BY <1>3 DEF ToSet
  <2>2. fit = {2}
    BY <1>1, <1>4, <2>1, ManifestRoles
  <2>3. Min(fit) = 2
    BY <2>2 DEF Min
  <2> HIDE DEF fit, lead
  <2>4. plan = Append(lead, Manifest[Min(fit)])
    BY <2>2 DEF AppendRole, fit
  <2> QED
    <3>1. plan = Append(<< "product_pm" >>, "planner")
      BY <2>3, <2>4, <1>3, ManifestRoles
    <3> DEFINE one == << "product_pm" >>
    <3>2. one \in Seq({"product_pm", "planner"}) /\ Len(one) = 1 /\ one[1] = "product_pm"
      OBVIOUS
    <3> HIDE DEF plan, one
    <3> QED
      BY <3>1, <3>2, AppendProperties DEF one
<1> HIDE DEF ids, lead, plan
<1>6. Continues(ids, plan) /\ Listing(ids, available)
  BY <1>2, DefaultRolesOnce DEF available, lead, plan
<1>7. 1 \in DOMAIN ids /\ ids[1] = "product_pm" /\ 2 \in DOMAIN ids /\ ids[2] = "planner"
  BY <1>5, <1>6 DEF Continues
<1>8. j \in DOMAIN ids /\ ids[j] = "coder" /\ DOMAIN ids = 1 .. Len(ids) /\ Len(ids) \in Nat
  BY <1>6, LenProperties DEF ids, Listing
<1> QED
  BY <1>7, <1>8 DEF ids

-----------------------------------------------------------------------------
(* There is a longest chain of handoffs.                                   *)
LEMMA HandoffPlanOnce ==
  ASSUME NEW graph, NEW start \in DOMAIN graph.agents, IsFiniteSet(graph.edges)
  PROVE  /\ HandoffPlan(graph, start) \in Chains(graph, start)
         /\ Listing(HandoffPlan(graph, start), DOMAIN graph.agents)
         /\ HandoffPlan(graph, start)[1] = start
         /\ HandoffPlan(graph, start) # << >>
<1> DEFINE K == Cardinality(graph.edges) + 1
           C == Chains(graph, start)
           L == {Len(c) : c \in C}
<1>1. K \in Nat /\ 1 <= K
  BY FS_CardinalityType
<1>2. ASSUME NEW c \in C
      PROVE  /\ Listing(c, DOMAIN graph.agents)
             /\ Len(c) \in 1 .. K
             /\ c[1] = start
  <2>1. c \in UNION {[1 .. n -> DOMAIN graph.agents] : n \in 1 .. K}
        /\ c[1] = start /\ \A i, j \in DOMAIN c : c[i] = c[j] => i = j
    BY DEF Chains
  <2>2. PICK n \in 1 .. K : c \in [1 .. n -> DOMAIN graph.agents]
    BY <2>1
  <2>3. c \in Seq(DOMAIN graph.agents) /\ Len(c) = n
    BY <2>2, <1>1, FunctionSeq
  <2> QED
    BY <2>1, <2>3 DEF Listing
<1>3. << start >> \in C
  <2> DEFINE c == << start >>
  <2>1. c \in [1 .. 1 -> DOMAIN graph.agents] /\ Len(c) = 1 /\ DOMAIN c = {1} /\ c[1] = start
    OBVIOUS
  <2> HIDE DEF c
  <2>2. c \in UNION {[1 .. n -> DOMAIN graph.agents] : n \in 1 .. K}
    BY <2>1, <1>1
  <2> QED
    BY <2>1, <2>2 DEF Chains, c
<1> HIDE DEF C, K
<1>4. L \in SUBSET Nat /\ L # {} /\ \A k \in L : k <= K
  <2>1. ASSUME NEW k \in L PROVE k \in Nat /\ k <= K
    <3>1. PICK c \in C : k = Len(c)
      OBVIOUS
    <3> QED
      BY <3>1, <1>1, <1>2
  <2>2. Len(<< start >>) \in L
    BY <1>3
  <2> QED
    BY <2>1, <2>2
<1>5. PICK k \in L : \A l \in L : l <= k
  BY <1>1, <1>4, Greatest
<1>6. \E c \in C : \A e \in C : Len(e) <= Len(c)
  BY <1>5
<1>7. HandoffPlan(graph, start) \in C
  BY <1>6 DEF HandoffPlan, C
<1> QED
  BY <1>2, <1>7, <1>1 DEF C

(* Tasks are planned for agents of the graph, one or more, each once.      *)
LEMMA TaskPlanOnce ==
  ASSUME NEW graph, NEW packed, NEW start \in DOMAIN graph.agents, NEW d,
         IsFiniteSet(graph.edges), d.roles \in Seq(Ids)
  PROVE  /\ Listing(TaskPlan(graph, packed, start, d), DOMAIN graph.agents)
         /\ TaskPlan(graph, packed, start, d) # << >>
<1>1. Listing(MatchRoles(graph, start, d), DOMAIN graph.agents)
  BY MatchRolesOnce
<1>2. Listing(HandoffPlan(graph, start), DOMAIN graph.agents) /\ HandoffPlan(graph, start) # << >>
  BY HandoffPlanOnce
<1> QED
  BY <1>1, <1>2 DEF TaskPlan
=============================================================================
