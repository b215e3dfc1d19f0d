--------------------------- MODULE AnalysisProofs ---------------------------
(***************************************************************************)
(* What the analysis of an organisation computes, for every organisation,  *)
(* log and set of documents.  The theorems about one scan need nothing but *)
(* the types of the organisation (OrgTypeOK); those about the completed    *)
(* runs rest on an inductive invariant of theirs (RunsInv).                *)
(*                                                                         *)
(*   least privilege   what a suggested policy may grant                   *)
(*   graph             searches by hops are closures; paths, blast radius  *)
(*                     and the page of a principal                         *)
(*   log               how its lines are joined, dated and counted         *)
(*   sums              sums over finite sets, without recursion            *)
(*   findings          one of each issue, finitely many, in every check    *)
(*   numbers           scores, risks and the load of an account            *)
(*   runs              the invariant of the completed runs, and comparison *)
(*                                                                         *)
(* Induction over a number or a finite set is the choice of a least        *)
(* counterexample (FiniteFacts).                                           *)
(***************************************************************************)
EXTENDS Analysis, FiniteFacts

\* The union of patterns grants what one of them grants, and no more.
LEMMA OnePatternGrants ==
    ASSUME NEW G, NEW a
    PROVE  grants_action(G, a) <=> \E g \in G : grants_action({g}, a)
    BY DEF grants_action

\* What is kept has a scope of its own in the statements.
LEMMA KeptHasScope ==
    ASSUME NEW docs, NEW used, NEW a \in kept(Patterns(docs), used)
    PROVE  \A r \in resources_for(a, docs) : \E s \in AllowStatements(docs) :
                r \in ScopeOf(s) /\ \E g \in GrantedBy(s) : grants_action({g}, a)
<1>0. PICK g \in Patterns(docs) : grants_action({g}, a)
    <2>1. grants_action(Patterns(docs), a)
        BY DEF kept
    <2> QED
        BY <2>1, OnePatternGrants
<1>1. PICK s \in AllowStatements(docs) : g \in GrantedBy(s)
    BY <1>0 DEF Patterns
<1> DEFINE granting == {h \in Patterns(docs) : grants_action({h}, a)}
<1>2. g \in granting
    BY <1>0
<1>3. ScopeOf(s) \subseteq ScopeUnder(docs, granting) /\ ScopeOf(s) # {}
    BY <1>1, <1>2 DEF ScopeUnder, ScopeOf
<1>4. ScopeUnder(docs, granting) # {}
    BY <1>3
<1>5. resources_for(a, docs) \in {ScopeUnder(docs, {a}), ScopeUnder(docs, granting)}
    BY <1>4 DEF resources_for
<1>6. grants_action({a}, a)
    BY DEF grants_action
<1>7. \A r \in ScopeUnder(docs, {a}) \cup ScopeUnder(docs, granting) :
         \E t \in AllowStatements(docs) :
             r \in ScopeOf(t) /\ \E h \in GrantedBy(t) : grants_action({h}, a)
    BY <1>6 DEF ScopeUnder
<1> QED
    BY <1>5, <1>7

\* Where no statement has a form the tool cannot reduce, what a suggested
\* statement allows is granted by a document.
LEMMA SuggestedIsGranted ==
    ASSUME NEW docs, NEW used, ~has_unsupported_forms(docs),
           NEW st \in build_policy(kept(Patterns(docs), used), docs),
           NEW a \in st.action, NEW r \in st.resource
    PROVE  \E doc \in docs : Grants(doc, a, r)
<1> DEFINE held == kept(Patterns(docs), used)
<1>1. PICK R \in {resources_for(x, docs) : x \in held} :
         st = Allow({x \in held : resources_for(x, docs) = R}, R)
    BY DEF build_policy
<1>2. st.action = {x \in held : resources_for(x, docs) = R} /\ st.resource = R
    BY <1>1 DEF Allow
<1>3. a \in held /\ r \in resources_for(a, docs)
    BY <1>2
<1>4. PICK s \in AllowStatements(docs) :
         r \in ScopeOf(s) /\ \E g \in GrantedBy(s) : grants_action({g}, a)
    BY <1>3, KeptHasScope
<1>5. PICK doc \in docs : s \in doc /\ is_allow(s)
    BY <1>4 DEF AllowStatements, Allowed
<1>6. ~s.condition /\ s.notAction = {} /\ ~s.notResource
    BY <1>5 DEF has_unsupported_forms
<1>7. grants_action(s.action, a)
    BY <1>4, <1>6, OnePatternGrants DEF GrantedBy
<1> QED
    BY <1>4, <1>5, <1>6, <1>7 DEF Grants

\* What the tool suggests to a principal is never more than the principal's own
\* statements grant, whatever the documents and the log (_build_policy).
THEOREM SuggestionsNeverWiden == Spec => []SuggestedNeverWidens
<1>1. SuggestedNeverWidens
    <2> SUFFICES ASSUME NEW p \in Principals,
                        NEW st \in Recommendation(p).suggested,
                        NEW a \in st.action, NEW r \in st.resource
                 PROVE  \E doc \in policies_for(p) : Grants(doc, a, r)
        BY DEF SuggestedNeverWidens
    <2> DEFINE docs == policies_for(p)
    <2>1. GrantedActions(p) = Patterns(docs)
        BY DEF GrantedActions, granted_actions, Patterns, AllowStatements
    <2>2. /\ confident(docs, events_for(p), window_days)
          /\ st \in build_policy(kept(Patterns(docs), used_by(p)), docs)
        BY <2>1 DEF Recommendation, recommend
    <2>3. ~has_unsupported_forms(docs)
        BY <2>2 DEF confident
    <2> QED
        BY <2>2, <2>3, SuggestedIsGranted
<1> QED
    BY <1>1, PTL

-----------------------------------------------------------------------------
\* What the recursion of Within asks of the sets up to n hops.
Unrolls(G, p, g, n) ==
    g = [k \in 0 .. n |-> IF k = 0 THEN {p} ELSE OneHop(G, g[k - 1])]

\* The sets within n hops exist, as the recursion says.
LEMMA UnrollsFurther ==
    ASSUME NEW G, NEW p, NEW n \in Nat, NEW g, Unrolls(G, p, g, n)
    PROVE  \E h : Unrolls(G, p, h, n + 1)
<1> DEFINE h == [k \in 0 .. n + 1 |-> IF k = 0 THEN {p} ELSE OneHop(G, g[k - 1])]
<1>1. \A k \in 0 .. n : h[k] = IF k = 0 THEN {p} ELSE OneHop(G, g[k - 1])
  OBVIOUS
<1>2. \A k \in 0 .. n : g[k] = IF k = 0 THEN {p} ELSE OneHop(G, g[k - 1])
  BY DEF Unrolls
<1>3. \A k \in 0 .. n + 1 : k # 0 => h[k - 1] = g[k - 1]
  <2> SUFFICES ASSUME NEW k \in 0 .. n + 1, k # 0 PROVE h[k - 1] = g[k - 1]
    OBVIOUS
  <2>1. k - 1 \in 0 .. n
    OBVIOUS
  <2> HIDE DEF h
  <2> QED
    BY <1>1, <1>2, <2>1
<1>4. h = [k \in 0 .. n + 1 |-> IF k = 0 THEN {p} ELSE OneHop(G, h[k - 1])]
  BY <1>3
<1> QED
  BY <1>4 DEF Unrolls

LEMMA WithinUnfolds ==
    ASSUME NEW G, NEW p, Longest(G) \in Nat
    PROVE  /\ Within(G, p)[0] = {p}
           /\ \A n \in 1 .. Longest(G) : Within(G, p)[n] = OneHop(G, Within(G, p)[n - 1])
<1> DEFINE Bad == {m \in Nat : ~\E g : Unrolls(G, p, g, m)}
<1>1. Bad = {}
  <2> SUFFICES ASSUME Bad # {} PROVE FALSE
    OBVIOUS
  <2>1. PICK m \in Bad : \A k \in Bad : m <= k
    <3>1. Bad \in SUBSET Nat
      OBVIOUS
    <3> HIDE DEF Bad
    <3> QED
      BY <3>1, NatMin
  <2>2. CASE m = 0
    <3>1. Unrolls(G, p, [n \in 0 .. 0 |-> {p}], 0)
      BY DEF Unrolls
    <3> QED
      BY <2>1, <2>2, <3>1
  <2>3. CASE m > 0
    <3>1. m - 1 \in Nat /\ m - 1 \notin Bad /\ m \in Nat
      BY <2>1, <2>3
    <3>2. PICK g : Unrolls(G, p, g, m - 1)
      BY <3>1
    <3>3. \E h : Unrolls(G, p, h, m - 1 + 1)
      BY <3>1, <3>2, UnrollsFurther
    <3> QED
      BY <2>1, <3>1, <3>3
  <2> QED
    BY <2>1, <2>2, <2>3
<1>2. \E g : Unrolls(G, p, g, Longest(G))
  BY <1>1
<1>3. Within(G, p) = CHOOSE g : Unrolls(G, p, g, Longest(G))
  BY DEF Within, Unrolls
<1>4. Unrolls(G, p, Within(G, p), Longest(G))
  BY <1>2, <1>3
<1> DEFINE W == Within(G, p)
           L == Longest(G)
<1> HIDE DEF W, L
<1>5. W = [k \in 0 .. L |-> IF k = 0 THEN {p} ELSE OneHop(G, W[k - 1])] /\ L \in Nat
  BY <1>4 DEF Unrolls, W, L
<1>6. \A k \in 0 .. L : W[k] = IF k = 0 THEN {p} ELSE OneHop(G, W[k - 1])
  BY <1>5
<1>7. W[0] = {p}
  <2>1. 0 \in 0 .. L
    BY <1>5
  <2> QED
    BY ONLY <1>6, <2>1
<1>8. ASSUME NEW n \in 1 .. L PROVE W[n] = OneHop(G, W[n - 1])
  <2>1. n \in 0 .. L /\ n # 0
    BY <1>5
  <2> QED
    BY ONLY <1>6, <2>1
<1> QED
  BY <1>7, <1>8 DEF W, L

\* They grow, and once they stop growing they never grow again.
LEMMA WithinGrows ==
    ASSUME NEW G, NEW p, Longest(G) \in Nat,
           NEW i \in 0 .. Longest(G), NEW j \in i .. Longest(G)
    PROVE  Within(G, p)[i] \subseteq Within(G, p)[j]
<1> DEFINE W == Within(G, p)
           Bad == {k \in i .. Longest(G) : ~(W[i] \subseteq W[k])}
<1>1. \A n \in 1 .. Longest(G) : W[n] = OneHop(G, W[n - 1])
  BY WithinUnfolds
<1> SUFFICES ASSUME Bad # {} PROVE FALSE
  OBVIOUS
<1>2. PICK k \in Bad : \A x \in Bad : k <= x
  <2>1. Bad \in SUBSET Nat
    OBVIOUS
  <2> HIDE DEF Bad
  <2> QED
    BY <2>1, NatMin
<1>3. k # i /\ k \in 1 .. Longest(G)
  BY <1>2
<1>4. W[i] \subseteq W[k - 1]
  BY <1>2, <1>3
<1>5. W[k - 1] \subseteq W[k]
  BY <1>1, <1>3 DEF OneHop
<1> QED
  BY <1>2, <1>4, <1>5

Closed(S, G) == \A e \in G : e[1] \in S => e[2] \in S

\* They stay inside every closed set that p is in.
LEMMA WithinStays ==
    ASSUME NEW G, NEW p, Longest(G) \in Nat, NEW S, p \in S, Closed(S, G),
           NEW n \in 0 .. Longest(G)
    PROVE  Within(G, p)[n] \subseteq S
<1> DEFINE W == Within(G, p)
           Bad == {k \in 0 .. Longest(G) : ~(W[k] \subseteq S)}
<1>1. /\ W[0] = {p}
      /\ \A k \in 1 .. Longest(G) : W[k] = OneHop(G, W[k - 1])
  BY WithinUnfolds
<1> HIDE DEF W
<1> SUFFICES ASSUME Bad # {} PROVE FALSE
  BY DEF W
<1>2. PICK k \in Bad : \A x \in Bad : k <= x
  <2>1. Bad \in SUBSET Nat
    OBVIOUS
  <2> HIDE DEF Bad
  <2> QED
    BY <2>1, NatMin
<1>3. k \in 1 .. Longest(G)
  BY <1>1, <1>2
<1>4. W[k - 1] \subseteq S
  BY <1>2, <1>3
<1>5. W[k] \subseteq S
  BY <1>1, <1>3, <1>4 DEF OneHop, Closed
<1> QED
  BY <1>2, <1>5

\* With as many hops as there are nodes with an edge, nothing more is reached:
\* each hop but the last finds a new one of them.
LEMMA WithinSaturates ==
    ASSUME NEW G, NEW p, IsFiniteSet({e[1] : e \in G})
    PROVE  Longest(G) \in Nat /\ Closed(Within(G, p)[Longest(G)], G)
<1> DEFINE W == Within(G, p)
           L == Longest(G)
           Src == {e[1] : e \in G}
<1>0. L \in Nat /\ L = Cardinality(Src)
  BY FS_CardinalityType DEF Longest
<1>1. /\ W[0] = {p}
      /\ \A k \in 1 .. L : W[k] = OneHop(G, W[k - 1])
  BY <1>0, WithinUnfolds
<1>2. \A k \in 0 .. L : W[k] \subseteq W[L]
  BY <1>0, WithinGrows
<1>fin. IsFiniteSet(Src)
  OBVIOUS
<1>src. \A e \in G : e[1] \in Src
  OBVIOUS
<1> HIDE DEF W, L, Src
<1> SUFFICES ASSUME ~Closed(W[L], G) PROVE FALSE
  BY <1>0 DEF W, L
<1>3. ASSUME NEW k \in 0 .. L, Closed(W[k], G) PROVE FALSE
  <2> DEFINE Off == {j \in k .. L : W[j] # W[k]}
  <2>1. CASE Off = {}
    <3>1. W[L] = W[k]
      BY <1>0, <1>3, <2>1
    <3> QED
      BY <1>3, <3>1
  <2>2. CASE Off # {}
    <3>1. PICK j \in Off : \A x \in Off : j <= x
      <4>1. Off \in SUBSET Nat
        BY <1>0
      <4> HIDE DEF Off
      <4> QED
        BY <2>2, <4>1, NatMin
    <3>2. j \in 1 .. L /\ j - 1 \in k .. L /\ W[j - 1] = W[k]
      BY <1>0, <3>1
    <3>3. W[j] = OneHop(G, W[k])
      BY <1>1, <3>2
    <3>4. W[j] = W[k]
      BY <1>3, <3>3 DEF OneHop, Closed
    <3> QED
      BY <3>1, <3>4
  <2> QED
    BY <2>1, <2>2
<1> DEFINE Few == {k \in 0 .. L : ~(Cardinality(W[k] \cap Src) > k)}
<1>4. Few = {}
  <2> SUFFICES ASSUME Few # {} PROVE FALSE
    OBVIOUS
  <2>1. PICK k \in Few : \A x \in Few : k <= x
    <3>1. Few \in SUBSET Nat
      BY <1>0
    <3> HIDE DEF Few
    <3> QED
      BY <3>1, NatMin
  <2>2. PICK e \in G : e[1] \in W[k] /\ e[2] \notin W[k]
    BY <1>3, <2>1 DEF Closed
  <2>fin. IsFiniteSet(W[k] \cap Src) /\ Cardinality(W[k] \cap Src) \in Nat
    BY <1>fin, FS_Intersection, FS_CardinalityType
  <2>3. CASE k = 0
    <3>1. W[k] \cap Src = {p}
      BY <1>1, <1>src, <2>2, <2>3
    <3>2. Cardinality(W[k] \cap Src) = 1
      BY <3>1, FS_Singleton
    <3>3. Cardinality(W[k] \cap Src) > k
      BY <2>3, <3>2
    <3> QED
      BY <2>1, <3>3
  <2>4. CASE k > 0
    <3>1. k \in 1 .. L /\ k - 1 \in 0 .. L
      BY <1>0, <2>1, <2>4
    <3>2. W[k] = OneHop(G, W[k - 1])
      BY <1>1, <3>1
    <3>3. e[1] \notin W[k - 1]
      BY <2>2, <3>2 DEF OneHop
    <3> DEFINE A == W[k - 1] \cap Src
    <3>4. IsFiniteSet(A) /\ Cardinality(A) \in Nat
      BY <1>fin, FS_Intersection, FS_CardinalityType
    <3>5. Cardinality(A) > k - 1
      BY <1>0, <2>1, <2>4, <3>1
    <3>6. Cardinality(A \cup {e[1]}) = Cardinality(A) + 1
      BY <3>3, <3>4, FS_AddElement
    <3>7. A \cup {e[1]} \subseteq W[k] \cap Src
      BY <1>src, <2>2, <3>2 DEF OneHop
    <3>8. Cardinality(A \cup {e[1]}) <= Cardinality(W[k] \cap Src)
      BY <2>fin, <3>7, FS_Subset
    <3> HIDE DEF A
    <3> QED
      BY <1>0, <2>1, <2>fin, <3>4, <3>5, <3>6, <3>8
  <2> QED
    BY <1>0, <2>1, <2>3, <2>4
<1>5. Cardinality(W[L] \cap Src) > L
  BY <1>0, <1>4
<1>6. Cardinality(W[L] \cap Src) <= L /\ Cardinality(W[L] \cap Src) \in Nat
  BY <1>0, <1>fin, FS_Subset, FS_Intersection, FS_CardinalityType
<1> QED
  BY <1>0, <1>5, <1>6

\* Pairs of principals have finitely many origins.
LEMMA FinitelyManyOrigins ==
    ASSUME NEW G \in SUBSET (Principals \X Principals)
    PROVE  IsFiniteSet({e[1] : e \in G})
<1>1. {e[1] : e \in G} \subseteq Principals
  OBVIOUS
<1>2. IsFiniteSet(Principals)
  BY OrganisationAssumption
<1> QED
  BY <1>1, <1>2, FS_Subset

\* Together they are the least set that contains p and is closed under the
\* steps; self-loops make no difference.
LEMMA WithinIsClosure ==
    ASSUME NEW G \in SUBSET (Principals \X Principals), NEW p \in Principals,
           NEW R \in SUBSET (Principals \X Principals),
           \A e \in Principals \X Principals : e[1] # e[2] => (e \in G <=> e \in R)
    PROVE  /\ Longest(G) \in Nat
           /\ Within(G, p)[Longest(G)] = Closure(p, R)
           /\ Closed(Closure(p, R), R)
<1> DEFINE all == Within(G, p)[Longest(G)]
<1>1. Longest(G) \in Nat /\ Closed(all, G)
  BY FinitelyManyOrigins, WithinSaturates
<1>2. \A S : Closed(S, G) <=> Closed(S, R)
  <2> SUFFICES ASSUME NEW S PROVE Closed(S, G) <=> Closed(S, R)
    OBVIOUS
  <2>1. \A e \in G : e \in R \/ e[1] = e[2]
    OBVIOUS
  <2>2. \A e \in R : e \in G \/ e[1] = e[2]
    OBVIOUS
  <2> QED
    BY <2>1, <2>2 DEF Closed
<1>3. Closed(Principals, G)
  BY DEF Closed
<1>4. all \subseteq Principals
  BY <1>1, <1>3, WithinStays
<1>5. p \in all
  <2>1. Within(G, p)[0] = {p}
    BY <1>1, WithinUnfolds
  <2>2. Within(G, p)[0] \subseteq all
    BY <1>1, WithinGrows
  <2> QED
    BY <2>1, <2>2
<1>6. ASSUME NEW S \in SUBSET Principals, p \in S, Closed(S, R)
      PROVE  all \subseteq S
  <2>1. Closed(S, G)
    BY <1>2, <1>6
  <2> QED
    BY <1>1, <1>6, <2>1, WithinStays
<1>7. Closed(all, R)
  BY <1>1, <1>2
<1> HIDE DEF all
<1>8. all = Closure(p, R)
  <2>1. all \subseteq Closure(p, R)
    BY <1>4, <1>6 DEF Closure, Closed
  <2>2. Closure(p, R) \subseteq all
    BY <1>4, <1>5, <1>7 DEF Closure, Closed
  <2> QED
    BY <2>1, <2>2
<1> QED
  BY <1>1, <1>7, <1>8 DEF all

\* What is n hops away and no nearer ends a path of n hops.
LEMMA NearestHasPath ==
    ASSUME NEW G \in SUBSET (Principals \X Principals), NEW p \in Principals,
           NEW n \in 0 .. Longest(G), NEW q \in Within(G, p)[n],
           n # 0 => q \notin Within(G, p)[n - 1]
    PROVE  \E s : s \in Paths(G, p, q, n)
<1> DEFINE W == Within(G, p)
           Bad == {k \in 0 .. Longest(G) : \E x \in W[k] :
                      (k # 0 => x \notin W[k - 1]) /\ ~\E s : s \in Paths(G, p, x, k)}
<1>0. Longest(G) \in Nat
  BY FinitelyManyOrigins, WithinSaturates
<1>1. /\ W[0] = {p}
      /\ \A k \in 1 .. Longest(G) : W[k] = OneHop(G, W[k - 1])
  BY <1>0, WithinUnfolds
<1> SUFFICES ASSUME Bad # {} PROVE FALSE
  OBVIOUS
<1> HIDE DEF W
<1>2. PICK k \in Bad : \A x \in Bad : k <= x
  <2>1. Bad \in SUBSET Nat
    OBVIOUS
  <2> HIDE DEF Bad
  <2> QED
    BY <2>1, NatMin
<1>3. PICK x \in W[k] : (k # 0 => x \notin W[k - 1]) /\ ~\E s : s \in Paths(G, p, x, k)
  BY <1>2
<1>4. CASE k = 0
  <2> DEFINE s == [i \in 1 .. 1 |-> p]
  <2>1. x = p
    BY <1>1, <1>3, <1>4
  <2>2. s \in Paths(G, p, x, k)
    BY <1>4, <2>1 DEF Paths
  <2> QED
    BY <1>3, <2>2
<1>5. CASE k # 0
  <2>0. k \in 1 .. Longest(G) /\ k - 1 \in 0 .. Longest(G) /\ k - 1 \in Nat
    BY <1>0, <1>2, <1>5
  <2>1. PICK e \in G : e[1] \in W[k - 1] /\ e[2] = x
    BY <1>1, <1>3, <1>5, <2>0 DEF OneHop
  <2>2. k - 1 # 0 => e[1] \notin W[k - 1 - 1]
    <3> SUFFICES ASSUME k - 1 # 0, e[1] \in W[k - 1 - 1] PROVE FALSE
      OBVIOUS
    <3>1. k - 1 \in 1 .. Longest(G)
      BY <2>0
    <3>2. W[k - 1] = OneHop(G, W[k - 1 - 1])
      BY <1>1, <3>1
    <3>3. x \in W[k - 1]
      BY <2>1, <3>2 DEF OneHop
    <3> QED
      BY <1>3, <1>5, <3>3
  <2>3. k - 1 \notin Bad
    BY <1>2, <2>0
  <2>4. PICK t : t \in Paths(G, p, e[1], k - 1)
    BY <2>0, <2>1, <2>2, <2>3
  <2>5. /\ t \in [1 .. k -> Principals]
        /\ t[1] = p /\ t[k] = e[1]
        /\ \A i \in 1 .. k - 1 : <<t[i], t[i + 1]>> \in G
    BY <2>0, <2>4 DEF Paths
  <2>6. e \in Principals \X Principals /\ e = <<e[1], e[2]>>
    OBVIOUS
  <2> DEFINE s == [i \in 1 .. k + 1 |-> IF i = k + 1 THEN x ELSE t[i]]
  <2>7. s \in [1 .. k + 1 -> Principals]
    BY <2>0, <2>1, <2>5, <2>6
  <2>8. s[1] = p /\ s[k] = e[1] /\ s[k + 1] = x
    BY <2>0, <2>5
  <2>9. ASSUME NEW i \in 1 .. k PROVE <<s[i], s[i + 1]>> \in G
    <3>1. CASE i = k
      BY <2>1, <2>6, <2>8, <3>1
    <3>2. CASE i # k
      <4>1. i \in 1 .. k - 1 /\ i + 1 \in 1 .. k
        BY <2>0, <3>2
      <4>2. s[i] = t[i] /\ s[i + 1] = t[i + 1]
        BY <2>0, <4>1
      <4> QED
        BY <2>5, <4>1, <4>2
    <3> QED
      BY <3>1, <3>2
  <2> HIDE DEF s
  <2>10. s \in Paths(G, p, x, k)
    BY <2>7, <2>8, <2>9 DEF Paths
  <2> QED
    BY <1>3, <2>10
<1> QED
  BY <1>4, <1>5

\* Along a path the hops add up.
LEMMA HopsAddUp ==
    ASSUME NEW G \in SUBSET (Principals \X Principals), NEW p \in Principals, NEW q,
           NEW n \in Nat, NEW s \in Paths(G, p, q, n), n <= Longest(G),
           NEW i \in 1 .. n + 1, NEW m \in Nat, s[i] \in Within(G, p)[m],
           NEW k \in 0 .. n + 1 - i, m + k <= Longest(G)
    PROVE  s[i + k] \in Within(G, p)[m + k]
<1> DEFINE W == Within(G, p)
           Bad == {j \in 0 .. k : s[i + j] \notin W[m + j]}
<1>0. Longest(G) \in Nat
  BY FinitelyManyOrigins, WithinSaturates
<1>1. \A j \in 1 .. Longest(G) : W[j] = OneHop(G, W[j - 1])
  BY <1>0, WithinUnfolds
<1>2. \A j \in 1 .. n : <<s[j], s[j + 1]>> \in G
  BY DEF Paths
<1> HIDE DEF W
<1> SUFFICES ASSUME Bad # {} PROVE FALSE
  BY DEF W
<1>3. PICK j \in Bad : \A x \in Bad : j <= x
  <2>1. Bad \in SUBSET Nat
    OBVIOUS
  <2> HIDE DEF Bad
  <2> QED
    BY <2>1, NatMin
<1>4. j # 0
  <2>1. s[i + 0] \in W[m + 0]
    BY DEF W
  <2> QED
    BY <1>3, <2>1
<1>5. j - 1 \in 0 .. k /\ j - 1 \notin Bad
  BY <1>3, <1>4
<1>6. s[i + (j - 1)] \in W[m + (j - 1)]
  BY <1>5
<1>7. i + (j - 1) \in 1 .. n /\ i + (j - 1) + 1 = i + j
  BY <1>3, <1>4
<1>8. m + j \in 1 .. Longest(G) /\ m + j - 1 = m + (j - 1)
  BY <1>0, <1>3, <1>4
<1>9. W[m + j] = OneHop(G, W[m + (j - 1)])
  BY <1>1, <1>8
<1>10. <<s[i + (j - 1)], s[i + j]>> \in G
  BY <1>2, <1>7
<1>11. s[i + j] \in W[m + j]
  BY <1>6, <1>9, <1>10 DEF OneHop
<1> QED
  BY <1>3, <1>11

\* What the engine reads of a principal's grants is what its documents say.
LEMMA GrantedPattern ==
    ASSUME NEW p \in Principals, NEW g
    PROVE  g \in GrantedActions(p) <=>
              \E u \in attached[p] \cap DOMAIN Document : \E st \in Document[u] :
                  is_allow(st) /\ g \in GrantedBy(st)
<1>1. \A u : u \in attached[p] \cap policies <=> u \in attached[p] \cap DOMAIN Document
  <2>1. attached[p] \subseteq UNION {attached[x] : x \in Principals}
    OBVIOUS
  <2> QED
    BY <2>1 DEF policies, FilePolicies, AwsPolicies
<1>2. g \in GrantedActions(p) <=>
         \E u \in attached[p] \cap policies : g \in granted_actions(Document[u])
  BY DEF GrantedActions, policies_for
<1>3. \A doc : g \in granted_actions(doc) <=> \E st \in doc : is_allow(st) /\ g \in GrantedBy(st)
  BY DEF granted_actions, Allowed
<1> QED
  BY <1>1, <1>2, <1>3

LEMMA GrantsAreHeld ==
    ASSUME NEW p \in Principals
    PROVE  /\ \A a : grants_action(GrantedActions(p), a) <=> Holds(p, a)
           /\ Star \in GrantedActions(p) <=> HoldsEverything(p)
<1>1. ASSUME NEW a
      PROVE  grants_action(GrantedActions(p), a) <=> Holds(p, a)
  <2>1. grants_action(GrantedActions(p), a) <=>
           \E u \in attached[p] \cap DOMAIN Document : \E st \in Document[u] :
               is_allow(st) /\ \E g \in GrantedBy(st) : grants_action({g}, a)
    <3>1. grants_action(GrantedActions(p), a)
             <=> \E g \in GrantedActions(p) : grants_action({g}, a)
      BY OnePatternGrants
    <3> QED
      BY <3>1, GrantedPattern
  <2>2. ASSUME NEW st
        PROVE  (\E g \in GrantedBy(st) : grants_action({g}, a))
                   <=> (st.notAction # {} \/ grants_action(st.action, a))
    <3>1. CASE st.notAction # {}
      <4>1. Star \in GrantedBy(st) /\ grants_action({Star}, a)
        BY <3>1 DEF GrantedBy, grants_action
      <4> QED
        BY <3>1, <4>1
    <3>2. CASE st.notAction = {}
      <4>1. GrantedBy(st) = st.action
        BY <3>2 DEF GrantedBy
      <4> QED
        BY <3>2, <4>1, OnePatternGrants
    <3> QED
      BY <3>1, <3>2
  <2> QED
    BY <2>1, <2>2 DEF Holds, is_allow
<1>2. Star \in GrantedActions(p) <=> HoldsEverything(p)
  BY GrantedPattern DEF HoldsEverything, GrantedBy, is_allow
<1> QED
  BY <1>1, <1>2

\* The first of a list of actions is there as soon as one of them is held.
LEMMA SomeGranted ==
    ASSUME NEW p \in Principals, NEW actions, NEW n \in Nat, DOMAIN actions = 1 .. n
    PROVE  FirstGranted(p, actions) # {} <=> \E i \in 1 .. n : Holds(p, actions[i])
<1> DEFINE T == {i \in 1 .. n : Holds(p, actions[i])}
<1>1. FirstGranted(p, actions) =
         {actions[i] : i \in {j \in 1 .. n : /\ Holds(p, actions[j])
                                            /\ \A k \in 1 .. j - 1 : ~Holds(p, actions[k])}}
  BY GrantsAreHeld DEF FirstGranted
<1>2. ASSUME T # {}
      PROVE  \E j \in 1 .. n : Holds(p, actions[j]) /\ \A k \in 1 .. j - 1 : ~Holds(p, actions[k])
  <2>1. PICK j \in T : \A k \in T : j <= k
    <3>1. T \in SUBSET Nat
      OBVIOUS
    <3> HIDE DEF T
    <3> QED
      BY <1>2, <3>1, NatMin
  <2>2. \A k \in 1 .. j - 1 : k \in 1 .. n /\ ~(j <= k)
    BY <2>1
  <2> QED
    BY <2>1, <2>2
<1> QED
  BY <1>1, <1>2

\* The edges the searches follow, self-loops aside, are the steps a document
\* allows, and the admin-equivalent are who the documents say.
LEMMA EdgesAreSteps ==
    /\ EscalationGraph \in SUBSET (Principals \X Principals)
    /\ \A e \in Principals \X Principals :
          e[1] # e[2] => (e \in EscalationGraph <=> e \in Pairs(Becomes))
    /\ CAN_ASSUME = Pairs(Trusted)
    /\ \A p \in Principals : p \in direct_admins <=> HoldsEverything(p)
    /\ \A p \in Principals : p \in admins <=> IsAdmin(p)
<1>1. CAN_ASSUME = Pairs(Trusted)
  <2>1. ASSUME NEW e \in Principals \X Principals
        PROVE  e \in CAN_ASSUME <=> Trusted(e[1], e[2])
    BY DEF CAN_ASSUME, Trusted, is_assume_role_statement, is_allow, trust_principal_arns
  <2>2. CAN_ASSUME \subseteq Principals \X Principals
    BY DEF CAN_ASSUME, Principals
  <2> QED
    BY <2>1, <2>2 DEF Pairs
<1>2. ASSUME NEW p \in Principals
      PROVE  /\ PassesRoles(p) <=> /\ Holds(p, "iam:PassRole")
                                   /\ Holds(p, "ec2:RunInstances") \/ Holds(p, "lambda:CreateFunction")
             /\ MintsCredentials(p) <=>
                   \E a \in {"iam:CreateAccessKey", "iam:CreateLoginProfile", "iam:UpdateLoginProfile"} :
                       Holds(p, a)
             /\ AttachesToSelf(p) <=>
                   \E a \in {"iam:AttachUserPolicy", "iam:AttachRolePolicy", "iam:PutUserPolicy",
                             "iam:PutRolePolicy"} : Holds(p, a)
  <2>1. PassesRoles(p) <=> /\ Holds(p, "iam:PassRole")
                           /\ Holds(p, "ec2:RunInstances") \/ Holds(p, "lambda:CreateFunction")
    BY GrantsAreHeld DEF PassesRoles, COMPUTE_LAUNCH_ACTIONS
  <2>2. MintsCredentials(p) <=> \E i \in 1 .. 3 : Holds(p, CREATE_CREDENTIAL_ACTIONS[i])
    <3>1. DOMAIN CREATE_CREDENTIAL_ACTIONS = 1 .. 3
      BY DEF CREATE_CREDENTIAL_ACTIONS
    <3> QED
      BY <3>1, SomeGranted DEF MintsCredentials
  <2>3. AttachesToSelf(p) <=> \E i \in 1 .. 4 : Holds(p, SELF_ATTACH_ACTIONS[i])
    <3>1. DOMAIN SELF_ATTACH_ACTIONS = 1 .. 4
      BY DEF SELF_ATTACH_ACTIONS
    <3> QED
      BY <3>1, SomeGranted DEF AttachesToSelf
  <2>4. /\ CREATE_CREDENTIAL_ACTIONS[1] = "iam:CreateAccessKey"
        /\ CREATE_CREDENTIAL_ACTIONS[2] = "iam:CreateLoginProfile"
        /\ CREATE_CREDENTIAL_ACTIONS[3] = "iam:UpdateLoginProfile"
    BY DEF CREATE_CREDENTIAL_ACTIONS
  <2>5. /\ SELF_ATTACH_ACTIONS[1] = "iam:AttachUserPolicy"
        /\ SELF_ATTACH_ACTIONS[2] = "iam:AttachRolePolicy"
        /\ SELF_ATTACH_ACTIONS[3] = "iam:PutUserPolicy"
        /\ SELF_ATTACH_ACTIONS[4] = "iam:PutRolePolicy"
    BY DEF SELF_ATTACH_ACTIONS
  <2>6. \A i : i \in 1 .. 3 <=> i = 1 \/ i = 2 \/ i = 3
    OBVIOUS
  <2>7. \A i : i \in 1 .. 4 <=> i = 1 \/ i = 2 \/ i = 3 \/ i = 4
    OBVIOUS
  <2>8. MintsCredentials(p) <=>
           \E a \in {"iam:CreateAccessKey", "iam:CreateLoginProfile", "iam:UpdateLoginProfile"} :
               Holds(p, a)
    BY <2>2, <2>4, <2>6
  <2>9. AttachesToSelf(p) <=>
           \E a \in {"iam:AttachUserPolicy", "iam:AttachRolePolicy", "iam:PutUserPolicy",
                     "iam:PutRolePolicy"} : Holds(p, a)
    BY <2>3, <2>5, <2>7
  <2> QED
    BY <2>1, <2>8, <2>9
<1> DEFINE Launched == UNION {{p} \X (Roles \ {p}) : p \in {x \in Principals : PassesRoles(x)}}
           Minted == UNION {{p} \X (Principals \ (Roles \cup {p})) :
                                p \in {x \in Principals : MintsCredentials(x)}}
           Own == {<<p, p>> : p \in {x \in Principals : AttachesToSelf(x)}}
<1>split. CAN_ESCALATE = Launched \cup Minted \cup Own
  BY DEF CAN_ESCALATE
<1>3. CAN_ESCALATE \subseteq Principals \X Principals
  <2>1. Roles \subseteq Principals
    BY DEF Principals
  <2>2. Launched \subseteq Principals \X Principals
    BY <2>1
  <2>3. Minted \subseteq Principals \X Principals
    OBVIOUS
  <2>4. Own \subseteq Principals \X Principals
    OBVIOUS
  <2> QED
    <3> HIDE DEF Launched, Minted, Own
    <3> QED
      BY <1>split, <2>2, <2>3, <2>4
<1>4. ASSUME NEW e \in Principals \X Principals, e[1] # e[2]
      PROVE  e \in EscalationGraph <=> e \in Pairs(Becomes)
  <2>1. e \in CAN_ESCALATE <=>
           \/ PassesRoles(e[1]) /\ e[2] \in Roles \ {e[1]}
           \/ MintsCredentials(e[1]) /\ e[2] \in Principals \ (Roles \cup {e[1]})
    <3>0. e = <<e[1], e[2]>> /\ e[1] \in Principals
      OBVIOUS
    <3>1. e \in Launched
             <=> PassesRoles(e[1]) /\ e[2] \in Roles \ {e[1]}
      <4>1. \A p \in Principals : e \in {p} \X (Roles \ {p}) <=> e[1] = p /\ e[2] \in Roles \ {p}
        BY <3>0
      <4> QED
        BY <3>0, <4>1
    <3>2. e \in Minted
             <=> MintsCredentials(e[1]) /\ e[2] \in Principals \ (Roles \cup {e[1]})
      <4>1. \A p \in Principals : e \in {p} \X (Principals \ (Roles \cup {p}))
                                   <=> e[1] = p /\ e[2] \in Principals \ (Roles \cup {p})
        BY <3>0
      <4> QED
        BY <3>0, <4>1
    <3>3. e \notin Own
      BY <1>4
    <3> HIDE DEF Launched, Minted, Own
    <3> QED
      BY <1>split, <3>1, <3>2, <3>3
  <2>2. Principals \ (Roles \cup {e[1]}) = (Users \cup ServiceAccounts) \ {e[1]}
    BY OrganisationAssumption DEF Principals
  <2>3. e \in CAN_ESCALATE \/ Trusted(e[1], e[2]) <=> Becomes(e[1], e[2])
    <3>1. e[1] \in Principals
      OBVIOUS
    <3> QED
      BY ONLY <1>2, <2>1, <2>2, <3>1 DEF Becomes
  <2>4. e \in CAN_ASSUME <=> Trusted(e[1], e[2])
    BY <1>1 DEF Pairs
  <2> QED
    BY <2>3, <2>4 DEF EscalationGraph, Pairs
<1>5. \A p \in Principals : p \in direct_admins <=> HoldsEverything(p)
  BY GrantsAreHeld DEF direct_admins
<1>6. \A p \in Principals : p \in admins <=> IsAdmin(p)
  BY <1>2, <1>5 DEF admins, IsAdmin
<1>7. EscalationGraph \in SUBSET (Principals \X Principals)
  BY <1>1, <1>3 DEF EscalationGraph, Pairs
<1> QED
  BY <1>1, <1>4, <1>5, <1>6, <1>7

THEOREM BlastCountsTrust == Spec => []BlastCountsTrusted
<1> DEFINE trusts == Pairs(Trusted)
<1>1. ASSUME NEW p \in Principals
      PROVE  /\ assumable(p) \subseteq Closure(p, trusts)
             /\ (\A q \in Closure(p, trusts) : ~PassesRoles(q))
                    => assumable(p) = Closure(p, trusts) \ {p}
  <2> DEFINE chain == Closure(p, trusts)
             G == AssumeOnly
             reach == Within(G, p)[Longest(G)]
  <2>0. /\ trusts \in SUBSET (Principals \X Principals)
        /\ G \in SUBSET (Principals \X Principals)
        /\ G \subseteq trusts
    BY EdgesAreSteps DEF Pairs, AssumeOnly
  <2>1. Longest(G) \in Nat /\ reach = Closure(p, G)
    BY <2>0, WithinIsClosure
  <2>2. /\ Closed(chain, trusts)
        /\ chain = Within(trusts, p)[Longest(trusts)]
        /\ Longest(trusts) \in Nat
    BY <2>0, WithinIsClosure
  <2>3. p \in chain
    <3>1. Within(trusts, p)[0] = {p}
      BY <2>2, WithinUnfolds
    <3> QED
      BY <2>2, <3>1, WithinGrows
  <2>4. Closed(chain, G)
    BY <2>0, <2>2 DEF Closed
  <2>5. reach \subseteq chain
    BY <2>1, <2>3, <2>4, WithinStays
  <2>6. assumable(p) = reach \ {p}
    BY DEF assumable, descendants
  <2>7. ASSUME \A q \in chain : ~PassesRoles(q)
        PROVE  chain \subseteq reach
    <3>1. Closed(reach, G) /\ p \in reach
      <4>1. Closed(Closure(p, G), G)
        BY <2>0, WithinIsClosure
      <4>2. Within(G, p)[0] = {p}
        BY <2>1, WithinUnfolds
      <4> QED
        BY <2>1, <4>1, <4>2, WithinGrows
    <3>2. ASSUME NEW e \in trusts, e[1] \in reach
          PROVE  e[2] \in reach
      <4>1. e \in CAN_ASSUME /\ e[1] # e[2] /\ e[2] \in Roles /\ ~PassesRoles(e[1])
        BY <2>5, <2>7, <3>2, EdgesAreSteps DEF CAN_ASSUME
      <4>2. e \notin CAN_ESCALATE
        BY <4>1 DEF CAN_ESCALATE
      <4> QED
        BY <3>1, <3>2, <4>1, <4>2 DEF Closed, AssumeOnly
    <3>3. reach \subseteq Principals
      BY <2>1 DEF Closure
    <3>4. Closed(reach, trusts)
      BY <3>2 DEF Closed
    <3> HIDE DEF reach
    <3> QED
      BY <3>1, <3>3, <3>4 DEF Closure, Closed
  <2> HIDE DEF chain, reach
  <2>8. (\A q \in chain : ~PassesRoles(q)) => assumable(p) = chain \ {p}
    BY <2>5, <2>6, <2>7
  <2> QED
    BY <2>5, <2>6, <2>8 DEF chain
<1>2. BlastCountsTrusted
  BY <1>1 DEF BlastCountsTrusted
<1> QED
  BY <1>2, PTL

\* Who is not admin and has an admin target has the paths to the nearest ones
\* recorded; they are all at one distance, the least at which there is any.
LEMMA PathsAtDistance ==
    ASSUME NEW p \in Principals, p \notin direct_admins, admin_targets(p) # {}
    PROVE  \/ admin_targets(p) = {p} /\ escalations(p) = {<<p>>}
           \/ \E n \in 1 .. Longest(EscalationGraph) :
                 /\ Within(EscalationGraph, p)[n] \cap (admin_targets(p) \ {p}) # {}
                 /\ Within(EscalationGraph, p)[n - 1] \cap (admin_targets(p) \ {p}) = {}
                 /\ escalations(p) =
                       UNION {Paths(EscalationGraph, p, q, n) : q \in admin_targets(p) \ {p}}
<1> DEFINE G == EscalationGraph
           W == Within(G, p)
           targets == admin_targets(p)
           others == targets \ {p}
           At(n) == W[n] \cap others # {} /\ W[n - 1] \cap others = {}
           dist == CHOOSE n \in 1 .. Longest(G) : At(n)
           T == {n \in 0 .. Longest(G) : W[n] \cap others # {}}
<1>0. /\ Longest(G) \in Nat
      /\ G \in SUBSET (Principals \X Principals)
  BY EdgesAreSteps, WithinIsClosure
<1>1. CASE others = {}
  <2>1. escalations(p) = {<<p>>}
    BY <1>1 DEF escalations
  <2> QED
    BY <1>1, <2>1
<1>2. CASE others # {}
  <2>1. \E n \in 1 .. Longest(G) : At(n)
    <3>1. Longest(G) \in T
      <4>1. others \subseteq W[Longest(G)]
        BY DEF admin_targets, descendants
      <4> QED
        BY <1>0, <1>2, <4>1
    <3>2. PICK n \in T : \A m \in T : n <= m
      <4>1. T \in SUBSET Nat
        OBVIOUS
      <4> HIDE DEF T
      <4> QED
        BY <3>1, <4>1, NatMin
    <3>3. n # 0
      <4>1. W[0] = {p}
        BY <1>0, WithinUnfolds
      <4> QED
        BY <3>2, <4>1
    <3>4. n - 1 \in 0 .. Longest(G) /\ n - 1 \notin T /\ n \in 1 .. Longest(G)
      BY <1>0, <3>2, <3>3
    <3> QED
      BY <3>2, <3>4
  <2>2. dist \in 1 .. Longest(G) /\ At(dist)
    <3> HIDE DEF At
    <3> QED
      BY <2>1
  <2>3. escalations(p) = UNION {Paths(G, p, q, dist) : q \in others}
    BY <1>2 DEF escalations
  <2> HIDE DEF dist
  <2> QED
    BY <2>2, <2>3
<1> QED
  BY <1>1, <1>2

LEMMA SomePathRecorded ==
    ASSUME NEW p \in Principals, p \notin direct_admins, admin_targets(p) # {}
    PROVE  escalations(p) # {}
<1> DEFINE G == EscalationGraph
           others == admin_targets(p) \ {p}
<1>0. Longest(G) \in Nat /\ G \in SUBSET (Principals \X Principals)
  BY EdgesAreSteps, WithinIsClosure
<1>1. ASSUME NEW n \in 1 .. Longest(G),
             Within(G, p)[n] \cap others # {}, Within(G, p)[n - 1] \cap others = {},
             escalations(p) = UNION {Paths(G, p, q, n) : q \in others}
      PROVE  escalations(p) # {}
  <2>1. PICK q \in others : q \in Within(G, p)[n] /\ q \notin Within(G, p)[n - 1]
    BY <1>1
  <2>2. \E s : s \in Paths(G, p, q, n)
    BY <1>0, <2>1, NearestHasPath
  <2> QED
    BY <1>1, <2>1, <2>2
<1>2. CASE escalations(p) = {<<p>>}
  BY <1>2
<1>3. CASE \E n \in 1 .. Longest(G) :
              /\ Within(G, p)[n] \cap others # {}
              /\ Within(G, p)[n - 1] \cap others = {}
              /\ escalations(p) = UNION {Paths(G, p, q, n) : q \in others}
  BY <1>1, <1>3
<1> QED
  BY <1>2, <1>3, PathsAtDistance

LEMMA RecordedPath ==
    ASSUME NEW p \in Principals, NEW s \in escalations(p)
    PROVE  /\ p \notin direct_admins
           /\ \/ s = <<p>> /\ p \in admins /\ admin_targets(p) \subseteq {p}
              \/ \E n \in 1 .. Longest(EscalationGraph) : \E q \in admin_targets(p) \ {p} :
                     /\ s \in Paths(EscalationGraph, p, q, n)
                     /\ Within(EscalationGraph, p)[n - 1] \cap (admin_targets(p) \ {p}) = {}
<1>1. p \notin direct_admins /\ admin_targets(p) # {}
  BY DEF escalations
<1>2. admin_targets(p) \subseteq admins
  BY DEF admin_targets
<1> QED
  BY <1>1, <1>2, PathsAtDistance

\* An escalation path is recorded exactly for the principals that can become
\* admin, its hops are real, and it is a shortest one
\* (graph._score_principal, passrole findings).
THEOREM PathsExplain == Spec => []PathsExplainReach
<1> DEFINE G == EscalationGraph
           steps == Pairs(Becomes)
<1>0. /\ G \in SUBSET (Principals \X Principals)
      /\ steps \in SUBSET (Principals \X Principals)
      /\ \A e \in Principals \X Principals : e[1] # e[2] => (e \in G <=> e \in steps)
  BY EdgesAreSteps DEF Pairs
<1>1. ASSUME NEW p \in Principals
      PROVE  LET reached == Closure(p, steps)
                 others  == {q \in reached \ {p} : IsAdmin(q)}
                 paths   == escalations(p)
             IN  /\ paths # {} <=> ~HoldsEverything(p) /\ \E q \in reached : IsAdmin(q)
                 /\ \A s \in paths :
                       /\ s[1] = p /\ IsAdmin(s[Len(s)])
                       /\ \A i \in 1 .. Len(s) - 1 : Becomes(s[i], s[i + 1])
                       /\ Len(s) = 1 => others = {}
                       /\ Len(s) > 2 => \A q \in others : ~Becomes(p, q)
  <2> DEFINE W == Within(G, p)
             L == Longest(G)
             reached == Closure(p, steps)
             others == {q \in reached \ {p} : IsAdmin(q)}
  <2>1. /\ L \in Nat
        /\ W[L] = reached
    BY <1>0, WithinIsClosure
  <2>2. reached \subseteq Principals /\ p \in reached
    <3>1. W[0] = {p}
      BY <2>1, WithinUnfolds
    <3>2. W[0] \subseteq W[L]
      BY <2>1, WithinGrows
    <3> QED
      BY <2>1, <3>1, <3>2 DEF Closure
  <2>3. /\ admin_targets(p) = {q \in reached : IsAdmin(q)}
        /\ admin_targets(p) \ {p} = others
    <3>1. \A q \in Principals : q \in admins <=> IsAdmin(q)
      BY EdgesAreSteps
    <3>2. admin_targets(p) = reached \cap admins
      BY <2>1, <2>2 DEF admin_targets, descendants
    <3> HIDE DEF reached
    <3> QED
      BY <2>2, <3>1, <3>2
  <2>4. p \in direct_admins <=> HoldsEverything(p)
    BY EdgesAreSteps
  <2>5. p \in admins <=> IsAdmin(p)
    BY EdgesAreSteps
  <2> HIDE DEF reached, others, W, L
  <2>6. escalations(p) # {} <=> ~HoldsEverything(p) /\ \E q \in reached : IsAdmin(q)
    <3>1. escalations(p) # {} => p \notin direct_admins /\ admin_targets(p) # {}
      BY DEF escalations
    <3> QED
      BY <2>3, <2>4, <3>1, SomePathRecorded
  <2>7. ASSUME NEW s \in escalations(p)
        PROVE  /\ s[1] = p /\ IsAdmin(s[Len(s)])
               /\ \A i \in 1 .. Len(s) - 1 : Becomes(s[i], s[i + 1])
               /\ Len(s) = 1 => others = {}
               /\ Len(s) > 2 => \A q \in others : ~Becomes(p, q)
    <3>1. CASE s = <<p>> /\ p \in admins /\ admin_targets(p) \subseteq {p}
      <4>1. Len(s) = 1 /\ s[1] = p
        BY <3>1
      <4>2. others = {}
        BY <2>3, <3>1
      <4> QED
        BY <2>5, <3>1, <4>1, <4>2
    <3>2. ASSUME NEW n \in 1 .. L, NEW x \in others,
                 s \in Paths(G, p, x, n), W[n - 1] \cap others = {}
          PROVE  /\ s[1] = p /\ IsAdmin(s[Len(s)])
                 /\ \A i \in 1 .. Len(s) - 1 : Becomes(s[i], s[i + 1])
                 /\ Len(s) = 1 => others = {}
                 /\ Len(s) > 2 => \A q \in others : ~Becomes(p, q)
      <4>0. n \in Nat /\ n <= L /\ 1 <= n
        BY <2>1
      <4>1. /\ s \in [1 .. n + 1 -> Principals] /\ s[1] = p /\ s[n + 1] = x
            /\ \A i \in 1 .. n : <<s[i], s[i + 1]>> \in G
        BY <3>2 DEF Paths
      <4>2. Len(s) = n + 1
        BY <4>0, <4>1
      <4>3. IsAdmin(s[Len(s)])
        BY <4>1, <4>2 DEF others
      <4>4. ASSUME NEW i \in 1 .. n PROVE s[i] # s[i + 1]
        <5> SUFFICES ASSUME s[i] = s[i + 1] PROVE FALSE
          OBVIOUS
        <5>1. s[i] \in W[i - 1]
          <6>1. s[1] \in W[0]
            BY <2>1, <4>1, WithinUnfolds DEF L, W
          <6>2. 0 + (i - 1) <= L /\ i - 1 \in 0 .. n + 1 - 1 /\ 1 \in 1 .. n + 1
            BY <2>1, <4>0
          <6>3. s[1 + (i - 1)] \in W[0 + (i - 1)]
            BY <1>0, <3>2, <4>0, <6>1, <6>2, HopsAddUp DEF L, W
          <6> QED
            BY <6>3
        <5>2. s[i + 1] \in W[i - 1]
          BY <5>1
        <5>3. i + 1 \in 1 .. n + 1 /\ i - 1 \in Nat /\ n - i \in 0 .. n + 1 - (i + 1)
              /\ i - 1 + (n - i) <= L
          BY <2>1, <4>0
        <5>4. s[i + 1 + (n - i)] \in W[i - 1 + (n - i)]
          BY <1>0, <3>2, <4>0, <5>2, <5>3, HopsAddUp DEF L, W
        <5>5. i + 1 + (n - i) = n + 1 /\ i - 1 + (n - i) = n - 1
          BY <4>0
        <5>6. x \in W[n - 1]
          BY <4>1, <5>4, <5>5
        <5> QED
          BY <3>2, <5>6
      <4>5. ASSUME NEW i \in 1 .. n PROVE Becomes(s[i], s[i + 1])
        <5>1. s[i] \in Principals /\ s[i + 1] \in Principals /\ <<s[i], s[i + 1]>> \in G
          BY <4>0, <4>1
        <5>2. <<s[i], s[i + 1]>> \in steps
          BY <1>0, <4>4, <5>1
        <5> QED
          BY <5>2 DEF Pairs
      <4>6. ASSUME n > 1, NEW q \in others, Becomes(p, q) PROVE FALSE
        <5>1. q \in Principals /\ q # p
          BY <2>2 DEF others
        <5>2. <<p, q>> \in G
          BY <1>0, <4>6, <5>1 DEF Pairs
        <5>3. 1 \in 1 .. L /\ n - 1 \in 1 .. L
          BY <2>1, <4>0, <4>6
        <5>4. q \in W[1]
          <6>1. W[0] = {p} /\ W[1] = OneHop(G, W[0])
            <7>1. \A j \in 1 .. L : W[j] = OneHop(G, W[j - 1])
              BY <2>1, WithinUnfolds DEF W, L
            <7>2. W[0] = {p}
              BY <2>1, WithinUnfolds DEF W, L
            <7> QED
              BY <5>3, <7>1, <7>2
          <6> QED
            BY <5>2, <6>1 DEF OneHop
        <5>5. W[1] \subseteq W[n - 1]
          BY <2>1, <5>3, WithinGrows DEF W, L
        <5> QED
          BY <3>2, <5>4, <5>5
      <4> QED
        BY <4>0, <4>1, <4>2, <4>3, <4>5, <4>6
    <3>3. \/ s = <<p>> /\ p \in admins /\ admin_targets(p) \subseteq {p}
          \/ \E n \in 1 .. L : \E q \in others : s \in Paths(G, p, q, n) /\ W[n - 1] \cap others = {}
      BY <2>3, RecordedPath DEF L, W
    <3> QED
      BY <3>1, <3>2, <3>3
  <2> QED
    BY <2>6, <2>7 DEF reached, others
<1>2. PathsExplainReach
  BY <1>1 DEF PathsExplainReach
<1> QED
  BY <1>2, PTL

\* The edges of a statement, one by one.
LEMMA EdgesOfStatement ==
    ASSUME NEW u, NEW st
    PROVE  /\ \A a \in GrantedBy(st) :
                 Edge(Node("policy", u), Node("action", a), "GRANTS_ACTION") \in StatementEdges(u, st)
           /\ \A e \in StatementEdges(u, st) : \E a \in GrantedBy(st) :
                 \/ e = Edge(Node("policy", u), Node("action", a), "GRANTS_ACTION")
                 \/ \E r : e = Edge(Node("action", a), Node("resource", r), "ON_RESOURCE")
<1> DEFINE scope == IF resources(st) = {} THEN {Star} ELSE resources(st)
           Of(a) == {Edge(Node("policy", u), Node("action", a), "GRANTS_ACTION")}
                    \cup {Edge(Node("action", a), Node("resource", r), "ON_RESOURCE") : r \in scope}
<1>1. StatementEdges(u, st) = UNION {Of(a) : a \in GrantedBy(st)}
  BY DEF StatementEdges
<1>2. \A a : Edge(Node("policy", u), Node("action", a), "GRANTS_ACTION") \in Of(a)
  OBVIOUS
<1>3. ASSUME NEW a, NEW e \in Of(a)
      PROVE  \/ e = Edge(Node("policy", u), Node("action", a), "GRANTS_ACTION")
             \/ \E r : e = Edge(Node("action", a), Node("resource", r), "ON_RESOURCE")
  <2>1. e \in {Edge(Node("policy", u), Node("action", a), "GRANTS_ACTION")}
        \/ e \in {Edge(Node("action", a), Node("resource", r), "ON_RESOURCE") : r \in scope}
    OBVIOUS
  <2> HIDE DEF scope
  <2> QED
    BY <2>1
<1> HIDE DEF Of
<1> QED
  BY <1>1, <1>2, <1>3

\* An edge of a policy chain starts at a principal, at a policy that is attached
\* or at an action it grants.
LEMMA EdgesOfChain ==
    ASSUME NEW e \in PolicyEdges
    PROVE  \/ \E p \in Principals : \E u \in attached[p] \cap policies :
                 e = Edge(P(p), Node("policy", u), "HAS_POLICY")
           \/ \E u \in Attached : \E st \in Allowed(Document[u]) : e \in StatementEdges(u, st)
  BY DEF PolicyEdges, HAS_POLICY

\* There are finitely many actions to grant, and so to hold.
NamedActions == UNION {GrantedBy(st) : st \in UNION {Document[u] : u \in DOMAIN Document}}

LEMMA NamedActionsFinite ==
    /\ IsFiniteSet(NamedActions)
    /\ \A p \in Principals : GrantedActions(p) \subseteq NamedActions /\ IsFiniteSet(GrantedActions(p))
<1> DEFINE docs == {Document[u] : u \in DOMAIN Document}
           named == UNION {GrantedBy(st) : st \in UNION docs}
<1>1. IsFiniteSet(DOMAIN Document)
  BY OrganisationAssumption
<1>2. IsFiniteSet(UNION docs)
  <2>1. IsFiniteSet(docs)
    BY <1>1, FiniteRange
  <2>2. \A doc \in docs : IsFiniteSet(doc)
    BY OrganisationAssumption
  <2> QED
    BY <2>1, <2>2, FS_UNION
<1>3. IsFiniteSet(named)
  <2> DEFINE given == [st \in UNION docs |-> GrantedBy(st)]
  <2>1. IsFiniteSet({GrantedBy(st) : st \in UNION docs})
    <3>1. IsFiniteSet({given[st] : st \in UNION docs})
      <4> HIDE DEF given, docs
      <4> QED
        BY <1>2, FiniteRange
    <3>2. \A st \in UNION docs : given[st] = GrantedBy(st)
      OBVIOUS
    <3> HIDE DEF given, docs
    <3>3. {given[st] : st \in UNION docs} = {GrantedBy(st) : st \in UNION docs}
      BY <3>2
    <3> QED
      BY <3>1, <3>3
  <2>2. ASSUME NEW st \in UNION docs PROVE IsFiniteSet(GrantedBy(st))
    <3>1. IsFiniteSet(st.action)
      BY OrganisationAssumption
    <3>2. IsFiniteSet({Star})
      BY FS_Singleton
    <3> QED
      BY <3>1, <3>2 DEF GrantedBy
  <2>3. \A S \in {GrantedBy(st) : st \in UNION docs} : IsFiniteSet(S)
    BY <2>2
  <2> HIDE DEF docs
  <2> QED
    BY <2>1, <2>3, FS_UNION
<1>4. IsFiniteSet(NamedActions)
  BY <1>3 DEF NamedActions
<1>5. ASSUME NEW p \in Principals PROVE GrantedActions(p) \subseteq NamedActions
  <2> SUFFICES ASSUME NEW a \in GrantedActions(p) PROVE a \in NamedActions
    OBVIOUS
  <2>1. PICK u \in DOMAIN Document : \E st \in Document[u] : a \in GrantedBy(st)
    BY GrantedPattern
  <2> QED
    BY <2>1 DEF NamedActions
<1> QED
  BY <1>4, <1>5, FS_Subset

LEMMA ChainOriginsFinite == IsFiniteSet({e.src[2] : e \in ChainEdges})
<1> DEFINE named == NamedActions
<1>1. IsFiniteSet(DOMAIN Document) /\ IsFiniteSet(Principals)
  BY OrganisationAssumption
<1>3. IsFiniteSet(named)
  BY NamedActionsFinite
<1>4. IsFiniteSet(Principals \cup DOMAIN Document \cup named)
  BY <1>1, <1>3, FS_Union
<1>5. ASSUME NEW e \in ChainEdges
      PROVE  e.src[2] \in Principals \cup DOMAIN Document \cup named
  <2>0. \A u \in policies : u \in DOMAIN Document
    BY DEF policies, FilePolicies, AwsPolicies
  <2>1. e \in PolicyEdges
    BY <1>5 DEF ChainEdges, Edges, ChainRelations, Edge
  <2>2. CASE \E p \in Principals : \E u \in attached[p] \cap policies :
                 e = Edge(P(p), Node("policy", u), "HAS_POLICY")
    BY <2>2 DEF Edge, P, Node
  <2>3. ASSUME NEW u \in Attached, NEW st \in Allowed(Document[u]), e \in StatementEdges(u, st)
        PROVE  e.src[2] \in Principals \cup DOMAIN Document \cup named
    <3>1. u \in DOMAIN Document
      BY <2>0 DEF Attached
    <3>2. st \in Document[u]
      BY DEF Allowed
    <3>3. PICK a \in GrantedBy(st) :
             \/ e = Edge(Node("policy", u), Node("action", a), "GRANTS_ACTION")
             \/ \E r : e = Edge(Node("action", a), Node("resource", r), "ON_RESOURCE")
      BY <2>3, EdgesOfStatement
    <3>4. a \in named
      BY <3>1, <3>2, <3>3 DEF NamedActions
    <3>5. e.src[2] = u \/ e.src[2] = a
      BY <3>3 DEF Edge, Node
    <3> HIDE DEF named
    <3> QED
      BY <3>1, <3>4, <3>5
  <2> QED
    BY <2>1, <2>2, <2>3, EdgesOfChain
<1>6. {e.src[2] : e \in ChainEdges} \subseteq Principals \cup DOMAIN Document \cup named
  <2> HIDE DEF named
  <2> QED
    BY <1>5
<1> QED
  BY <1>4, <1>6, FS_Subset

\* The chain of a principal shows all it is granted.
LEMMA ChainShowsGrants ==
    ASSUME NEW p \in Principals
    PROVE  ShowsGrants(add_policy_chain(p), p)
<1> DEFINE G == {<<e.src[2], e.dst[2]>> : e \in ChainEdges}
           W == Within(G, p)
           seen == {p} \cup descendants(G, p)
<1>1. Longest(G) \in Nat /\ Closed(W[Longest(G)], G)
  <2>1. {e[1] : e \in G} = {e.src[2] : e \in ChainEdges}
    <3>1. \A e \in G : \E c \in ChainEdges : e[1] = c.src[2]
      OBVIOUS
    <3>2. ASSUME NEW c \in ChainEdges PROVE \E e \in G : e[1] = c.src[2]
      <4>1. <<c.src[2], c.dst[2]>> \in G /\ <<c.src[2], c.dst[2]>>[1] = c.src[2]
        OBVIOUS
      <4> HIDE DEF G
      <4> QED
        BY <4>1
    <3> HIDE DEF G
    <3> QED
      BY <3>1, <3>2
  <2>2. IsFiniteSet({e[1] : e \in G})
    BY <2>1, ChainOriginsFinite
  <2> HIDE DEF G
  <2> QED
    BY <2>2, WithinSaturates
<1>2. seen = W[Longest(G)]
  <2>1. p \in W[Longest(G)]
    <3>1. W[0] = {p}
      BY <1>1, WithinUnfolds
    <3>2. W[0] \subseteq W[Longest(G)]
      <4> HIDE DEF G
      <4> QED
        BY <1>1, WithinGrows
    <3> QED
      BY <3>1, <3>2
  <2> QED
    BY <2>1 DEF descendants
<1>3. add_policy_chain(p) = {e \in ChainEdges : e.src[2] \in seen}
  BY DEF add_policy_chain
<1>4. \A e \in ChainEdges : e.src[2] \in seen => e.dst[2] \in seen
  <2>1. Closed(seen, G)
    BY <1>1, <1>2
  <2> SUFFICES ASSUME NEW e \in ChainEdges PROVE e.src[2] \in seen => e.dst[2] \in seen
    OBVIOUS
  <2>2. <<e.src[2], e.dst[2]>> \in G
    OBVIOUS
  <2> HIDE DEF seen, G
  <2> QED
    BY <2>1, <2>2 DEF Closed
<1>5. p \in seen
  OBVIOUS
<1> HIDE DEF seen, G, W
<1>6. ASSUME NEW u \in attached[p] \cap policies
      PROVE  /\ Edge(P(p), Node("policy", u), "HAS_POLICY") \in add_policy_chain(p)
             /\ \A st \in Allowed(Document[u]) : StatementEdges(u, st) \subseteq add_policy_chain(p)
  <2> DEFINE has == Edge(P(p), Node("policy", u), "HAS_POLICY")
  <2>1. has \in HAS_POLICY
    BY DEF HAS_POLICY
  <2>2. has \in ChainEdges /\ has.src[2] = p /\ has.dst[2] = u
    BY <2>1 DEF ChainEdges, Edges, PolicyEdges, ChainRelations, Edge, P, Node
  <2>3. u \in seen
    BY <1>4, <1>5, <2>2
  <2>4. u \in Attached
    BY DEF Attached
  <2>5. ASSUME NEW st \in Allowed(Document[u]), NEW e \in StatementEdges(u, st)
        PROVE  e \in add_policy_chain(p)
    <3>1. StatementEdges(u, st) \subseteq PolicyEdges
      BY <2>4 DEF PolicyEdges
    <3>2. \A a \in GrantedBy(st) :
             LET grant == Edge(Node("policy", u), Node("action", a), "GRANTS_ACTION")
             IN  grant \in ChainEdges /\ grant.src[2] = u /\ grant.dst[2] = a
      BY <3>1, EdgesOfStatement DEF ChainEdges, Edges, ChainRelations, Edge, Node
    <3>3. \A a \in GrantedBy(st) : a \in seen
      BY <1>4, <2>3, <3>2
    <3>4. PICK a \in GrantedBy(st) :
             \/ e = Edge(Node("policy", u), Node("action", a), "GRANTS_ACTION")
             \/ \E r : e = Edge(Node("action", a), Node("resource", r), "ON_RESOURCE")
      BY EdgesOfStatement
    <3>5. e \in ChainEdges
      BY <3>1, <3>4 DEF ChainEdges, Edges, ChainRelations, Edge
    <3>6. e.src[2] = u \/ e.src[2] = a
      BY <3>4 DEF Edge, Node
    <3> QED
      BY <1>3, <2>3, <3>3, <3>5, <3>6
  <2>6. has \in add_policy_chain(p)
    BY <1>3, <1>5, <2>2
  <2> QED
    BY <2>5, <2>6
<1> QED
  BY <1>6 DEF ShowsGrants

THEOREM PageShows == Spec => []PageShowsGrants
<1>1. ASSUME NEW p \in Principals, NEW s \in escalations(p) \cup {<<>>}
      PROVE  /\ ShowsGrants(principal_graph(p, s), p)
             /\ Len(s) > 1 => /\ \E e \in principal_graph(p, s) : e.src = P(p) /\ e.dst = P(s[2])
                              /\ ShowsGrants(principal_graph(p, s), s[2])
  <2> DEFINE drawn == principal_graph(p, s)
             targets == HopTargets(p)
             expand == IF Len(s) > 1 THEN {s[i] : i \in 2 .. Len(s)} ELSE targets
  <2>1. drawn = (UNION {add_policy_chain(q) : q \in {p} \cup (targets \cap expand)}) \cup Hops(p)
    BY DEF principal_graph
  <2>2. \A q \in {p} \cup (targets \cap expand) : add_policy_chain(q) \subseteq drawn
    <3> HIDE DEF drawn, expand, targets
    <3> QED
      BY <2>1
  <2>3. \A q \in Principals : q \in {p} \cup (targets \cap expand) => ShowsGrants(drawn, q)
    <3> SUFFICES ASSUME NEW q \in Principals, q \in {p} \cup (targets \cap expand)
                 PROVE  ShowsGrants(drawn, q)
      OBVIOUS
    <3>1. add_policy_chain(q) \subseteq drawn
      BY <2>2
    <3> HIDE DEF drawn
    <3> QED
      BY <3>1, ChainShowsGrants DEF ShowsGrants
  <2>4. ASSUME Len(s) > 1
        PROVE  /\ s[2] \in Principals /\ s[2] \in targets /\ s[2] \in expand
               /\ \E e \in Hops(p) : e.src = P(p) /\ e.dst = P(s[2])
    <3>1. s # <<>> /\ s # <<p>>
      <4>0. Len(<<>>) = 0 /\ Len(<<p>>) = 1
        OBVIOUS
      <4>1. s = <<>> => ~(Len(s) > 1)
        BY ONLY <4>0
      <4>2. s = <<p>> => ~(Len(s) > 1)
        BY ONLY <4>0
      <4> QED
        BY <2>4, <4>1, <4>2
    <3>2. PICK n \in 1 .. Longest(EscalationGraph), q \in admin_targets(p) \ {p} :
             s \in Paths(EscalationGraph, p, q, n)
      BY <3>1, RecordedPath
    <3>0. Longest(EscalationGraph) \in Nat
      BY EdgesAreSteps, WithinIsClosure
    <3>3. /\ n \in Nat /\ 1 <= n
          /\ s \in [1 .. n + 1 -> Principals] /\ s[1] = p
          /\ <<s[1], s[2]>> \in EscalationGraph
      BY <3>0, <3>2 DEF Paths
    <3>4. Len(s) = n + 1 /\ s[2] \in Principals
      BY <3>3
    <3>5. s[2] \in expand
      BY <3>3, <3>4
    <3> DEFINE x == s[2]
               pair == <<p, x>>
    <3>6. pair \in CAN_ASSUME \/ pair \in CAN_ESCALATE
      BY <3>3 DEF EscalationGraph
    <3> HIDE DEF x
    <3>7. pair[1] = p /\ pair[2] = x
      OBVIOUS
    <3> HIDE DEF pair
    <3>8. PICK rel \in {"CAN_ASSUME", "CAN_ESCALATE"} : Edge(P(p), P(x), rel) \in Edges
      BY <3>6, <3>7 DEF Edges
    <3>9. Edge(P(p), P(x), rel) \in Hops(p)
      BY <3>8 DEF Hops, From, Edge, P, Node
    <3>10. \E e \in Hops(p) : e.src = P(p) /\ e.dst = P(x)
      BY <3>9 DEF Edge
    <3>11. x \in HopTargets(p)
      BY <3>9 DEF HopTargets, Edge, P, Node
    <3> QED
      BY <3>4, <3>5, <3>10, <3>11 DEF x
  <2>5. Hops(p) \subseteq drawn
    <3> HIDE DEF drawn
    <3> QED
      BY <2>1
  <2> HIDE DEF drawn, expand, targets
  <2>6. ShowsGrants(drawn, p)
    BY <2>3
  <2>7. Len(s) > 1 => /\ \E e \in drawn : e.src = P(p) /\ e.dst = P(s[2])
                      /\ ShowsGrants(drawn, s[2])
    BY <2>3, <2>4, <2>5
  <2> QED
    BY <2>6, <2>7 DEF drawn
<1>2. PageShowsGrants
  BY <1>1 DEF PageShowsGrants
<1> QED
  BY <1>2, PTL

-----------------------------------------------------------------------------
\* The organisation keeps its types, whatever changes in it.
OrgTypeOK ==
    /\ attached \in [Principals -> SUBSET Policies]
    /\ trust \in [Roles -> SUBSET TrustStatements]
    /\ profile \in [Principals -> Profiles \cup {Quiet}]
    /\ log \in Seq(Lines)
    /\ changes \in 0 .. MaxChanges

LEMMA OrgStaysTyped ==
    ASSUME OrgTypeOK, OrgNext \/ UNCHANGED orgVars
    PROVE  OrgTypeOK'
<1>0. MaxChanges \in Nat
  BY OrganisationAssumption
<1> USE DEF OrgTypeOK
<1>1. ASSUME NEW p \in Principals, NEW u \in Policies, AttachPolicy(p, u) \/ DetachPolicy(p, u)
      PROVE  OrgTypeOK'
  BY <1>0, <1>1 DEF AttachPolicy, DetachPolicy, Change
<1>2. ASSUME NEW r \in Roles, NEW st \in TrustStatements, AddTrust(r, st)
      PROVE  OrgTypeOK'
  BY <1>0, <1>2 DEF AddTrust, Change
<1>3. ASSUME NEW p \in Principals, NEW new \in Profiles, ChangeProfile(p, new)
      PROVE  OrgTypeOK'
  BY <1>0, <1>3 DEF ChangeProfile, Change
<1>4. ASSUME NEW line \in Lines, LogLine(line)
      PROVE  OrgTypeOK'
  BY <1>0, <1>4 DEF LogLine, Change
<1>5. ASSUME UNCHANGED orgVars PROVE OrgTypeOK'
  BY <1>5 DEF orgVars
<1> QED
  BY <1>1, <1>2, <1>3, <1>4, <1>5 DEF OrgNext

LEMMA OrgTyped == Spec => []OrgTypeOK
<1>1. Init => OrgTypeOK
  BY OrganisationAssumption DEF Init, OrgInit, OrgTypeOK
<1>2. OrgTypeOK /\ [Next]_vars => OrgTypeOK'
  BY OrgStaysTyped DEF Next, Scan, vars
<1> QED
  BY <1>1, <1>2, PTL DEF Spec

-----------------------------------------------------------------------------
\* No two principals share a name in the log, and a name that is a uid is its
\* own.  Where two do, the first one listed gets the events of both
\* (normalize._reconcile_log_principals).
UniqueNames ==
    \A p \in Principals :
        /\ \A q \in Principals : Username[p] = Username[q] => p = q
        /\ Username[p] \in Principals => Username[p] = p

\* The lines joined to a principal carry one of its names, and all that do are
\* joined to it where names are unique.
LEMMA JoinedByName ==
    ASSUME NEW p \in Principals, NEW name
    PROVE  /\ Canonical(name) = p => name \in NamesOf(p)
           /\ UniqueNames /\ name \in NamesOf(p) => Canonical(name) = p
<1>1. CASE name \in Principals \/ ~\E q \in Principals : Username[q] = name
  <2>1. Canonical(name) = name
    BY <1>1 DEF Canonical
  <2>2. UniqueNames /\ name \in NamesOf(p) => name = p
    BY <1>1 DEF UniqueNames, NamesOf
  <2> QED
    BY <2>1, <2>2 DEF NamesOf
<1>2. CASE name \notin Principals /\ \E q \in Principals : Username[q] = name
  <2> DEFINE q == CHOOSE x \in Principals : Username[x] = name
  <2>1. Canonical(name) = q
    BY <1>2 DEF Canonical
  <2>2. q \in Principals /\ Username[q] = name
    BY <1>2
  <2> HIDE DEF q
  <2>3. UniqueNames /\ name \in NamesOf(p) => q = p
    BY <1>2, <2>2 DEF UniqueNames, NamesOf
  <2> QED
    BY <2>1, <2>2, <2>3 DEF NamesOf
<1> QED
  BY <1>1, <1>2

LEMMA JoinedLines ==
    ASSUME NEW p \in Principals
    PROVE  /\ {i \in Parsed : log_events[i].uid = p} \subseteq LinesOf(p)
           /\ UniqueNames => LinesOf(p) = {i \in Parsed : log_events[i].uid = p}
<1>1. \A i \in Parsed : log_events[i].uid = Canonical(log[i].by)
  BY DEF log_events, Event
<1>2. \A i : i \in LinesOf(p) <=> i \in Parsed /\ log[i].by \in NamesOf(p)
  BY DEF LinesOf, Parsed
<1> QED
  BY <1>1, <1>2, JoinedByName

\* A call is read as one that succeeded exactly when the line says so.
LEMMA SuccessIsRead ==
    ASSUME NEW line \in Lines
    PROVE  OutcomeOf(line) = "success" <=> Succeeded(line)
<1>1. /\ normalize_outcome(line.outcome) = "success" <=> line.outcome \in {"success", "allow"}
      /\ normalize_outcome(line.outcome) = None <=> line.outcome = None
  BY DEF normalize_outcome, None
<1>2. /\ line.error \in {None, "denied", "failure"}
      /\ line.shape # "json" => line.error = None
  BY OrganisationAssumption
<1> QED
  BY <1>1, <1>2 DEF OutcomeOf, FromCloudtrail, FromPlaintext, Succeeded, None

LEMMA UseIsRead ==
    ASSUME NEW p \in Principals, OrgTypeOK
    PROVE  /\ used_by(p) \subseteq Exercised(p)
           /\ UniqueNames => used_by(p) = Exercised(p)
<1> DEFINE joined == {i \in Parsed : log_events[i].uid = p}
<1>1. \A i \in Parsed : /\ log[i] \in Lines /\ log_events[i] = Event(log[i])
                        /\ i \in DOMAIN log
  BY DEF OrgTypeOK, Parsed, log_events
<1>2. \A i \in Parsed : /\ Event(log[i]).source = log[i].source
                        /\ Event(log[i]).name = log[i].name
                        /\ Event(log[i]).outcome = "success" <=> Succeeded(log[i])
  BY <1>1, SuccessIsRead DEF Event
<1>3. ASSUME NEW a
      PROVE  a \in used_by(p) <=>
                a # None /\ \E i \in joined : /\ Succeeded(log[i])
                                              /\ a = to_iam_action(log[i].source, log[i].name)
  <2>1. a \in used_by(p) <=>
           a # None /\ \E i \in Parsed : LET e == Event(log[i]) IN
              e.uid = p /\ e.outcome = "success" /\ a = to_iam_action(e.source, e.name)
    BY DEF used_by, Events
  <2> QED
    BY <1>1, <1>2, <2>1
<1>4. ASSUME NEW a
      PROVE  a \in Exercised(p) <=>
                a # None /\ \E i \in LinesOf(p) : /\ Succeeded(log[i])
                                                  /\ a = to_iam_action(log[i].source, log[i].name)
  BY DEF Exercised
<1> QED
  BY <1>3, <1>4, JoinedLines

\* A principal the log says nothing about has no line, where names are unique.
LEMMA InactiveHasNoLine ==
    ASSUME NEW p \in Principals, OrgTypeOK, UniqueNames, ~is_active(p)
    PROVE  LinesOf(p) = {}
<1>1. LinesOf(p) = {i \in Parsed : log_events[i].uid = p}
  BY JoinedLines
<1>2. IsFiniteSet(LinesOf(p))
  <2>1. IsFiniteSet(1 .. Len(log))
    BY FS_Interval DEF OrgTypeOK
  <2>2. LinesOf(p) \subseteq 1 .. Len(log)
    BY DEF LinesOf, OrgTypeOK
  <2> QED
    BY <2>1, <2>2, FS_Subset
<1>3. ~(Cardinality(LinesOf(p)) > 0)
  BY <1>1 DEF is_active, events_for
<1>4. Cardinality(LinesOf(p)) = 0
  BY <1>2, <1>3, FS_CardinalityType
<1> QED
  BY <1>2, <1>4, FS_EmptySet

\* Where names are unique, what is reported out of use is out of use
\* (UnusedGrantsCheck, UnusedActiveCredentialCheck, OrphanedPrincipalCheck).
THEOREM DisuseReported ==
    ASSUME UniqueNames
    PROVE  Spec => []DisuseIsReal
<1>1. ASSUME OrgTypeOK PROVE DisuseIsReal
  <2>1. ASSUME NEW f \in UnusedGrants
        PROVE  /\ f.evidence.used \subseteq Exercised(f.principal)
               /\ \A g \in f.evidence.unused : \A a \in Exercised(f.principal) : ~grants_action({g}, a)
    <3>1. PICK p \in Principals : f = OfPrincipal("unused_grants", p, Recommendation(p))
      BY DEF UnusedGrants
    <3>2. f.principal = p /\ f.evidence = Recommendation(p)
      BY <3>1 DEF OfPrincipal, Finding
    <3>3. /\ Recommendation(p).used = kept(GrantedActions(p), used_by(p))
          /\ Recommendation(p).unused = unused_sensitive(GrantedActions(p), used_by(p))
      BY DEF Recommendation, recommend
    <3>4. used_by(p) = Exercised(p)
      BY <1>1, UseIsRead
    <3> QED
      BY <3>2, <3>3, <3>4 DEF kept, unused_sensitive
  <2>2. ASSUME NEW f \in UnusedActiveCredential \cup OrphanedPrincipal
        PROVE  LinesOf(f.principal) = {}
    <3>1. PICK p \in Principals : f.principal = p /\ ~is_active(p)
      BY DEF UnusedActiveCredential, OrphanedPrincipal, Each, OfPrincipal, Finding
    <3> QED
      BY <1>1, <3>1, InactiveHasNoLine
  <2> QED
    BY <2>1, <2>2 DEF DisuseIsReal
<1> QED
  BY <1>1, OrgTyped, PTL

\* Every action is given a resource.
LEMMA ScopeIsThere ==
    ASSUME NEW a, NEW docs
    PROVE  resources_for(a, docs) # {}
  BY DEF resources_for

\* Where names are unique, a suggested policy keeps what was seen in use
\* (least_privilege._build_policy).
THEOREM SuggestionsKeepUse ==
    ASSUME UniqueNames
    PROVE  Spec => []SuggestedKeepsUse
<1>1. ASSUME OrgTypeOK PROVE SuggestedKeepsUse
  <2> SUFFICES ASSUME NEW p \in Principals, Recommendation(p).confident, NEW a \in Exercised(p),
                      NEW doc \in policies_for(p), NEW r, Grants(doc, a, r)
               PROVE  \E st \in Recommendation(p).suggested : a \in st.action /\ st.resource # {}
    BY DEF SuggestedKeepsUse
  <2> DEFINE docs == policies_for(p)
             held == kept(GrantedActions(p), used_by(p))
             R == resources_for(a, docs)
             st == Allow({x \in held : resources_for(x, docs) = R}, R)
  <2>1. Recommendation(p).suggested = build_policy(held, docs)
    BY DEF Recommendation, recommend
  <2>2. a \in used_by(p)
    BY <1>1, UseIsRead
  <2>3. grants_action(GrantedActions(p), a)
    <3>1. PICK s \in doc : is_allow(s) /\ s.notAction = {} /\ grants_action(s.action, a)
      BY DEF Grants
    <3>2. s.action \subseteq GrantedActions(p)
      BY <3>1 DEF GrantedActions, granted_actions, Allowed, GrantedBy
    <3> QED
      BY <3>1, <3>2 DEF grants_action
  <2>4. a \in held
    BY <2>2, <2>3 DEF kept
  <2>5. R # {}
    BY ScopeIsThere
  <2> HIDE DEF held, docs
  <2>6. st \in build_policy(held, docs)
    BY <2>4 DEF build_policy
  <2>7. a \in st.action /\ st.resource = R
    BY <2>4 DEF Allow
  <2> HIDE DEF st, R
  <2> QED
    BY <2>1, <2>5, <2>6, <2>7
<1> QED
  BY <1>1, OrgTyped, PTL

\* A window of days is spanned by two dated lines.
LEMMA WindowIsSpanned ==
    ASSUME OrgTypeOK
    PROVE  /\ window_days \in Nat
           /\ window_days > 1 =>
                 \E i, j \in DOMAIN log :
                    /\ log[i].day \in Nat /\ log[j].day \in Nat
                    /\ log[j].day - log[i].day = window_days
<1> DEFINE dated == {i \in Parsed : log_events[i].day # NoDay}
           days == {log_events[i].day : i \in dated}
           first == CHOOSE d \in days : \A c \in days : d <= c
           last == CHOOSE d \in days : \A c \in days : c <= d
<1>1. window_days = IF Cardinality(dated) < 2 THEN 0 ELSE IF last = first THEN 1 ELSE last - first
  BY DEF window_days
<1>2. \A i \in dated : /\ i \in DOMAIN log /\ log_events[i].day = log[i].day
                       /\ log[i].day \in Nat /\ log[i].day # NoDay
  <2> SUFFICES ASSUME NEW i \in dated
               PROVE  /\ i \in DOMAIN log /\ log_events[i].day = log[i].day
                      /\ log[i].day \in Nat /\ log[i].day # NoDay
    OBVIOUS
  <2>1. i \in DOMAIN log /\ log[i] \in Lines /\ log_events[i].day = log[i].day
    BY DEF OrgTypeOK, Parsed, log_events, Event
  <2> QED
    BY <2>1, OrganisationAssumption
<1>3. days \in SUBSET Nat
  BY <1>2
<1>4. IsFiniteSet(dated)
  <2>1. IsFiniteSet(1 .. Len(log))
    BY FS_Interval DEF OrgTypeOK
  <2>2. dated \subseteq 1 .. Len(log)
    BY <1>2 DEF OrgTypeOK
  <2> QED
    BY <2>1, <2>2, FS_Subset
<1>5. IsFiniteSet(days)
  <2> DEFINE dayOf == [i \in dated |-> log_events[i].day]
  <2>1. days = {dayOf[i] : i \in dated}
    OBVIOUS
  <2>2. IsFiniteSet({dayOf[i] : i \in dated})
    <3> HIDE DEF dated, dayOf
    <3> QED
      BY <1>4, FiniteRange
  <2> QED
    BY <2>1, <2>2
<1>few. CASE Cardinality(dated) < 2
  BY <1>1, <1>few
<1>many. CASE ~(Cardinality(dated) < 2)
  <2> HIDE DEF dated
  <2>1. days # {}
    <3>1. Cardinality({}) = 0
      BY FS_EmptySet
    <3>2. dated # {}
      BY <1>many, <3>1
    <3> QED
      BY <3>2
  <2> HIDE DEF days
  <2>2. first \in days /\ last \in days /\ first <= last
    <3>1. \E d \in days : \A c \in days : d <= c
      BY <1>3, <2>1, NatMin
    <3>2. \E d \in days : \A c \in days : c <= d
      BY <1>3, <1>5, <2>1, FiniteMax
    <3> QED
      BY <3>1, <3>2
  <2> HIDE DEF first, last
  <2>3. PICK i \in dated, j \in dated : first = log_events[i].day /\ last = log_events[j].day
    BY <2>2 DEF days
  <2>4. /\ i \in DOMAIN log /\ log[i].day = first /\ first \in Nat
        /\ j \in DOMAIN log /\ log[j].day = last /\ last \in Nat
    BY <1>2, <1>3, <2>2, <2>3
  <2>5. window_days = IF last = first THEN 1 ELSE last - first
    BY <1>1, <1>many
  <2>6. window_days \in Nat
    BY <2>2, <2>4, <2>5
  <2>7. window_days > 1 => log[j].day - log[i].day = window_days
    BY <2>4, <2>5
  <2> QED
    BY <2>4, <2>6, <2>7
<1> QED
  BY <1>few, <1>many

\* A policy is suggested only where the log and the documents bear it
\* (least_privilege.recommend).
THEOREM SuggestionsNeedData == Spec => []NoPolicyOffSparseData
<1>1. ASSUME OrgTypeOK PROVE NoPolicyOffSparseData
  <2> SUFFICES ASSUME NEW p \in Principals, Recommendation(p).suggested # {}
               PROVE  /\ Cardinality(LinesOf(p)) >= MIN_PRINCIPAL_EVENTS
                      /\ \E i, j \in DOMAIN log :
                            log[i].day # NoDay /\ log[j].day - log[i].day >= MIN_WINDOW_DAYS
                      /\ \A u \in attached[p] \cap DOMAIN Document : \A st \in Document[u] :
                            st.effect # "Deny" /\ ~st.condition /\ st.notAction = {} /\ ~st.notResource
    BY DEF NoPolicyOffSparseData
  <2>1. confident(policies_for(p), events_for(p), window_days)
    BY DEF Recommendation, recommend
  <2>2. /\ window_days >= MIN_WINDOW_DAYS
        /\ events_for(p) >= MIN_PRINCIPAL_EVENTS
        /\ ~has_unsupported_forms(policies_for(p))
    BY <2>1 DEF confident
  <2>3. Cardinality(LinesOf(p)) >= MIN_PRINCIPAL_EVENTS
    <3> DEFINE joined == {i \in Parsed : log_events[i].uid = p}
    <3>1. IsFiniteSet(LinesOf(p))
      <4>1. IsFiniteSet(1 .. Len(log))
        BY <1>1, FS_Interval DEF OrgTypeOK
      <4>2. LinesOf(p) \subseteq 1 .. Len(log)
        BY <1>1 DEF LinesOf, OrgTypeOK
      <4> QED
        BY <4>1, <4>2, FS_Subset
    <3>2. joined \subseteq LinesOf(p)
      BY JoinedLines
    <3>3. events_for(p) = Cardinality(joined)
      BY DEF events_for
    <3> HIDE DEF joined
    <3>4. /\ IsFiniteSet(joined)
          /\ Cardinality(joined) <= Cardinality(LinesOf(p))
      BY <3>1, <3>2, FS_Subset
    <3>5. Cardinality(joined) \in Nat /\ Cardinality(LinesOf(p)) \in Nat
      BY <3>1, <3>4, FS_CardinalityType
    <3> QED
      BY <2>2, <3>3, <3>4, <3>5, LeastPrivilegeAssumption
  <2>4. \E i, j \in DOMAIN log :
           log[i].day # NoDay /\ log[j].day - log[i].day >= MIN_WINDOW_DAYS
    <3>1. window_days > 1
      BY <1>1, <2>2, WindowIsSpanned, LeastPrivilegeAssumption
    <3>2. PICK i \in DOMAIN log, j \in DOMAIN log :
             /\ log[i].day \in Nat /\ log[j].day \in Nat
             /\ log[j].day - log[i].day = window_days
      BY <1>1, <3>1, WindowIsSpanned
    <3>3. log[i].day # NoDay
      BY <3>2 DEF NoDay
    <3> QED
      BY <2>2, <3>2, <3>3
  <2>5. ASSUME NEW u \in attached[p] \cap DOMAIN Document, NEW st \in Document[u]
        PROVE  st.effect # "Deny" /\ ~st.condition /\ st.notAction = {} /\ ~st.notResource
    <3>1. u \in attached[p] \cap policies
      BY DEF policies, FilePolicies, AwsPolicies
    <3>2. Document[u] \in policies_for(p)
      BY <3>1 DEF policies_for
    <3> QED
      BY <2>2, <3>2 DEF has_unsupported_forms, is_allow
  <2> QED
    BY <2>3, <2>4, <2>5
<1> QED
  BY <1>1, OrgTyped, PTL

-----------------------------------------------------------------------------
\* What the recursion of a sum asks of the partial sums over S's subsets of up to
\* n members.
Partial(f, S, g, n) ==
    g = [s \in {t \in SUBSET S : Cardinality(t) <= n} |->
            IF s = {} THEN 0
            ELSE LET x == CHOOSE y \in s : TRUE IN f[x] + g[s \ {x}]]

LEMMA PartialFurther ==
    ASSUME NEW f, NEW S, IsFiniteSet(S), NEW n \in Nat, NEW g, Partial(f, S, g, n)
    PROVE  \E h : Partial(f, S, h, n + 1)
<1> DEFINE Sub(m) == {t \in SUBSET S : Cardinality(t) <= m}
           Next1(e, s) == IF s = {} THEN 0
                          ELSE LET x == CHOOSE y \in s : TRUE IN f[x] + e[s \ {x}]
           h == [s \in Sub(n + 1) |-> Next1(g, s)]
<1>0. \A t \in SUBSET S : IsFiniteSet(t) /\ Cardinality(t) \in Nat
  BY FS_Subset, FS_CardinalityType
<1>1. g = [s \in Sub(n) |-> Next1(g, s)]
  BY DEF Partial
<1>2. Sub(n) \subseteq Sub(n + 1)
  BY <1>0
<1>3. ASSUME NEW s \in Sub(n + 1), s # {}
      PROVE  s \ {CHOOSE y \in s : TRUE} \in Sub(n)
  <2> DEFINE x == CHOOSE y \in s : TRUE
  <2>1. x \in s
    BY <1>3
  <2> HIDE DEF x
  <2>2. Cardinality(s \ {x}) = Cardinality(s) - 1
    BY <1>0, <2>1, FS_RemoveElement
  <2>3. s \ {x} \in Sub(n)
    BY <1>0, <2>2
  <2> QED
    BY <2>3 DEF x
<1> HIDE DEF Sub
<1>4. \A s \in Sub(n) : h[s] = g[s]
  <2> HIDE DEF Next1
  <2> QED
    BY <1>1, <1>2
<1> HIDE DEF h
<1>5. \A s \in Sub(n + 1) : Next1(g, s) = Next1(h, s)
  BY <1>3, <1>4
<1>6. h = [s \in Sub(n + 1) |-> Next1(h, s)]
  <2> HIDE DEF Next1
  <2> QED
    BY <1>5 DEF h
<1> QED
  BY <1>6 DEF Partial, Sub

\* The partial sums exist, as the recursion says.
Adds(f, S, g) ==
    g = [s \in SUBSET S |-> IF s = {} THEN 0
                            ELSE LET x == CHOOSE y \in s : TRUE IN f[x] + g[s \ {x}]]
Sums(f, S) == CHOOSE g : Adds(f, S, g)

LEMMA SumsExist ==
    ASSUME NEW f, NEW S, IsFiniteSet(S)
    PROVE  Adds(f, S, Sums(f, S))
<1> DEFINE Bad == {m \in Nat : ~\E g : Partial(f, S, g, m)}
<1>0. \A t \in SUBSET S : /\ IsFiniteSet(t) /\ Cardinality(t) \in Nat
                          /\ Cardinality(t) <= Cardinality(S)
  BY FS_Subset, FS_CardinalityType
<1>1. Bad = {}
  <2> SUFFICES ASSUME Bad # {} PROVE FALSE
    OBVIOUS
  <2>1. PICK m \in Bad : \A k \in Bad : m <= k
    <3>1. Bad \in SUBSET Nat
      OBVIOUS
    <3> HIDE DEF Bad
    <3> QED
      BY <3>1, NatMin
  <2>2. CASE m = 0
    <3>1. {t \in SUBSET S : Cardinality(t) <= 0} = {{}}
      <4>1. \A t \in SUBSET S : Cardinality(t) <= 0 <=> t = {}
        BY <1>0, FS_EmptySet
      <4> QED
        BY <4>1
    <3>2. Partial(f, S, [s \in {{}} |-> 0], 0)
      BY <3>1 DEF Partial
    <3> QED
      BY <2>1, <2>2, <3>2
  <2>3. CASE m > 0
    <3>1. m - 1 \in Nat /\ m - 1 \notin Bad /\ m \in Nat
      BY <2>1, <2>3
    <3>2. PICK g : Partial(f, S, g, m - 1)
      BY <3>1
    <3>3. \E h : Partial(f, S, h, m - 1 + 1)
      BY <3>1, <3>2, PartialFurther
    <3> QED
      BY <2>1, <3>1, <3>3
  <2> QED
    BY <2>1, <2>2, <2>3
<1>2. PICK g : Partial(f, S, g, Cardinality(S))
  BY <1>0, <1>1
<1>3. {t \in SUBSET S : Cardinality(t) <= Cardinality(S)} = SUBSET S
  BY <1>0
<1>4. Adds(f, S, g)
  BY <1>2, <1>3 DEF Partial, Adds
<1> QED
  BY <1>4 DEF Sums

\* The sum of f over the members of S, a subset of its domain.
SumOver(f, S) == Sum([x \in S |-> f[x]])

LEMMA SumIsSums ==
    ASSUME NEW f
    PROVE  Sum(f) = Sums(f, DOMAIN f)[DOMAIN f]
  BY DEF Sum, MapThenSumSet, MapThenFoldSet, Adds, Sums

\* Partial sums only depend on the numbers they are of.
LEMMA SumsAgree ==
    ASSUME NEW f, NEW h, NEW S, IsFiniteSet(S), NEW R, IsFiniteSet(R),
           NEW T \in SUBSET S, T \subseteq R, \A x \in T : f[x] = h[x]
    PROVE  Sums(f, S)[T] = Sums(h, R)[T]
<1> DEFINE g == Sums(f, S)
           e == Sums(h, R)
           F == {t \in SUBSET T : g[t] = e[t]}
<1>1. Adds(f, S, g) /\ Adds(h, R, e)
  BY SumsExist
<1> HIDE DEF g, e
<1>2. ASSUME NEW t \in SUBSET T, \A x \in t : t \ {x} \in F
      PROVE  t \in F
  <2>1. CASE t = {}
    BY <1>1, <2>1 DEF Adds
  <2>2. CASE t # {}
    <3> DEFINE c == CHOOSE y \in t : TRUE
    <3>1. c \in t
      BY <2>2
    <3>2. g[t] = f[c] + g[t \ {c}] /\ e[t] = h[c] + e[t \ {c}]
      BY <1>1, <2>2 DEF Adds
    <3> HIDE DEF c
    <3>3. g[t \ {c}] = e[t \ {c}] /\ f[c] = h[c]
      BY <1>2, <3>1
    <3> QED
      BY <3>2, <3>3
  <2> QED
    BY <2>1, <2>2
<1>3. IsFiniteSet(T)
  BY FS_Subset
<1>4. T \in F
  <2> HIDE DEF F
  <2>1. \A t \in SUBSET T : t \in F
    BY <1>2, <1>3, SubsetInduction
  <2> QED
    BY <2>1
<1> QED
  BY <1>4 DEF g, e

LEMMA SumOverEmpty == ASSUME NEW f PROVE SumOver(f, {}) = 0
<1> DEFINE h == [x \in {} |-> f[x]]
<1>1. Adds(h, {}, Sums(h, {}))
  BY FS_EmptySet, SumsExist
<1>2. Sums(h, {})[{}] = 0
  BY <1>1 DEF Adds
<1> QED
  BY <1>2, SumIsSums DEF SumOver

\* A sum is the number of its chosen member and the sum of the others.
LEMMA SumOverChosen ==
    ASSUME NEW f, NEW S, IsFiniteSet(S), S # {}
    PROVE  \E c \in S : SumOver(f, S) = f[c] + SumOver(f, S \ {c})
<1> DEFINE c == CHOOSE y \in S : TRUE
           h == [x \in S |-> f[x]]
           e == [x \in S \ {c} |-> f[x]]
<1>1. c \in S
  OBVIOUS
<1>2. Sum(h) = h[c] + Sums(h, S)[S \ {c}]
  <2>1. Adds(h, S, Sums(h, S))
    BY SumsExist
  <2>2. Sums(h, S)[S] = h[c] + Sums(h, S)[S \ {c}]
    BY <2>1 DEF Adds
  <2>3. Sum(h) = Sums(h, S)[S]
    BY SumIsSums
  <2> QED
    BY <2>2, <2>3
<1> HIDE DEF c
<1>3. Sums(h, S)[S \ {c}] = Sums(e, S \ {c})[S \ {c}]
  <2>1. \A x \in S \ {c} : h[x] = e[x]
    OBVIOUS
  <2>2. IsFiniteSet(S \ {c})
    BY FS_Subset
  <2> HIDE DEF h, e
  <2> QED
    BY <2>1, <2>2, SumsAgree
<1>4. Sum(e) = Sums(e, S \ {c})[S \ {c}]
  BY SumIsSums
<1>5. h[c] = f[c]
  BY <1>1
<1> QED
  BY <1>1, <1>2, <1>3, <1>4, <1>5 DEF SumOver

\* A sum of integers is one.
LEMMA SumOverIsInt ==
    ASSUME NEW f, NEW S, IsFiniteSet(S), \A x \in S : f[x] \in Int
    PROVE  SumOver(f, S) \in Int
<1> DEFINE F == {T \in SUBSET S : SumOver(f, T) \in Int}
<1>1. ASSUME NEW T \in SUBSET S, \A x \in T : T \ {x} \in F
      PROVE  T \in F
  <2>1. CASE T = {}
    BY <2>1, SumOverEmpty
  <2>2. CASE T # {}
    <3>1. IsFiniteSet(T)
      BY FS_Subset
    <3>2. PICK c \in T : SumOver(f, T) = f[c] + SumOver(f, T \ {c})
      BY <2>2, <3>1, SumOverChosen
    <3> QED
      BY <1>1, <3>2
  <2> QED
    BY <2>1, <2>2
<1>2. S \in F
  <2> HIDE DEF F
  <2>1. \A T \in SUBSET S : T \in F
    BY <1>1, SubsetInduction
  <2> QED
    BY <2>1
<1> QED
  BY <1>2

\* And it does not matter which is taken out first.
LEMMA SumOverMember ==
    ASSUME NEW f, NEW S, IsFiniteSet(S), \A x \in S : f[x] \in Int
    PROVE  \A x \in S : SumOver(f, S) = f[x] + SumOver(f, S \ {x})
<1> DEFINE F == {T \in SUBSET S : \A x \in T : SumOver(f, T) = f[x] + SumOver(f, T \ {x})}
<1>1. ASSUME NEW T \in SUBSET S, \A x \in T : T \ {x} \in F
      PROVE  T \in F
  <2>1. CASE T = {}
    BY <2>1, SumOverEmpty
  <2>2. CASE T # {}
    <3>1. IsFiniteSet(T)
      BY FS_Subset
    <3>2. PICK c \in T : SumOver(f, T) = f[c] + SumOver(f, T \ {c})
      BY <2>2, <3>1, SumOverChosen
    <3>3. ASSUME NEW x \in T
          PROVE  SumOver(f, T) = f[x] + SumOver(f, T \ {x})
      <4>1. CASE x = c
        BY <3>2, <4>1
      <4>2. CASE x # c
        <5>1. x \in T \ {c} /\ c \in T \ {x}
          BY <4>2
        <5>2. T \ {c} \in F /\ T \ {x} \in F
          BY <1>1
        <5>3. SumOver(f, T \ {c}) = f[x] + SumOver(f, (T \ {c}) \ {x})
          BY <5>1, <5>2
        <5>4. SumOver(f, T \ {x}) = f[c] + SumOver(f, (T \ {x}) \ {c})
          BY <5>1, <5>2
        <5>5. (T \ {c}) \ {x} = (T \ {x}) \ {c}
          OBVIOUS
        <5>6. SumOver(f, (T \ {x}) \ {c}) \in Int
          <6>1. IsFiniteSet((T \ {x}) \ {c}) /\ (T \ {x}) \ {c} \in SUBSET S
            BY FS_Subset
          <6> QED
            BY <6>1, SumOverIsInt
        <5>7. f[x] \in Int /\ f[c] \in Int
          OBVIOUS
        <5> DEFINE rest == SumOver(f, (T \ {x}) \ {c})
        <5>8. /\ SumOver(f, T) = f[c] + (f[x] + rest)
              /\ SumOver(f, T \ {x}) = f[c] + rest
          BY <3>2, <5>3, <5>4, <5>5
        <5> HIDE DEF rest
        <5> QED
          BY <5>6, <5>7, <5>8 DEF rest
      <4> QED
        BY <4>1, <4>2
    <3> QED
      BY <3>3
  <2> QED
    BY <2>1, <2>2
<1>2. S \in F
  <2> HIDE DEF F
  <2>1. \A T \in SUBSET S : T \in F
    BY <1>1, SubsetInduction
  <2> QED
    BY <2>1
<1> QED
  BY <1>2

-----------------------------------------------------------------------------
\* The sum over two disjoint sets is that of both.
LEMMA SumOverUnion ==
    ASSUME NEW f, NEW S, IsFiniteSet(S), NEW R, IsFiniteSet(R), S \cap R = {},
           \A x \in S \cup R : f[x] \in Int
    PROVE  SumOver(f, S \cup R) = SumOver(f, S) + SumOver(f, R)
<1> DEFINE F == {T \in SUBSET R : SumOver(f, S \cup T) = SumOver(f, S) + SumOver(f, T)}
<1>1. ASSUME NEW T \in SUBSET R, \A x \in T : T \ {x} \in F
      PROVE  T \in F
  <2>0. IsFiniteSet(T) /\ IsFiniteSet(S \cup T) /\ SumOver(f, S) \in Int
    BY FS_Subset, FS_Union, SumOverIsInt
  <2>1. CASE T = {}
    <3>1. S \cup T = S /\ SumOver(f, T) = 0
      BY <2>1, SumOverEmpty
    <3>2. SumOver(f, S \cup T) = SumOver(f, S)
      BY <3>1, Zenon
    <3> QED
      BY <2>0, <3>1, <3>2
  <2>2. CASE T # {}
    <3>1. PICK x \in T : TRUE
      BY <2>2
    <3>2. SumOver(f, T) = f[x] + SumOver(f, T \ {x})
      BY <2>0, SumOverMember
    <3>3. SumOver(f, S \cup T) = f[x] + SumOver(f, (S \cup T) \ {x})
      BY <2>0, SumOverMember
    <3>4. (S \cup T) \ {x} = S \cup (T \ {x})
      OBVIOUS
    <3>5. SumOver(f, S \cup (T \ {x})) = SumOver(f, S) + SumOver(f, T \ {x})
      BY <1>1
    <3>6. IsFiniteSet(T \ {x}) /\ T \ {x} \subseteq S \cup R
      BY <2>0, FS_Subset
    <3>7. f[x] \in Int /\ SumOver(f, T \ {x}) \in Int
      BY <3>6, SumOverIsInt
    <3>8. SumOver(f, S \cup T) = f[x] + (SumOver(f, S) + SumOver(f, T \ {x}))
      BY <3>3, <3>4, <3>5
    <3>9. SumOver(f, S \cup T) = SumOver(f, S) + SumOver(f, T)
      BY <2>0, <3>2, <3>7, <3>8
    <3> QED
      BY <3>9
  <2> QED
    BY <2>1, <2>2
<1>2. R \in F
  <2> HIDE DEF F
  <2>1. \A T \in SUBSET R : T \in F
    BY <1>1, SubsetInduction
  <2> QED
    BY <2>1
<1> QED
  BY <1>2

\* The sum of the differences is the difference of the sums, and where there is
\* no difference it is nothing.
LEMMA SumOverDifference ==
    ASSUME NEW f, NEW g, NEW h, NEW S, IsFiniteSet(S),
           \A x \in S : f[x] \in Int /\ g[x] \in Int /\ h[x] = f[x] - g[x]
    PROVE  SumOver(h, S) = SumOver(f, S) - SumOver(g, S)
<1> DEFINE F == {T \in SUBSET S : SumOver(h, T) = SumOver(f, T) - SumOver(g, T)}
<1>1. ASSUME NEW T \in SUBSET S, \A x \in T : T \ {x} \in F
      PROVE  T \in F
  <2>1. CASE T = {}
    <3>1. SumOver(h, T) = 0 /\ SumOver(f, T) = 0 /\ SumOver(g, T) = 0
      BY <2>1, SumOverEmpty
    <3> QED
      BY <3>1
  <2>2. CASE T # {}
    <3>0. PICK x \in T : TRUE
      BY <2>2
    <3>1. IsFiniteSet(T) /\ IsFiniteSet(T \ {x})
      BY FS_Subset
    <3>2. f[x] \in Int /\ g[x] \in Int /\ h[x] = f[x] - g[x] /\ \A y \in T : h[y] \in Int
      OBVIOUS
    <3>3. SumOver(h, T) = h[x] + SumOver(h, T \ {x})
      BY <3>1, <3>2, SumOverMember
    <3>4. SumOver(f, T) = f[x] + SumOver(f, T \ {x})
      BY <3>1, SumOverMember
    <3>5. SumOver(g, T) = g[x] + SumOver(g, T \ {x})
      BY <3>1, SumOverMember
    <3>6. SumOver(f, T \ {x}) \in Int /\ SumOver(g, T \ {x}) \in Int
      BY <3>1, SumOverIsInt
    <3>7. SumOver(h, T \ {x}) = SumOver(f, T \ {x}) - SumOver(g, T \ {x})
      BY <1>1
    <3>8. SumOver(h, T) = SumOver(f, T) - SumOver(g, T)
      BY <3>2, <3>3, <3>4, <3>5, <3>6, <3>7
    <3> QED
      BY <3>8
  <2> QED
    BY <2>1, <2>2
<1>2. S \in F
  <2> HIDE DEF F
  <2>1. \A T \in SUBSET S : T \in F
    BY <1>1, SubsetInduction
  <2> QED
    BY <2>1
<1> QED
  BY <1>2

LEMMA SumOverNothing ==
    ASSUME NEW h, NEW S, IsFiniteSet(S), \A x \in S : h[x] = 0
    PROVE  SumOver(h, S) = 0
<1>1. SumOver(h, S) = SumOver(h, S) - SumOver(h, S)
  BY SumOverDifference
<1>2. SumOver(h, S) \in Int
  BY SumOverIsInt
<1> QED
  BY <1>1, <1>2

\* A sum over what m makes of S, one for each, is a sum over S.
LEMMA SumOverImage ==
    ASSUME NEW m, NEW f, NEW h, NEW S, IsFiniteSet(S),
           \A x, y \in S : m[x] = m[y] => x = y,
           \A x \in S : h[x] = f[m[x]] /\ h[x] \in Int
    PROVE  SumOver(f, {m[x] : x \in S}) = SumOver(h, S)
<1> DEFINE Img(T) == {m[x] : x \in T}
           F == {T \in SUBSET S : SumOver(f, Img(T)) = SumOver(h, T)}
<1>1. ASSUME NEW T \in SUBSET S, \A x \in T : T \ {x} \in F
      PROVE  T \in F
  <2>1. CASE T = {}
    <3>1. Img(T) = {}
      BY <2>1
    <3>2. SumOver(f, Img(T)) = 0 /\ SumOver(h, T) = 0
      BY <2>1, <3>1, SumOverEmpty
    <3> QED
      BY <3>2
  <2>2. CASE T # {}
    <3>0. PICK x \in T : TRUE
      BY <2>2
    <3>1. IsFiniteSet(T)
      BY FS_Subset
    <3>2. IsFiniteSet(Img(T))
      BY ONLY <3>1, FiniteRange
    <3>3. m[x] \in Img(T) /\ \A y \in Img(T) : f[y] \in Int
      <4>1. \A y \in Img(T) : \E z \in S : y = m[z]
        OBVIOUS
      <4>2. m[x] \in Img(T)
        OBVIOUS
      <4> HIDE DEF Img
      <4> QED
        BY <4>1, <4>2
    <3>4. Img(T) \ {m[x]} = Img(T \ {x})
      <4>1. \A z \in T : m[z] = m[x] <=> z = x
        OBVIOUS
      <4> QED
        BY <4>1
    <3> HIDE DEF Img
    <3>5. SumOver(f, Img(T)) = f[m[x]] + SumOver(f, Img(T) \ {m[x]})
      BY <3>2, <3>3, SumOverMember
    <3>6. SumOver(h, T) = h[x] + SumOver(h, T \ {x})
      BY <3>1, SumOverMember
    <3>7. SumOver(f, Img(T \ {x})) = SumOver(h, T \ {x})
      BY <1>1
    <3>8. h[x] = f[m[x]]
      OBVIOUS
    <3>9. SumOver(f, Img(T)) = SumOver(h, T)
      BY <3>4, <3>5, <3>6, <3>7, <3>8
    <3> QED
      BY <3>9
  <2> QED
    BY <2>1, <2>2
<1>2. S \in F
  <2> HIDE DEF F
  <2>1. \A T \in SUBSET S : T \in F
    BY <1>1, SubsetInduction
  <2> QED
    BY <2>1
<1>3. SumOver(f, Img(S)) = SumOver(h, S)
  BY <1>2
<1> QED
  BY <1>3

\* Every member of R is counted under one key.
LEMMA CountedByKey ==
    ASSUME NEW R, IsFiniteSet(R), NEW K, IsFiniteSet(K), NEW key, \A r \in R : key[r] \in K
    PROVE  Sum([k \in K |-> Cardinality({r \in R : key[r] = k})]) = Cardinality(R)
<1> DEFINE Of(T) == {r \in R : key[r] \in T}
           One(k) == {r \in R : key[r] = k}
           n == [k \in K |-> Cardinality(One(k))]
           F == {T \in SUBSET K : SumOver(n, T) = Cardinality(Of(T))}
<1>0. ASSUME NEW T
      PROVE  IsFiniteSet(Of(T)) /\ Cardinality(Of(T)) \in Nat
  <2>1. Of(T) \subseteq R
    OBVIOUS
  <2> HIDE DEF Of
  <2> QED
    BY <2>1, FS_Subset, FS_CardinalityType
<1>o. ASSUME NEW k
      PROVE  IsFiniteSet(One(k)) /\ Cardinality(One(k)) \in Nat
  <2>1. One(k) \subseteq R
    OBVIOUS
  <2> HIDE DEF One
  <2> QED
    BY <2>1, FS_Subset, FS_CardinalityType
<1>m. \A k \in K : n[k] = Cardinality(One(k))
  OBVIOUS
<1>n. \A k \in K : n[k] \in Int
  <2> HIDE DEF One, n
  <2> QED
    BY <1>o, <1>m
<1> HIDE DEF n
<1>1. ASSUME NEW T \in SUBSET K, \A k \in T : T \ {k} \in F
      PROVE  T \in F
  <2>1. CASE T = {}
    <3>1. Of(T) = {}
      BY <2>1
    <3> HIDE DEF Of
    <3>2. SumOver(n, T) = 0 /\ Cardinality(Of(T)) = 0
      BY <2>1, <3>1, SumOverEmpty, FS_EmptySet
    <3> QED
      BY <3>2
  <2>2. CASE T # {}
    <3>0. PICK k \in T : TRUE
      BY <2>2
    <3>1. IsFiniteSet(T)
      BY FS_Subset
    <3>2. SumOver(n, T) = n[k] + SumOver(n, T \ {k})
      BY <1>n, <3>1, SumOverMember
    <3>3. Of(T) = Of(T \ {k}) \cup One(k) /\ Of(T \ {k}) \cap One(k) = {}
      OBVIOUS
    <3>4. SumOver(n, T \ {k}) = Cardinality(Of(T \ {k}))
      BY <1>1
    <3> HIDE DEF Of, One
    <3>5. Cardinality({}) = 0
      BY FS_EmptySet
    <3>6. Cardinality(Of(T)) = Cardinality(Of(T \ {k})) + Cardinality(One(k))
                               - Cardinality(Of(T \ {k}) \cap One(k))
      BY <1>0, <1>o, <3>3, FS_Union
    <3>7. Cardinality(Of(T)) = Cardinality(Of(T \ {k})) + Cardinality(One(k))
      <4>1. Cardinality(Of(T \ {k}) \cap One(k)) = 0
        BY <3>3, <3>5, Zenon
      <4> QED
        BY ONLY <1>0, <1>o, <3>6, <4>1
    <3>8. SumOver(n, T) = Cardinality(Of(T))
      <4>1. SumOver(n, T) = Cardinality(One(k)) + Cardinality(Of(T \ {k}))
        BY <1>m, <3>2, <3>4
      <4> QED
        BY ONLY <1>0, <1>o, <3>7, <4>1
    <3> QED
      BY <3>8
  <2> QED
    BY <2>1, <2>2
<1>2. K \in F
  <2> HIDE DEF F
  <2>1. \A T \in SUBSET K : T \in F
    BY <1>1, SubsetInduction
  <2> QED
    BY <2>1
<1>3. Of(K) = R
  OBVIOUS
<1>4. n = [k \in K |-> Cardinality({r \in R : key[r] = k})]
  BY DEF n
<1>5. SumOver(n, K) = Sum(n)
  <2>1. [k \in K |-> n[k]] = n
    BY DEF n
  <2> QED
    BY <2>1 DEF SumOver
<1>6. SumOver(n, K) = Cardinality(Of(K))
  BY <1>2
<1> QED
  BY <1>3, <1>4, <1>5, <1>6

-----------------------------------------------------------------------------
\* The names, addresses and policies a finding can carry.
FindingNames == Principals \cup {None} \cup {log_events[i].uid : i \in Parsed}
FindingResources == {None} \cup {log_events[i].ip : i \in Parsed} \cup {log_events[i].name : i \in Parsed}
FindingPolicies == {None} \cup DOMAIN Document

\* The findings of one check: what a check reports, and once for each issue.
Reports(C, name) ==
    \A f \in C : /\ f.check = name
                 /\ f.principal \in FindingNames
                 /\ f.resource \in FindingResources
                 /\ f.policy \in FindingPolicies
Once(C) ==
    \A f, g \in C :
        f.principal = g.principal /\ f.resource = g.resource /\ f.policy = g.policy => f = g

LEMMA EachReports ==
    ASSUME NEW name, NEW S \in SUBSET Principals
    PROVE  Reports(Each(name, S), name) /\ Once(Each(name, S))
  BY DEF Reports, Once, Each, OfPrincipal, Finding, FindingNames, FindingResources, FindingPolicies

LEMMA PolicyReports ==
    ASSUME NEW name, NEW S \in SUBSET policies
    PROVE  Reports(OfPolicy(name, S), name) /\ Once(OfPolicy(name, S))
<1>1. policies \subseteq DOMAIN Document
  BY DEF policies, FilePolicies, AwsPolicies
<1> QED
  BY <1>1 DEF Reports, Once, OfPolicy, Finding, FindingNames, FindingResources, FindingPolicies

LEMMA PrincipalChecks ==
    /\ Reports(MfaDisabled, "mfa_disabled") /\ Once(MfaDisabled)
    /\ Reports(ServiceConsoleAccess, "service_console_access") /\ Once(ServiceConsoleAccess)
    /\ Reports(NoRecentLogin, "no_recent_login") /\ Once(NoRecentLogin)
    /\ Reports(OrphanedPrincipal, "orphaned_principal") /\ Once(OrphanedPrincipal)
    /\ Reports(AdminAccess, "admin_access") /\ Once(AdminAccess)
    /\ Reports(TrustWildcardPrincipal, "trust_wildcard") /\ Once(TrustWildcardPrincipal)
<1>1. Users \subseteq Principals /\ Roles \subseteq Principals
  BY DEF Principals
<1>2. Humans \subseteq Principals /\ direct_admins \subseteq Principals
  BY <1>1 DEF Humans, direct_admins
<1>3. Reports(MfaDisabled, "mfa_disabled") /\ Once(MfaDisabled)
  BY <1>1, EachReports DEF MfaDisabled
<1>4. Reports(ServiceConsoleAccess, "service_console_access") /\ Once(ServiceConsoleAccess)
  BY EachReports DEF ServiceConsoleAccess
<1>5. Reports(NoRecentLogin, "no_recent_login") /\ Once(NoRecentLogin)
  BY <1>2, EachReports DEF NoRecentLogin
<1>6. Reports(OrphanedPrincipal, "orphaned_principal") /\ Once(OrphanedPrincipal)
  BY EachReports DEF OrphanedPrincipal
<1>7. Reports(AdminAccess, "admin_access") /\ Once(AdminAccess)
  BY <1>2, EachReports DEF AdminAccess
<1>8. Reports(TrustWildcardPrincipal, "trust_wildcard") /\ Once(TrustWildcardPrincipal)
  BY <1>1, EachReports DEF TrustWildcardPrincipal
<1> QED
  BY <1>3, <1>4, <1>5, <1>6, <1>7, <1>8

LEMMA EvidenceChecks ==
    /\ Reports(InactiveUser, "inactive") /\ Once(InactiveUser)
    /\ Reports(OldAccessKey, "old_access_key") /\ Once(OldAccessKey)
    /\ Reports(StalePassword, "stale_password") /\ Once(StalePassword)
    /\ Reports(UnusedActiveCredential, "unused_active") /\ Once(UnusedActiveCredential)
    /\ Reports(PassRoleEscalation, "passrole_createkey") /\ Once(PassRoleEscalation)
    /\ Reports(UnusedGrants, "unused_grants") /\ Once(UnusedGrants)
<1> USE DEF Reports, Once, OfPrincipal, Finding, FindingNames, FindingResources, FindingPolicies
<1>1. Reports(InactiveUser, "inactive") /\ Once(InactiveUser)
  BY DEF InactiveUser
<1>2. Reports(OldAccessKey, "old_access_key") /\ Once(OldAccessKey)
  BY DEF OldAccessKey
<1>3. Reports(StalePassword, "stale_password") /\ Once(StalePassword)
  BY DEF StalePassword
<1>4. Reports(UnusedActiveCredential, "unused_active") /\ Once(UnusedActiveCredential)
  BY DEF UnusedActiveCredential
<1>5. Reports(PassRoleEscalation, "passrole_createkey") /\ Once(PassRoleEscalation)
  BY DEF PassRoleEscalation
<1>6. Reports(UnusedGrants, "unused_grants") /\ Once(UnusedGrants)
  BY DEF UnusedGrants
<1> QED
  BY ONLY <1>1, <1>2, <1>3, <1>4, <1>5, <1>6

LEMMA PolicyChecks ==
    /\ Reports(WildcardAction, "wildcard_action") /\ Once(WildcardAction)
    /\ Reports(SensitiveActionOnStar, "sensitive_action_on_star") /\ Once(SensitiveActionOnStar)
    /\ Reports(RiskyNotAction, "risky_not_action") /\ Once(RiskyNotAction)
    /\ Reports(OverlyBroadResource, "overly_broad_resource") /\ Once(OverlyBroadResource)
<1>1. Reports(WildcardAction, "wildcard_action") /\ Once(WildcardAction)
  BY PolicyReports DEF WildcardAction
<1>2. Reports(SensitiveActionOnStar, "sensitive_action_on_star") /\ Once(SensitiveActionOnStar)
  BY PolicyReports DEF SensitiveActionOnStar
<1>3. Reports(RiskyNotAction, "risky_not_action") /\ Once(RiskyNotAction)
  BY PolicyReports DEF RiskyNotAction
<1>4. Reports(OverlyBroadResource, "overly_broad_resource") /\ Once(OverlyBroadResource)
  BY PolicyReports DEF OverlyBroadResource
<1> QED
  BY <1>1, <1>2, <1>3, <1>4

\* A first login is the only one of its principal.
LEMMA LogChecks ==
    ASSUME OrgTypeOK
    PROVE  /\ Reports(RepeatedLoginFailures, "repeated_login_failures") /\ Once(RepeatedLoginFailures)
           /\ Reports(PrivilegedLogin, "privileged_login") /\ Once(PrivilegedLogin)
           /\ Reports(ServiceInteractiveLogin, "service_interactive_login") /\ Once(ServiceInteractiveLogin)
           /\ Reports(DeniedSensitiveIam, "denied_sensitive_iam")
<1>0. /\ Logins \subseteq Parsed /\ DOMAIN log_events = Parsed /\ Parsed \subseteq Nat
  BY DEF Logins, log_events, Parsed, OrgTypeOK
<1>1. Reports(RepeatedLoginFailures, "repeated_login_failures") /\ Once(RepeatedLoginFailures)
  <2> DEFINE Failed(u, ip) == {i \in Logins : /\ log_events[i].outcome = "failure"
                                              /\ log_events[i].uid = u /\ log_events[i].ip = ip}
             E(u, ip) == Cardinality(Failed(u, ip))
             keys == {<<log_events[i].uid, log_events[i].ip>> :
                         i \in {j \in Logins : E(log_events[j].uid, log_events[j].ip) >=
                                                  Thresholds.failed_logins}}
  <2>1. RepeatedLoginFailures = {Finding("repeated_login_failures", k[1], k[2], None, E(k[1], k[2])) : k \in keys}
    BY DEF RepeatedLoginFailures
  <2>2. \A k \in keys : k[1] \in FindingNames /\ k[2] \in FindingResources
    <3> SUFFICES ASSUME NEW k \in keys
                 PROVE  k[1] \in FindingNames /\ k[2] \in FindingResources
      OBVIOUS
    <3>1. PICK i \in Logins : k = <<log_events[i].uid, log_events[i].ip>>
      OBVIOUS
    <3>2. i \in Parsed /\ k[1] = log_events[i].uid /\ k[2] = log_events[i].ip
      BY <1>0, <3>1
    <3> QED
      BY <3>2 DEF FindingNames, FindingResources
  <2> HIDE DEF E, keys
  <2> QED
    BY <2>1, <2>2 DEF Reports, Once, Finding, FindingPolicies
<1>2. ASSUME NEW S, NEW counts, NEW C, NEW name,
             \A f \in C : \E i \in Logins :
                 /\ i \in counts /\ log_events[i].uid \in S
                 /\ f = OfPrincipal(name, log_events[i].uid, log_events[i].ip)
                 /\ \A k \in Logins : k < i => ~(log_events[k].uid = log_events[i].uid /\ k \in counts)
      PROVE  Reports(C, name) /\ Once(C)
  <2>1. Reports(C, name)
    BY <1>0, <1>2 DEF Reports, OfPrincipal, Finding, FindingNames, FindingResources, FindingPolicies
  <2>2. ASSUME NEW f \in C, NEW g \in C, f.principal = g.principal
        PROVE  f = g
    <3>1. PICK i \in Logins :
              /\ i \in counts
              /\ f = OfPrincipal(name, log_events[i].uid, log_events[i].ip)
              /\ \A k \in Logins : k < i => ~(log_events[k].uid = log_events[i].uid /\ k \in counts)
      BY <1>2
    <3>2. PICK j \in Logins :
              /\ j \in counts
              /\ g = OfPrincipal(name, log_events[j].uid, log_events[j].ip)
              /\ \A k \in Logins : k < j => ~(log_events[k].uid = log_events[j].uid /\ k \in counts)
      BY <1>2
    <3>3. log_events[i].uid = log_events[j].uid
      BY <2>2, <3>1, <3>2 DEF OfPrincipal, Finding
    <3>4. ~(j < i) /\ ~(i < j) /\ i \in Nat /\ j \in Nat
      BY <1>0, <3>1, <3>2, <3>3
    <3>5. i = j
      BY <3>4
    <3> QED
      BY <3>1, <3>2, <3>5
  <2> QED
    BY <2>1, <2>2 DEF Once
<1>3. Reports(PrivilegedLogin, "privileged_login") /\ Once(PrivilegedLogin)
  <2> DEFINE counts == {i \in Logins : log_events[i].outcome \in {"success", None}}
  <2>1. \A f \in PrivilegedLogin : \E i \in Logins :
            /\ i \in counts /\ log_events[i].uid \in direct_admins
            /\ f = OfPrincipal("privileged_login", log_events[i].uid, log_events[i].ip)
            /\ \A k \in Logins : k < i => ~(log_events[k].uid = log_events[i].uid /\ k \in counts)
    BY DEF PrivilegedLogin, FirstLogin
  <2> HIDE DEF counts
  <2> QED
    BY <1>2, <2>1
<1>4. Reports(ServiceInteractiveLogin, "service_interactive_login") /\ Once(ServiceInteractiveLogin)
  <2> DEFINE S == {p \in Principals : is_service(p)}
  <2>1. \A f \in ServiceInteractiveLogin : \E i \in Logins :
            /\ i \in Logins /\ log_events[i].uid \in S
            /\ f = OfPrincipal("service_interactive_login", log_events[i].uid, log_events[i].ip)
            /\ \A k \in Logins : k < i => ~(log_events[k].uid = log_events[i].uid /\ k \in Logins)
    BY DEF ServiceInteractiveLogin, FirstLogin
  <2> HIDE DEF S
  <2> QED
    BY <1>2, <2>1
<1>5. Reports(DeniedSensitiveIam, "denied_sensitive_iam")
  <2> SUFFICES ASSUME NEW f \in DeniedSensitiveIam
               PROVE  /\ f.check = "denied_sensitive_iam"
                      /\ f.principal \in FindingNames
                      /\ f.resource \in FindingResources
                      /\ f.policy \in FindingPolicies
    BY DEF Reports
  <2>1. PICK i \in Parsed :
           f = Finding("denied_sensitive_iam", log_events[i].uid, log_events[i].name, None, i)
    BY <1>0 DEF DeniedSensitiveIam
  <2>2. /\ f.check = "denied_sensitive_iam" /\ f.principal = log_events[i].uid
        /\ f.resource = log_events[i].name /\ f.policy = None
    BY <2>1 DEF Finding
  <2> QED
    BY <2>2 DEF FindingNames, FindingResources, FindingPolicies
<1> QED
  BY <1>1, <1>3, <1>4, <1>5

-----------------------------------------------------------------------------
\* The checks have different names, so a finding's check says where it is from.
LEMMA FoundByCheck ==
    ASSUME OrgTypeOK, NEW f \in Findings
    PROVE  \/ f.check = "denied_sensitive_iam"
           \/ \E C : Once(C) /\ f \in C /\ \A g \in Findings : g.check = f.check => g \in C
<1>1. /\ \A g \in MfaDisabled : g.check = "mfa_disabled"
      /\ \A g \in InactiveUser : g.check = "inactive"
      /\ \A g \in ServiceConsoleAccess : g.check = "service_console_access"
      /\ \A g \in NoRecentLogin : g.check = "no_recent_login"
      /\ \A g \in OldAccessKey : g.check = "old_access_key"
      /\ \A g \in StalePassword : g.check = "stale_password"
      /\ \A g \in UnusedActiveCredential : g.check = "unused_active"
      /\ \A g \in OrphanedPrincipal : g.check = "orphaned_principal"
      /\ \A g \in RepeatedLoginFailures : g.check = "repeated_login_failures"
      /\ \A g \in PrivilegedLogin : g.check = "privileged_login"
      /\ \A g \in ServiceInteractiveLogin : g.check = "service_interactive_login"
      /\ \A g \in DeniedSensitiveIam : g.check = "denied_sensitive_iam"
      /\ \A g \in WildcardAction : g.check = "wildcard_action"
      /\ \A g \in SensitiveActionOnStar : g.check = "sensitive_action_on_star"
      /\ \A g \in RiskyNotAction : g.check = "risky_not_action"
      /\ \A g \in OverlyBroadResource : g.check = "overly_broad_resource"
      /\ \A g \in AdminAccess : g.check = "admin_access"
      /\ \A g \in PassRoleEscalation : g.check = "passrole_createkey"
      /\ \A g \in TrustWildcardPrincipal : g.check = "trust_wildcard"
      /\ \A g \in UnusedGrants : g.check = "unused_grants"
  BY PrincipalChecks, EvidenceChecks, PolicyChecks, LogChecks DEF Reports
<1>2. ASSUME NEW g \in Findings
      PROVE  \/ g.check = "mfa_disabled" /\ g \in MfaDisabled
             \/ g.check = "inactive" /\ g \in InactiveUser
             \/ g.check = "service_console_access" /\ g \in ServiceConsoleAccess
             \/ g.check = "no_recent_login" /\ g \in NoRecentLogin
             \/ g.check = "old_access_key" /\ g \in OldAccessKey
             \/ g.check = "stale_password" /\ g \in StalePassword
             \/ g.check = "unused_active" /\ g \in UnusedActiveCredential
             \/ g.check = "orphaned_principal" /\ g \in OrphanedPrincipal
             \/ g.check = "repeated_login_failures" /\ g \in RepeatedLoginFailures
             \/ g.check = "privileged_login" /\ g \in PrivilegedLogin
             \/ g.check = "service_interactive_login" /\ g \in ServiceInteractiveLogin
             \/ g.check = "denied_sensitive_iam" /\ g \in DeniedSensitiveIam
             \/ g.check = "wildcard_action" /\ g \in WildcardAction
             \/ g.check = "sensitive_action_on_star" /\ g \in SensitiveActionOnStar
             \/ g.check = "risky_not_action" /\ g \in RiskyNotAction
             \/ g.check = "overly_broad_resource" /\ g \in OverlyBroadResource
             \/ g.check = "admin_access" /\ g \in AdminAccess
             \/ g.check = "passrole_createkey" /\ g \in PassRoleEscalation
             \/ g.check = "trust_wildcard" /\ g \in TrustWildcardPrincipal
             \/ g.check = "unused_grants" /\ g \in UnusedGrants
  BY <1>1 DEF Findings
<1>3. /\ Once(MfaDisabled)
      /\ Once(InactiveUser)
      /\ Once(ServiceConsoleAccess)
      /\ Once(NoRecentLogin)
      /\ Once(OldAccessKey)
      /\ Once(StalePassword)
      /\ Once(UnusedActiveCredential)
      /\ Once(OrphanedPrincipal)
      /\ Once(RepeatedLoginFailures)
      /\ Once(PrivilegedLogin)
      /\ Once(ServiceInteractiveLogin)
      /\ Once(WildcardAction)
      /\ Once(SensitiveActionOnStar)
      /\ Once(RiskyNotAction)
      /\ Once(OverlyBroadResource)
      /\ Once(AdminAccess)
      /\ Once(PassRoleEscalation)
      /\ Once(TrustWildcardPrincipal)
      /\ Once(UnusedGrants)
  BY PrincipalChecks, EvidenceChecks, PolicyChecks, LogChecks
<1>4. ASSUME NEW C, NEW name, Once(C), f.check = name, \A g \in Findings : g.check = name => g \in C
      PROVE  \E D : Once(D) /\ f \in D /\ \A g \in Findings : g.check = f.check => g \in D
  BY <1>4
<1>5. /\ \A g \in Findings : g.check = "mfa_disabled" => g \in MfaDisabled
      /\ \A g \in Findings : g.check = "inactive" => g \in InactiveUser
      /\ \A g \in Findings : g.check = "service_console_access" => g \in ServiceConsoleAccess
      /\ \A g \in Findings : g.check = "no_recent_login" => g \in NoRecentLogin
      /\ \A g \in Findings : g.check = "old_access_key" => g \in OldAccessKey
      /\ \A g \in Findings : g.check = "stale_password" => g \in StalePassword
      /\ \A g \in Findings : g.check = "unused_active" => g \in UnusedActiveCredential
      /\ \A g \in Findings : g.check = "orphaned_principal" => g \in OrphanedPrincipal
      /\ \A g \in Findings : g.check = "repeated_login_failures" => g \in RepeatedLoginFailures
      /\ \A g \in Findings : g.check = "privileged_login" => g \in PrivilegedLogin
      /\ \A g \in Findings : g.check = "service_interactive_login" => g \in ServiceInteractiveLogin
      /\ \A g \in Findings : g.check = "denied_sensitive_iam" => g \in DeniedSensitiveIam
      /\ \A g \in Findings : g.check = "wildcard_action" => g \in WildcardAction
      /\ \A g \in Findings : g.check = "sensitive_action_on_star" => g \in SensitiveActionOnStar
      /\ \A g \in Findings : g.check = "risky_not_action" => g \in RiskyNotAction
      /\ \A g \in Findings : g.check = "overly_broad_resource" => g \in OverlyBroadResource
      /\ \A g \in Findings : g.check = "admin_access" => g \in AdminAccess
      /\ \A g \in Findings : g.check = "passrole_createkey" => g \in PassRoleEscalation
      /\ \A g \in Findings : g.check = "trust_wildcard" => g \in TrustWildcardPrincipal
      /\ \A g \in Findings : g.check = "unused_grants" => g \in UnusedGrants
  BY <1>2
<1> QED
  BY <1>2, <1>3, <1>4, <1>5

-----------------------------------------------------------------------------
\* There are finitely many findings.
LEMMA OnceIsFinite ==
    ASSUME OrgTypeOK, NEW C, NEW name, Reports(C, name), Once(C)
    PROVE  IsFiniteSet(C)
<1> DEFINE T == FindingNames \X (FindingResources \X FindingPolicies)
           key == [f \in C |-> <<f.principal, <<f.resource, f.policy>>>>]
<1>1. IsFiniteSet(Parsed)
  <2>1. IsFiniteSet(1 .. Len(log)) /\ Parsed \subseteq 1 .. Len(log)
    BY FS_Interval DEF OrgTypeOK, Parsed
  <2> QED
    BY <2>1, FS_Subset
<1>2. /\ IsFiniteSet({log_events[i].uid : i \in Parsed})
      /\ IsFiniteSet({log_events[i].ip : i \in Parsed})
      /\ IsFiniteSet({log_events[i].name : i \in Parsed})
  <2> DEFINE by == [i \in Parsed |-> log_events[i].uid]
             from == [i \in Parsed |-> log_events[i].ip]
             what == [i \in Parsed |-> log_events[i].name]
  <2>1. /\ {log_events[i].uid : i \in Parsed} = {by[i] : i \in Parsed}
        /\ {log_events[i].ip : i \in Parsed} = {from[i] : i \in Parsed}
        /\ {log_events[i].name : i \in Parsed} = {what[i] : i \in Parsed}
    OBVIOUS
  <2> HIDE DEF by, from, what
  <2>2. /\ IsFiniteSet({by[i] : i \in Parsed})
        /\ IsFiniteSet({from[i] : i \in Parsed})
        /\ IsFiniteSet({what[i] : i \in Parsed})
    BY <1>1, FiniteRange
  <2> QED
    BY <2>1, <2>2, Zenon
<1>3. IsFiniteSet(Principals) /\ IsFiniteSet(DOMAIN Document) /\ IsFiniteSet({None})
  BY OrganisationAssumption, FS_Singleton
<1>4. IsFiniteSet(FindingNames) /\ IsFiniteSet(FindingResources) /\ IsFiniteSet(FindingPolicies)
  BY <1>2, <1>3, FS_Union DEF FindingNames, FindingResources, FindingPolicies
<1>5. IsFiniteSet(T)
  BY <1>4, FS_Product
<1>6. key \in Injection(C, T)
  <2>1. key \in [C -> T]
    BY DEF Reports
  <2>2. \A f, g \in C : key[f] = key[g] => f = g
    BY DEF Once
  <2> HIDE DEF key, T
  <2> QED
    BY <2>1, <2>2 DEF Injection, IsInjective
<1> HIDE DEF key, T
<1> QED
  BY <1>5, <1>6, FS_Injection

LEMMA FindingsFinite ==
    ASSUME OrgTypeOK
    PROVE  IsFiniteSet(Findings)
<1>1. IsFiniteSet(DeniedSensitiveIam)
  <2> DEFINE denied == {j \in DOMAIN log_events :
                           log_events[j].is_sensitive_iam /\ log_events[j].outcome = "denied"}
             h == [i \in denied |->
                      Finding("denied_sensitive_iam", log_events[i].uid, log_events[i].name, None, i)]
  <2>1. DeniedSensitiveIam = {h[i] : i \in denied}
    BY DEF DeniedSensitiveIam
  <2>2. denied \subseteq 1 .. Len(log) /\ IsFiniteSet(1 .. Len(log))
    BY FS_Interval DEF OrgTypeOK, log_events, Parsed
  <2> HIDE DEF h, denied
  <2>3. IsFiniteSet(denied)
    BY <2>2, FS_Subset
  <2>4. IsFiniteSet({h[i] : i \in denied})
    BY <2>3, FiniteRange
  <2> QED
    BY <2>1, <2>4
<1>2. IsFiniteSet(MfaDisabled \cup InactiveUser \cup ServiceConsoleAccess \cup NoRecentLogin)
  <2>1. /\ IsFiniteSet(MfaDisabled) /\ IsFiniteSet(InactiveUser)
        /\ IsFiniteSet(ServiceConsoleAccess) /\ IsFiniteSet(NoRecentLogin)
    BY PrincipalChecks, EvidenceChecks, OnceIsFinite
  <2> QED
    BY <2>1, FS_Union
<1>3. IsFiniteSet(OldAccessKey \cup StalePassword \cup UnusedActiveCredential \cup OrphanedPrincipal)
  <2>1. /\ IsFiniteSet(OldAccessKey) /\ IsFiniteSet(StalePassword)
        /\ IsFiniteSet(UnusedActiveCredential) /\ IsFiniteSet(OrphanedPrincipal)
    BY PrincipalChecks, EvidenceChecks, OnceIsFinite
  <2> QED
    BY <2>1, FS_Union
<1>4. IsFiniteSet(RepeatedLoginFailures \cup PrivilegedLogin \cup ServiceInteractiveLogin
                  \cup DeniedSensitiveIam)
  <2>1. /\ IsFiniteSet(RepeatedLoginFailures) /\ IsFiniteSet(PrivilegedLogin)
        /\ IsFiniteSet(ServiceInteractiveLogin)
    BY LogChecks, OnceIsFinite
  <2> QED
    BY <1>1, <2>1, FS_Union
<1>5. IsFiniteSet(WildcardAction \cup SensitiveActionOnStar \cup RiskyNotAction \cup OverlyBroadResource)
  <2>1. /\ IsFiniteSet(WildcardAction) /\ IsFiniteSet(SensitiveActionOnStar)
        /\ IsFiniteSet(RiskyNotAction) /\ IsFiniteSet(OverlyBroadResource)
    BY PolicyChecks, OnceIsFinite
  <2> QED
    BY <2>1, FS_Union
<1>6. IsFiniteSet(AdminAccess \cup PassRoleEscalation \cup TrustWildcardPrincipal \cup UnusedGrants)
  <2>1. /\ IsFiniteSet(AdminAccess) /\ IsFiniteSet(PassRoleEscalation)
        /\ IsFiniteSet(TrustWildcardPrincipal) /\ IsFiniteSet(UnusedGrants)
    BY PrincipalChecks, EvidenceChecks, OnceIsFinite
  <2> QED
    BY <2>1, FS_Union
<1> DEFINE A == MfaDisabled \cup InactiveUser \cup ServiceConsoleAccess \cup NoRecentLogin
           B == OldAccessKey \cup StalePassword \cup UnusedActiveCredential \cup OrphanedPrincipal
           C == RepeatedLoginFailures \cup PrivilegedLogin \cup ServiceInteractiveLogin
                \cup DeniedSensitiveIam
           D == WildcardAction \cup SensitiveActionOnStar \cup RiskyNotAction \cup OverlyBroadResource
           E == AdminAccess \cup PassRoleEscalation \cup TrustWildcardPrincipal \cup UnusedGrants
<1>7. Findings \subseteq A \cup B \cup C \cup D \cup E
  BY DEF Findings
<1> HIDE DEF A, B, C, D, E
<1>8. IsFiniteSet(A \cup B \cup C \cup D \cup E)
  BY <1>2, <1>3, <1>4, <1>5, <1>6, FS_Union DEF A, B, C, D, E
<1> QED
  BY <1>7, <1>8, FS_Subset

-----------------------------------------------------------------------------
\* A severity and a category belong to every check.
Kinds == {"identity", "hygiene", "credential", "inventory", "log", "policy", "privilege"}
LEMMA MetaIsThere ==
    \A c \in DOMAIN Meta : Meta[c].severity \in Severities /\ Meta[c].category \in Kinds
  BY DEF Meta, M, Severities, Kinds

LEMMA FoundIsRegistered ==
    ASSUME OrgTypeOK, NEW f \in Findings
    PROVE  f.check \in DOMAIN Meta
  BY PrincipalChecks, EvidenceChecks, PolicyChecks, LogChecks DEF Reports, Findings, Meta

-----------------------------------------------------------------------------
\* The numbers of a score are natural numbers, and a risk is at most 100.
LEMMA RoundIsNat ==
    ASSUME NEW n \in Nat, NEW d \in Nat \ {0}
    PROVE  Round(n, d) \in Nat
<1>1. n \div d \in Nat
  BY DivBounds
<1> QED
  BY <1>1 DEF Round

LEMMA BlastIsNat ==
    ASSUME NEW p \in Principals
    PROVE  blast_radius_score(p) \in Nat
<1> DEFINE c == Cardinality(has_sensitive(union_actions(p)))
           u == Cardinality(union_actions(p))
           a == Cardinality(assumable(p))
           x == IF can_reach_admin(p) THEN 6000 ELSE 0
           lc == Least(c, 25)
           lu == Least(u, 300)
           la == Least(a, 10)
<1>1. assumable(p) \subseteq Principals
  <2>1. AssumeOnly \in SUBSET (Principals \X Principals)
    BY DEF AssumeOnly, CAN_ASSUME, Principals
  <2>2. Longest(AssumeOnly) \in Nat
    BY <2>1, FinitelyManyOrigins, WithinSaturates
  <2>3. Closed(Principals, AssumeOnly)
    BY <2>1 DEF Closed
  <2>4. Within(AssumeOnly, p)[Longest(AssumeOnly)] \subseteq Principals
    BY <2>2, <2>3, WithinStays
  <2> QED
    BY <2>4 DEF assumable, descendants
<1>2. IsFiniteSet(assumable(p))
  BY <1>1, OrganisationAssumption, FS_Subset
<1>3. union_actions(p) \subseteq NamedActions
  BY <1>1, NamedActionsFinite DEF union_actions
<1>4. IsFiniteSet(union_actions(p)) /\ IsFiniteSet(has_sensitive(union_actions(p)))
  <2>1. has_sensitive(union_actions(p)) \subseteq NamedActions
    BY <1>3 DEF has_sensitive
  <2> QED
    BY <1>3, <2>1, NamedActionsFinite, FS_Subset
<1>5. c \in Nat /\ u \in Nat /\ a \in Nat /\ x \in Nat
  BY <1>2, <1>4, FS_CardinalityType
<1>6. lc \in Nat /\ lu \in Nat /\ la \in Nat
  <2> HIDE DEF c, u, a
  <2> QED
    BY <1>5 DEF Least
<1> HIDE DEF lc, lu, la, x
<1>7. 540 * lc + 25 * lu + x + 300 * la \in Nat
  BY <1>5, <1>6
<1>8. Round(540 * lc + 25 * lu + x + 300 * la, 300) \in Nat
  BY <1>7, RoundIsNat
<1> QED
  BY <1>8 DEF blast_radius_score, lc, lu, la, x

LEMMA RiskInRange ==
    ASSUME NEW f, f.check \in DOMAIN Meta, NEW blast \in Nat
    PROVE  risk_score(f, blast) \in 0 .. 100
<1> DEFINE w == base_weight(Meta[f.check].severity)
           i == impact(f, blast)
           l == likelihood(f)
           b == IF blast >= 75 THEN 800 ELSE 0
           m == IF f.principal \in Principals /\ is_privileged(f) THEN 500 ELSE 0
<1>1. w \in Nat
  BY MetaIsThere DEF base_weight, Severities
<1>2. i \in Nat /\ b \in Nat /\ m \in Nat
  BY DEF impact
<1>3. l \in Nat
  <2> DEFINE x == IF f.check = "repeated_login_failures" /\ f.evidence >= 10 THEN 1 ELSE 0
             y == IF f.principal \in Principals /\ record(f.principal).active
                     /\ record(f.principal).console /\ ~record(f.principal).mfa THEN 1 ELSE 0
             z == IF f.principal \in Principals /\ ~record(f.principal).active THEN 1 ELSE 0
  <2>1. x \in {0, 1} /\ y \in {0, 1} /\ z \in {0, 1}
    OBVIOUS
  <2>2. l = 3 + x + y - z
    BY DEF likelihood
  <2> HIDE DEF x, y, z
  <2> QED
    BY <2>1, <2>2
<1> HIDE DEF w, i, l, b, m
<1>4. 55 * w + 500 * i + 400 * l + b + m \in Nat
  BY <1>1, <1>2, <1>3
<1>5. Round(55 * w + 500 * i + 400 * l + b + m, 100) \in Nat
  BY <1>4, RoundIsNat
<1>6. risk_score(f, blast) = Least(100, Round(55 * w + 500 * i + 400 * l + b + m, 100))
  BY DEF risk_score, w, i, l, b, m
<1>7. Least(100, Round(55 * w + 500 * i + 400 * l + b + m, 100)) \in 0 .. 100
  <2> DEFINE r == Round(55 * w + 500 * i + 400 * l + b + m, 100)
  <2> HIDE DEF r
  <2>1. r \in Nat => Least(100, r) \in 0 .. 100
    BY DEF Least
  <2> QED
    BY <1>5, <2>1 DEF r
<1> QED
  BY <1>6, <1>7

-----------------------------------------------------------------------------
\* The load of a severity's findings never falls as they grow in number.
LEMMA DivAtLeast ==
    ASSUME NEW a \in Nat, NEW p \in Nat \ {0}, NEW r \in Nat, p * r <= a
    PROVE  r <= a \div p
<1> DEFINE q == a \div p
<1>1. q \in Nat /\ a < p * q + p
  BY DivBounds
<1> HIDE DEF q
<1>2. p * (q + 1) = p * q + p
  BY <1>1, TimesMonotone
<1>3. q + 1 \in Nat /\ (q + 1 <= r <=> p * (q + 1) <= p * r)
  <2>1. q + 1 \in Nat
    BY <1>1
  <2> QED
    BY <2>1, TimesMonotone
<1>4. p * r \in Nat /\ p * q \in Nat
  BY <1>1, TimesMonotone
<1>5. r <= q
  BY <1>1, <1>2, <1>3, <1>4
<1> QED
  BY <1>5 DEF q

LEMMA DiminishingGrows ==
    ASSUME NEW w \in {1, 3, 8, 18, 25}, NEW n \in Nat
    PROVE  /\ diminishing(w, n) \in Nat
           /\ diminishing(w, n) <= diminishing(w, n + 1)
<1> DEFINE K == 20000 * w
           p == 17 + 3 * n
           a == K * n
           q == a \div p
           b == K * (n + 1)
<1>0. K \in Nat \ {0} /\ p \in Nat \ {0} /\ p + 3 \in Nat \ {0}
  OBVIOUS
<1>1. a \in Nat /\ b = a + K /\ b \in Nat
  <2> HIDE DEF K
  <2>1. a \in Nat /\ b = a + K
    BY <1>0, TimesMonotone
  <2> QED
    BY <1>0, <2>1
<1>2. q \in Nat /\ p * q <= a
  <2> HIDE DEF a, p
  <2> QED
    BY <1>0, <1>1, DivBounds
<1>3. n # 0 => diminishing(w, n) = q
  BY DEF diminishing
<1>4. diminishing(w, n + 1) = b \div (p + 3)
  <2>1. n + 1 # 0 /\ 17 + 3 * (n + 1) = p + 3
    OBVIOUS
  <2>2. diminishing(w, n + 1) = b \div (17 + 3 * (n + 1))
    BY <2>1 DEF diminishing
  <2> QED
    BY <2>1, <2>2
<1>5. b \div (p + 3) \in Nat
  <2> HIDE DEF b, p
  <2> QED
    BY <1>0, <1>1, DivBounds
<1>6. CASE n = 0
  BY <1>4, <1>5, <1>6 DEF diminishing
<1>7. CASE n # 0
  <2>1. 3 * q <= K
    <3>1. p * q = 17 * q + n * (3 * q)
      <4> HIDE DEF q
      <4> QED
        BY <1>2
    <3>2. a = n * K
      <4> HIDE DEF K
      <4> QED
        BY <1>0
    <3>3. n * (3 * q) <= n * K /\ 3 * q \in Nat
      <4>1. 3 * q \in Nat /\ 17 * q \in Nat
        BY ONLY <1>2
      <4> HIDE DEF q, a, p, K
      <4>2. n * (3 * q) \in Nat
        BY <1>7, <4>1, TimesMonotone
      <4> QED
        BY <1>1, <1>2, <3>1, <3>2, <4>1, <4>2
    <3> HIDE DEF q, K
    <3> QED
      BY <1>0, <1>7, <3>3, TimesMonotone
  <2>2. (p + 3) * q = p * q + 3 * q
    <3> HIDE DEF q, p
    <3> QED
      BY <1>0, <1>2
  <2>3. (p + 3) * q <= b
    <3>1. p * q \in Nat /\ 3 * q \in Nat
      <4> HIDE DEF p, q
      <4> QED
        BY <1>0, <1>2, TimesMonotone
    <3> HIDE DEF p, q, K, a, b
    <3> QED
      BY <1>0, <1>1, <1>2, <2>1, <2>2, <3>1
  <2>4. q <= b \div (p + 3)
    <3> HIDE DEF p, q, b
    <3> QED
      BY <1>0, <1>1, <1>2, <2>3, DivAtLeast
  <2> HIDE DEF q, b, p
  <2> QED
    BY <1>2, <1>3, <1>4, <1>7, <2>4
<1> QED
  BY <1>6, <1>7

LEMMA CountedOneLess ==
    ASSUME NEW w \in {1, 3, 8, 18, 25}, NEW A, IsFiniteSet(A), NEW x
    PROVE  /\ diminishing(w, Cardinality(A)) \in Nat
           /\ diminishing(w, Cardinality(A \ {x})) \in Nat
           /\ diminishing(w, Cardinality(A \ {x})) <= diminishing(w, Cardinality(A))
<1>1. /\ IsFiniteSet(A \ {x}) /\ Cardinality(A) \in Nat /\ Cardinality(A \ {x}) \in Nat
  BY FS_Subset, FS_CardinalityType
<1>2. CASE x \notin A
  <2>1. A \ {x} = A
    BY <1>2
  <2>2. Cardinality(A \ {x}) = Cardinality(A)
    BY <2>1, Zenon
  <2>3. diminishing(w, Cardinality(A)) \in Nat
    BY <1>1, DiminishingGrows
  <2> QED
    BY <2>2, <2>3
<1>3. CASE x \in A
  <2>1. Cardinality(A \ {x}) = Cardinality(A) - 1
    BY <1>3, FS_RemoveElement
  <2> DEFINE n == Cardinality(A \ {x})
  <2>2. n \in Nat /\ Cardinality(A) = n + 1 /\ n + 1 \in Nat
    BY <1>1, <2>1
  <2> HIDE DEF n
  <2>3. /\ diminishing(w, n) \in Nat /\ diminishing(w, n + 1) \in Nat
        /\ diminishing(w, n) <= diminishing(w, n + 1)
    BY <2>2, DiminishingGrows
  <2> QED
    BY <2>2, <2>3 DEF n
<1> QED
  BY <1>2, <1>3

-----------------------------------------------------------------------------
\* The load of what is left of some rows, and of all of them.
LEMMA LoadFalls ==
    ASSUME NEW R, IsFiniteSet(R), \A row \in R : row.blast \in Nat, NEW x \in R
    PROVE  posture_load(R \ {x}) <= posture_load(R)
<1> DEFINE Of(S, s) == {f \in S : f.severity = s}
           Esc(S) == {f \in S : IsEscalation(f.finding)}
           Blasts(S) == {f.blast : f \in S}
           Worst(S) == CHOOSE b \in Blasts(S) : \A c \in Blasts(S) : c <= b
           low(S) == diminishing(1, Cardinality(Of(S, "LOW")))
           medium(S) == diminishing(3, Cardinality(Of(S, "MEDIUM")))
           high(S) == diminishing(8, Cardinality(Of(S, "HIGH")))
           critical(S) == diminishing(18, Cardinality(Of(S, "CRITICAL")))
           esc(S) == diminishing(25, Cardinality(Esc(S)))
           T == R \ {x}
<1>1. \A S : posture_load(S) =
                IF S = {} THEN 0
                ELSE low(S) + medium(S) + high(S) + critical(S) + esc(S) + 400 * Least(Worst(S), 100)
  BY DEF posture_load
<1>2. /\ low(T) \in Nat /\ low(R) \in Nat /\ low(T) <= low(R)
      /\ medium(T) \in Nat /\ medium(R) \in Nat /\ medium(T) <= medium(R)
      /\ high(T) \in Nat /\ high(R) \in Nat /\ high(T) <= high(R)
      /\ critical(T) \in Nat /\ critical(R) \in Nat /\ critical(T) <= critical(R)
  <2>1. ASSUME NEW s
        PROVE  IsFiniteSet(Of(R, s)) /\ Of(T, s) = Of(R, s) \ {x}
    <3>1. Of(R, s) \subseteq R /\ Of(T, s) = Of(R, s) \ {x}
      OBVIOUS
    <3> HIDE DEF Of
    <3> QED
      BY <3>1, FS_Subset
  <2>2. ASSUME NEW w \in {1, 3, 8, 18, 25}, NEW s
        PROVE  /\ diminishing(w, Cardinality(Of(R, s))) \in Nat
               /\ diminishing(w, Cardinality(Of(T, s))) \in Nat
               /\ diminishing(w, Cardinality(Of(T, s))) <= diminishing(w, Cardinality(Of(R, s)))
    <3> HIDE DEF Of, T
    <3>1. /\ diminishing(w, Cardinality(Of(R, s))) \in Nat
          /\ diminishing(w, Cardinality(Of(R, s) \ {x})) \in Nat
          /\ diminishing(w, Cardinality(Of(R, s) \ {x})) <= diminishing(w, Cardinality(Of(R, s)))
      BY <2>1, CountedOneLess
    <3> QED
      BY <2>1, <3>1
  <2> HIDE DEF Of, T
  <2> QED
    BY <2>2
<1>3. esc(T) \in Nat /\ esc(R) \in Nat /\ esc(T) <= esc(R)
  <2>1. Esc(R) \subseteq R /\ Esc(T) = Esc(R) \ {x}
    OBVIOUS
  <2> HIDE DEF Esc, T
  <2>2. IsFiniteSet(Esc(R))
    BY <2>1, FS_Subset
  <2>3. /\ diminishing(25, Cardinality(Esc(R))) \in Nat
        /\ diminishing(25, Cardinality(Esc(R) \ {x})) \in Nat
        /\ diminishing(25, Cardinality(Esc(R) \ {x})) <= diminishing(25, Cardinality(Esc(R)))
    BY <2>2, CountedOneLess
  <2> QED
    BY <2>1, <2>3
<1>4. ASSUME NEW S \in SUBSET R, S # {}
      PROVE  Worst(S) \in Blasts(S) /\ \A c \in Blasts(S) : c <= Worst(S)
  <2>1. Blasts(S) \in SUBSET Nat /\ Blasts(S) # {}
    BY <1>4
  <2>2. IsFiniteSet(Blasts(S))
    <3> DEFINE m == [f \in S |-> f.blast]
    <3>1. Blasts(S) = {m[f] : f \in S}
      OBVIOUS
    <3> HIDE DEF m, Blasts
    <3>2. IsFiniteSet(S)
      BY FS_Subset
    <3>3. IsFiniteSet({m[f] : f \in S})
      BY ONLY <3>2, FiniteRange
    <3> QED
      BY <3>1, <3>3, Zenon
  <2> HIDE DEF Blasts
  <2>3. \E b \in Blasts(S) : \A c \in Blasts(S) : c <= b
    BY <2>1, <2>2, FiniteMax
  <2> QED
    BY <2>3
<1>5. /\ R # {} /\ Worst(R) \in Nat
      /\ T # {} => Worst(T) \in Nat /\ Worst(T) <= Worst(R)
  <2>1. R # {} /\ T \in SUBSET R /\ R \in SUBSET R
    OBVIOUS
  <2>2. Blasts(R) \subseteq Nat /\ Blasts(T) \subseteq Blasts(R)
    OBVIOUS
  <2> HIDE DEF T, Blasts, Worst
  <2> QED
    BY <1>4, <2>1, <2>2
<1> HIDE DEF low, medium, high, critical, esc, Worst, Blasts
<1>6. Least(Worst(R), 100) \in Nat
  BY <1>5 DEF Least
<1>7. T # {} => Least(Worst(T), 100) \in Nat /\ Least(Worst(T), 100) <= Least(Worst(R), 100)
  BY <1>5 DEF Least
<1> DEFINE lt == Least(Worst(T), 100)
           lr == Least(Worst(R), 100)
<1>8. /\ posture_load(R) = low(R) + medium(R) + high(R) + critical(R) + esc(R) + 400 * lr
      /\ T # {} => posture_load(T)
                      = low(T) + medium(T) + high(T) + critical(T) + esc(T) + 400 * lt
      /\ T = {} => posture_load(T) = 0
  <2> HIDE DEF T
  <2> QED
    BY <1>1, <1>5
<1> HIDE DEF lt, lr, T
<1>9. lr \in Nat /\ (T # {} => lt \in Nat /\ lt <= lr)
  BY <1>6, <1>7 DEF lt, lr
<1>10. posture_load(T) <= posture_load(R)
  BY <1>2, <1>3, <1>8, <1>9
<1> QED
  BY <1>10 DEF T

-----------------------------------------------------------------------------
\* What every completed run has: finitely many rows, one of each issue, and a
\* summary that adds up and counts what is new and resolved since the one before.
RowsOK(rows) ==
    /\ IsFiniteSet(rows)
    /\ OneRowPerIssue(rows)
    /\ \A row \in rows : row.risk \in 0 .. 100 /\ row.blast \in Nat
AddsUp(run) ==
    /\ run.summary.total = Cardinality(run.rows)
    /\ Sum(run.summary.severity) = run.summary.total
    /\ Sum(run.summary.category) = run.summary.total
First(run) == run.summary.new = NoCount /\ run.summary.resolved = NoCount
Counted(before, run) ==
    /\ run.summary.new = Gone(before.rows, run.rows)
    /\ run.summary.resolved = Gone(run.rows, before.rows)
RunsInv ==
    /\ \E S : scans \in Seq(S)
    /\ Len(scans) <= MaxScans
    /\ \A k \in 1 .. Len(scans) :
          /\ RowsOK(scans[k].rows) /\ AddsUp(scans[k])
          /\ k = 1 => First(scans[k])
          /\ k > 1 => Counted(scans[k - 1], scans[k])

LEMMA SameIssueIsPrint ==
    ASSUME NEW f, NEW g
    PROVE  SameIssue(f, g) <=> fingerprint(f) = fingerprint(g)
  BY DEF SameIssue, fingerprint

LEMMA ScannedRows ==
    ASSUME OrgTypeOK
    PROVE  RowsOK({FindingRow(f) : f \in Findings})
<1> DEFINE m == [f \in Findings |-> FindingRow(f)]
           rows == {FindingRow(f) : f \in Findings}
<1>1. IsFiniteSet(rows)
  <2>1. rows = {m[f] : f \in Findings}
    OBVIOUS
  <2> HIDE DEF m, rows
  <2>2. IsFiniteSet({m[f] : f \in Findings})
    BY FindingsFinite, FiniteRange
  <2> QED
    BY <2>1, <2>2, Zenon
<1>2. ASSUME NEW f \in Findings
      PROVE  /\ FindingRow(f).finding = f
             /\ FindingRow(f).risk \in 0 .. 100
             /\ FindingRow(f).blast \in Nat
  <2>1. BlastOf(f) \in Nat
    <3>1. CASE f.principal \in Principals
      BY <3>1, BlastIsNat DEF BlastOf
    <3>2. CASE f.principal \notin Principals
      BY <3>2 DEF BlastOf
    <3> QED
      BY <3>1, <3>2
  <2>2. risk_score(f, BlastOf(f)) \in 0 .. 100
    BY <2>1, FoundIsRegistered, RiskInRange
  <2> QED
    BY <2>1, <2>2 DEF FindingRow
<1>3. OneRowPerIssue(rows)
  <2> SUFFICES ASSUME NEW f \in Findings, NEW g \in Findings, SameIssue(f, g),
                      f.check # "denied_sensitive_iam"
               PROVE  f = g
    <3>1. \A x \in rows : \E f \in Findings : x = FindingRow(f) /\ x.finding = f
      BY <1>2
    <3> HIDE DEF rows
    <3> QED
      BY <3>1 DEF OneRowPerIssue
  <2>1. PICK C : Once(C) /\ f \in C /\ \A h \in Findings : h.check = f.check => h \in C
    BY FoundByCheck
  <2>2. g \in C
    BY <2>1 DEF SameIssue
  <2> QED
    BY <2>1, <2>2 DEF Once, SameIssue
<1>4. \A row \in rows : row.risk \in 0 .. 100 /\ row.blast \in Nat
  BY <1>2
<1> HIDE DEF rows
<1>5. RowsOK(rows)
  BY <1>1, <1>3, <1>4 DEF RowsOK
<1> QED
  BY <1>5 DEF rows

\* Every row has one severity and one category.
LEMMA KindsFinite == IsFiniteSet(Severities) /\ IsFiniteSet(Kinds)
<1>1. /\ IsFiniteSet({"LOW", "MEDIUM"}) /\ IsFiniteSet({"HIGH", "CRITICAL"})
      /\ IsFiniteSet({"identity", "hygiene"}) /\ IsFiniteSet({"credential", "inventory"})
      /\ IsFiniteSet({"log", "policy"}) /\ IsFiniteSet({"privilege"})
  <2>1. ASSUME NEW a, NEW b
        PROVE  IsFiniteSet({a, b})
    <3>1. {a, b} = {a} \cup {b}
      OBVIOUS
    <3>2. IsFiniteSet({a} \cup {b})
      BY FS_Singleton, FS_Union
    <3> QED
      BY <3>1, <3>2, Zenon
  <2> QED
    BY <2>1, FS_Singleton
<1>2. /\ IsFiniteSet({"LOW", "MEDIUM"} \cup {"HIGH", "CRITICAL"})
      /\ IsFiniteSet(({"identity", "hygiene"} \cup {"credential", "inventory"})
                     \cup ({"log", "policy"} \cup {"privilege"}))
  <2>1. /\ IsFiniteSet({"identity", "hygiene"} \cup {"credential", "inventory"})
        /\ IsFiniteSet({"log", "policy"} \cup {"privilege"})
    BY <1>1, FS_Union
  <2> QED
    BY <1>1, <2>1, FS_Union
<1>3. /\ Severities = {"LOW", "MEDIUM"} \cup {"HIGH", "CRITICAL"}
      /\ Kinds = ({"identity", "hygiene"} \cup {"credential", "inventory"})
                  \cup ({"log", "policy"} \cup {"privilege"})
  BY DEF Severities, Kinds
<1> QED
  BY <1>2, <1>3, Zenon

LEMMA ScannedAddsUp ==
    ASSUME OrgTypeOK, NEW rows, rows = {FindingRow(f) : f \in Findings}
    PROVE  AddsUp([rows |-> rows, summary |-> Summary(rows)])
<1> DEFINE cats == {Meta[k].category : k \in DOMAIN Meta}
           sev == [row \in rows |-> row.severity]
           cat == [row \in rows |-> Meta[row.finding.check].category]
           bySev == [s \in Severities |-> Cardinality({row \in rows : sev[row] = s})]
           byCat == [c \in cats |-> Cardinality({row \in rows : cat[row] = c})]
<1>1. IsFiniteSet(rows)
  BY ScannedRows DEF RowsOK
<1>2. ASSUME NEW row \in rows
      PROVE  sev[row] \in Severities /\ cat[row] \in cats
  <2>1. PICK f \in Findings : row = FindingRow(f)
    OBVIOUS
  <2>2. row.finding = f /\ row.severity = Meta[f.check].severity
    BY <2>1 DEF FindingRow
  <2>3. f.check \in DOMAIN Meta
    BY FoundIsRegistered
  <2>4. Meta[f.check].severity \in Severities
    BY <2>3, MetaIsThere
  <2> QED
    BY <2>2, <2>3, <2>4
<1>3. IsFiniteSet(Severities) /\ IsFiniteSet(cats)
  <2>1. cats \subseteq Kinds
    BY MetaIsThere
  <2> HIDE DEF cats
  <2> QED
    BY <2>1, KindsFinite, FS_Subset
<1>4. Sum(bySev) = Cardinality(rows)
  <2>1. \A row \in rows : sev[row] \in Severities
    BY <1>2
  <2> HIDE DEF sev
  <2>2. Sum([s \in Severities |-> Cardinality({row \in rows : sev[row] = s})]) = Cardinality(rows)
    BY ONLY <1>1, <1>3, <2>1, CountedByKey
  <2> QED
    BY <2>2
<1>5. Sum(byCat) = Cardinality(rows)
  <2>1. \A row \in rows : cat[row] \in cats
    BY <1>2
  <2> HIDE DEF cat, cats
  <2>2. Sum([c \in cats |-> Cardinality({row \in rows : cat[row] = c})]) = Cardinality(rows)
    BY ONLY <1>1, <1>3, <2>1, CountedByKey
  <2> QED
    BY <2>2
<1>6. /\ Summary(rows).total = Cardinality(rows)
      /\ Summary(rows).severity = bySev
      /\ Summary(rows).category = byCat
  <2>1. \A s : {row \in rows : sev[row] = s} = {row \in rows : row.severity = s}
    OBVIOUS
  <2>2. \A c : {row \in rows : cat[row] = c} = {row \in rows : Meta[row.finding.check].category = c}
    OBVIOUS
  <2> HIDE DEF sev, cat, cats
  <2> QED
    BY <2>1, <2>2 DEF Summary, Number, cats
<1> HIDE DEF bySev, byCat
<1> QED
  BY <1>4, <1>5, <1>6 DEF AddsUp

-----------------------------------------------------------------------------
LEMMA ScanKeepsRuns ==
    ASSUME OrgTypeOK, RunsInv, Scan
    PROVE  RunsInv'
<1> DEFINE rows == {FindingRow(f) : f \in Findings}
           run == [rows |-> rows, summary |-> Summary(rows)]
           n == Len(scans)
<1>1. PICK S : scans \in Seq(S)
  BY DEF RunsInv
<1>2. /\ scans' = Append(scans, run)
      /\ n < MaxScans
  BY DEF Scan
<1>3. RowsOK(run.rows) /\ AddsUp(run)
  <2>1. RowsOK(rows)
    BY ScannedRows
  <2>2. AddsUp(run)
    BY ScannedAddsUp
  <2> QED
    BY <2>1, <2>2
<1>4. n \in Nat /\ Len(scans') = n + 1 /\ Len(scans') <= MaxScans
  <2> HIDE DEF run
  <2>1. n \in Nat /\ Len(scans') = n + 1
    BY <1>1, <1>2
  <2> QED
    BY <1>2, <2>1, AnalysisAssumption
<1>5. /\ \A k \in 1 .. n : scans'[k] = scans[k]
      /\ scans'[n + 1] = run
  <2> HIDE DEF run
  <2> QED
    BY <1>1, <1>2
<1>6. scans' \in Seq(S \cup {run})
  <2> HIDE DEF run
  <2> QED
    BY <1>1, <1>2
<1>7. n = 0 => First(run)
  <2>1. n = 0 => scans = <<>>
    BY <1>1
  <2> QED
    BY <2>1 DEF First, Summary
<1>8. n > 0 => Counted(scans[n], run)
  <2>1. n > 0 => scans # <<>>
    BY <1>1
  <2> QED
    BY <2>1 DEF Counted, Summary, Newest
<1> HIDE DEF run, n
<1>9. ASSUME NEW k \in 1 .. Len(scans')
      PROVE  /\ RowsOK(scans'[k].rows) /\ AddsUp(scans'[k])
             /\ k = 1 => First(scans'[k])
             /\ k > 1 => Counted(scans'[k - 1], scans'[k])
  <2>1. CASE k = n + 1
    <3>1. k > 1 => n > 0 /\ k - 1 = n /\ n \in 1 .. n
      BY <1>4, <2>1
    <3>2. k > 1 => scans'[k - 1] = scans[n]
      BY <1>5, <3>1
    <3>3. scans'[k] = run /\ (k = 1 => n = 0)
      BY <1>4, <1>5, <2>1
    <3> QED
      BY <1>3, <1>7, <1>8, <3>1, <3>2, <3>3
  <2>2. CASE k # n + 1
    <3>1. k \in 1 .. n /\ (k > 1 => k - 1 \in 1 .. n)
      BY <1>4, <2>2
    <3>2. scans'[k] = scans[k] /\ (k > 1 => scans'[k - 1] = scans[k - 1])
      BY <1>5, <3>1
    <3>3. /\ RowsOK(scans[k].rows) /\ AddsUp(scans[k])
          /\ k = 1 => First(scans[k])
          /\ k > 1 => Counted(scans[k - 1], scans[k])
      BY <3>1 DEF RunsInv, n
    <3> QED
      BY <3>2, <3>3
  <2> QED
    BY <2>1, <2>2
<1> QED
  BY <1>4, <1>6, <1>9 DEF RunsInv

\* The invariant of the completed runs.
LEMMA RunsKept == Spec => []RunsInv
<1>1. Init => RunsInv
  <2> SUFFICES ASSUME scans = <<>> PROVE RunsInv
    BY DEF Init
  <2>1. scans \in Seq({}) /\ Len(scans) = 0
    OBVIOUS
  <2> QED
    BY <2>1, AnalysisAssumption DEF RunsInv
<1>2. OrgTypeOK /\ RunsInv /\ [Next]_vars => RunsInv'
  <2> SUFFICES ASSUME OrgTypeOK, RunsInv, [Next]_vars PROVE RunsInv'
    OBVIOUS
  <2>1. CASE Scan
    BY <2>1, ScanKeepsRuns
  <2>2. CASE UNCHANGED scans
    BY <2>2 DEF RunsInv
  <2> QED
    BY <2>1, <2>2 DEF Next, vars
<1> QED
  BY <1>1, <1>2, OrgTyped, PTL DEF Spec

LEMMA RunsInDomain == RunsInv => DOMAIN scans = 1 .. Len(scans) /\ Len(scans) \in Nat
  BY DEF RunsInv

\* What a run has that an earlier one has not is no more than it has.
LEMMA GoneBounded ==
    ASSUME NEW rows, IsFiniteSet(rows), NEW other
    PROVE  /\ IsFiniteSet(Fingerprints(rows))
           /\ Gone(other, rows) \in Nat /\ Gone(other, rows) <= Cardinality(rows)
<1> DEFINE m == [row \in rows |-> fingerprint(row.finding)]
<1>1. Fingerprints(rows) = {m[row] : row \in rows}
  BY DEF Fingerprints
<1> HIDE DEF m
<1>2. /\ IsFiniteSet({m[row] : row \in rows})
      /\ Cardinality({m[row] : row \in rows}) <= Cardinality(rows)
  BY FiniteRange
<1>3. /\ IsFiniteSet(Fingerprints(rows))
      /\ Cardinality(Fingerprints(rows)) <= Cardinality(rows)
  BY <1>1, <1>2, Zenon
<1> DEFINE gone == Fingerprints(rows) \ Fingerprints(other)
<1>4. gone \subseteq Fingerprints(rows)
  OBVIOUS
<1> HIDE DEF gone
<1>5. /\ IsFiniteSet(gone) /\ Cardinality(gone) <= Cardinality(Fingerprints(rows))
      /\ Cardinality(gone) \in Nat /\ Cardinality(Fingerprints(rows)) \in Nat
      /\ Cardinality(rows) \in Nat
  BY <1>3, <1>4, FS_Subset, FS_CardinalityType
<1> QED
  BY <1>3, <1>5 DEF Gone, gone

(***************************************************************************)
(* Of every organisation and however often it is scanned: a risk is        *)
(* between 0 and 100, a summary's counts by severity and by category add   *)
(* up to its total, and no more is new than was found.                     *)
(***************************************************************************)
THEOREM AnalysisTyped == Spec => []TypeOK
<1>1. OrgTypeOK /\ RunsInv => TypeOK
  <2> SUFFICES ASSUME OrgTypeOK, RunsInv PROVE TypeOK
    OBVIOUS
  <2>1. ASSUME NEW k \in DOMAIN scans
        PROVE  /\ \A row \in scans[k].rows : row.risk \in 0 .. 100
               /\ Sum(scans[k].summary.severity) = scans[k].summary.total
               /\ Sum(scans[k].summary.category) = scans[k].summary.total
               /\ scans[k].summary.new \in NoCount .. scans[k].summary.total
    <3>1. k \in 1 .. Len(scans) /\ k \in Nat
      BY RunsInDomain
    <3>2. /\ RowsOK(scans[k].rows) /\ AddsUp(scans[k])
          /\ k = 1 => First(scans[k])
          /\ k > 1 => Counted(scans[k - 1], scans[k])
      BY <3>1 DEF RunsInv
    <3>3. scans[k].summary.total = Cardinality(scans[k].rows) /\ scans[k].summary.total \in Nat
      BY <3>2, FS_CardinalityType DEF RowsOK, AddsUp
    <3>4. scans[k].summary.new \in NoCount .. scans[k].summary.total
      <4>1. CASE k = 1
        BY <3>2, <3>3, <4>1 DEF First, NoCount
      <4>2. CASE k > 1
        <5>1. Gone(scans[k - 1].rows, scans[k].rows) \in 0 .. scans[k].summary.total
          BY <3>2, <3>3, GoneBounded DEF RowsOK
        <5> QED
          BY <3>2, <3>3, <4>2, <5>1 DEF Counted, NoCount
      <4> QED
        BY <3>1, <4>1, <4>2
    <3> QED
      BY <3>2, <3>4 DEF RowsOK, AddsUp
  <2>2. Len(scans) <= MaxScans
    BY DEF RunsInv
  <2> QED
    BY <2>1, <2>2 DEF TypeOK, OrgTypeOK
<1> QED
  BY <1>1, OrgTyped, RunsKept, PTL

(***************************************************************************)
(* Resolving a finding never makes an account's posture worse, whatever    *)
(* the mix of severities it is taken from.                                 *)
(***************************************************************************)
THEOREM ClearingHelps == Spec => []ClearingNeverHurts
<1>1. RunsInv => ClearingNeverHurts
  <2> SUFFICES ASSUME RunsInv, NEW k \in DOMAIN scans, NEW row \in scans[k].rows
               PROVE  posture_load(scans[k].rows \ {row}) <= posture_load(scans[k].rows)
    BY DEF ClearingNeverHurts
  <2>1. RowsOK(scans[k].rows)
    BY RunsInDomain DEF RunsInv
  <2> QED
    BY <2>1, LoadFalls DEF RowsOK
<1> QED
  BY <1>1, RunsKept, PTL

-----------------------------------------------------------------------------
\* Of each issue of a run one row is kept.
LEMMA KeptRow ==
    ASSUME NEW rows, NEW fp \in Fingerprints(rows)
    PROVE  /\ _findings_by_fingerprint(rows)[fp] \in rows
           /\ fingerprint(_findings_by_fingerprint(rows)[fp].finding) = fp
<1>1. \E row \in rows : fingerprint(row.finding) = fp
  BY DEF Fingerprints
<1>2. _findings_by_fingerprint(rows)[fp] = CHOOSE row \in rows : fingerprint(row.finding) = fp
  BY DEF _findings_by_fingerprint
<1> QED
  BY <1>1, <1>2

\* The cards of the issues in one run that are not in another.
Cards(rows, other) ==
    {_findings_by_fingerprint(rows)[fp] : fp \in Fingerprints(rows) \ Fingerprints(other)}

LEMMA OnlyPrints ==
    ASSUME NEW rows, NEW other
    PROVE  \A row \in rows :
              row \in Only(rows, other) <=> fingerprint(row.finding) \notin Fingerprints(other)
<1>1. ASSUME NEW row \in rows
      PROVE  (\E x \in other : SameIssue(row.finding, x.finding))
                <=> fingerprint(row.finding) \in Fingerprints(other)
  <2>1. \A x \in other : SameIssue(row.finding, x.finding)
                            <=> fingerprint(row.finding) = fingerprint(x.finding)
    BY SameIssueIsPrint
  <2> QED
    BY <2>1 DEF Fingerprints
<1> QED
  BY <1>1 DEF Only

LEMMA CardsAreOnly ==
    ASSUME NEW rows, IsFiniteSet(rows), NEW other
    PROVE  /\ Cards(rows, other) \subseteq Only(rows, other)
           /\ Fingerprints(Cards(rows, other)) = Fingerprints(Only(rows, other))
           /\ Cardinality(Cards(rows, other)) = Gone(other, rows)
<1> DEFINE keyed == _findings_by_fingerprint(rows)
           new == Fingerprints(rows) \ Fingerprints(other)
           C == Cards(rows, other)
           print == [row \in C |-> fingerprint(row.finding)]
<1>1. \A fp \in new : keyed[fp] \in rows /\ fingerprint(keyed[fp].finding) = fp
  BY KeptRow
<1>2. C = {keyed[fp] : fp \in new}
  BY DEF Cards
<1> HIDE DEF keyed, C
<1>3. C \subseteq Only(rows, other)
  BY <1>1, <1>2, OnlyPrints
<1>4. Fingerprints(C) = new
  <2>1. Fingerprints(C) = {fingerprint(row.finding) : row \in C}
    BY DEF Fingerprints
  <2> HIDE DEF new
  <2> QED
    BY <1>1, <1>2, <2>1
<1>5. Fingerprints(Only(rows, other)) = new
  <2>1. \A row \in Only(rows, other) : row \in rows
    BY DEF Only
  <2>2. ASSUME NEW fp \in Fingerprints(Only(rows, other)) PROVE fp \in new
    BY <2>1, <2>2, OnlyPrints DEF Fingerprints
  <2>3. ASSUME NEW fp \in new PROVE fp \in Fingerprints(Only(rows, other))
    <3>1. keyed[fp] \in Only(rows, other)
      BY <1>2, <1>3
    <3> QED
      BY <1>1, <3>1 DEF Fingerprints
  <2> QED
    BY <2>2, <2>3
<1>6. Cardinality(C) = Cardinality(new)
  <2>1. IsFiniteSet(new)
    <3>1. IsFiniteSet(Fingerprints(rows)) /\ new \subseteq Fingerprints(rows)
      BY GoneBounded
    <3> HIDE DEF new
    <3> QED
      BY <3>1, FS_Subset
  <2>2. new = {print[row] : row \in C}
    BY <1>4 DEF Fingerprints
  <2> HIDE DEF new, print
  <2>3. IsFiniteSet({keyed[fp] : fp \in new}) /\ Cardinality({keyed[fp] : fp \in new}) <= Cardinality(new)
    BY ONLY <2>1, FiniteRange
  <2>4. IsFiniteSet(C) /\ Cardinality(C) <= Cardinality(new)
    BY <1>2, <2>3, Zenon
  <2>5. Cardinality({print[row] : row \in C}) <= Cardinality(C)
    BY ONLY <2>4, FiniteRange
  <2>6. Cardinality(new) <= Cardinality(C)
    BY <2>2, <2>5, Zenon
  <2> QED
    BY <2>1, <2>4, <2>6, FS_CardinalityType
<1>7. Cardinality(new) = Gone(other, rows)
  BY DEF Gone
<1> QED
  BY <1>3, <1>4, <1>5, <1>6, <1>7 DEF C

-----------------------------------------------------------------------------
\* The risk of a run's kept rows: of those the other run does not have, and of
\* those it has too.
RiskOf(rows) == [fp \in Fingerprints(rows) |-> _findings_by_fingerprint(rows)[fp].risk]

LEMMA RisksSplit ==
    ASSUME NEW rows, RowsOK(rows), NEW other
    PROVE  /\ \A fp \in Fingerprints(rows) : RiskOf(rows)[fp] \in Int
           /\ Risk(Cards(rows, other)) \in Int
           /\ SumOver(RiskOf(rows), Fingerprints(rows) \cap Fingerprints(other)) \in Int
           /\ TotalRisk(_findings_by_fingerprint(rows))
                 = Risk(Cards(rows, other))
                   + SumOver(RiskOf(rows), Fingerprints(rows) \cap Fingerprints(other))
<1> DEFINE keyed == _findings_by_fingerprint(rows)
           F == Fingerprints(rows)
           new == F \ Fingerprints(other)
           both == F \cap Fingerprints(other)
           C == Cards(rows, other)
           r == RiskOf(rows)
           risk == [row \in C |-> row.risk]
<1>1. IsFiniteSet(F) /\ IsFiniteSet(new) /\ IsFiniteSet(both)
  <2>1. IsFiniteSet(F) /\ new \subseteq F /\ both \subseteq F
    BY GoneBounded DEF RowsOK
  <2> HIDE DEF F, new, both
  <2> QED
    BY <2>1, FS_Subset
<1>2. \A fp \in F : /\ r[fp] = keyed[fp].risk /\ r[fp] \in Int
                    /\ keyed[fp] \in rows /\ fingerprint(keyed[fp].finding) = fp
  <2>1. \A fp \in F : keyed[fp] \in rows /\ fingerprint(keyed[fp].finding) = fp
    BY KeptRow
  <2>2. \A row \in rows : row.risk \in Int
    BY DEF RowsOK
  <2>3. \A fp \in F : r[fp] = keyed[fp].risk
    BY DEF RiskOf
  <2> HIDE DEF keyed, F, r
  <2> QED
    BY <2>1, <2>2, <2>3
<1>3. C = {keyed[fp] : fp \in new}
  BY DEF Cards
<1>4. TotalRisk(keyed) = SumOver(r, F)
  <2>1. DOMAIN keyed = F
    BY DEF _findings_by_fingerprint
  <2>2. [fp \in F |-> r[fp]] = [fp \in DOMAIN keyed |-> keyed[fp].risk]
    BY <1>2, <2>1
  <2> HIDE DEF keyed, F, r
  <2> QED
    BY <2>2, Zenon DEF TotalRisk, SumOver
<1>5. F = new \cup both /\ new \cap both = {} /\ new \subseteq F /\ both \subseteq F
  OBVIOUS
<1> HIDE DEF keyed, F, new, both, C, r
<1>6. SumOver(r, new \cup both) = SumOver(r, new) + SumOver(r, both)
  BY <1>1, <1>2, <1>5, SumOverUnion
<1>7. SumOver(r, F) = SumOver(r, new) + SumOver(r, both)
  BY <1>5, <1>6, Zenon
<1>8. SumOver(r, new) \in Int /\ SumOver(r, both) \in Int
  BY <1>1, <1>2, <1>5, SumOverIsInt
<1>9. Risk(C) = SumOver(r, new)
  <2>1. \A fp, fq \in new : keyed[fp] = keyed[fq] => fp = fq
    BY <1>2, <1>5
  <2>2. \A fp \in new : r[fp] = risk[keyed[fp]] /\ r[fp] \in Int
    BY <1>2, <1>3, <1>5
  <2>3. Risk(C) = SumOver(risk, C)
    <3>1. [row \in C |-> risk[row]] = [row \in C |-> row.risk]
      OBVIOUS
    <3> HIDE DEF risk
    <3> QED
      BY <3>1, Zenon DEF Risk, SumOver
  <2> HIDE DEF risk
  <2>4. SumOver(risk, {keyed[fp] : fp \in new}) = SumOver(r, new)
    BY ONLY <1>1, <2>1, <2>2, SumOverImage
  <2> QED
    BY <1>3, <2>3, <2>4, Zenon
<1>10. /\ \A fp \in F : r[fp] \in Int
       /\ Risk(C) \in Int /\ SumOver(r, both) \in Int
       /\ TotalRisk(keyed) = Risk(C) + SumOver(r, both)
  BY <1>2, <1>4, <1>7, <1>8, <1>9
<1> QED
  BY <1>10 DEF keyed, F, both, C, r

\* What the cards of a comparison explain is the whole change of the risk.
LEMMA CardsExplain ==
    ASSUME NEW old, RowsOK(old), NEW recent, RowsOK(recent)
    PROVE  Explained(RunDiff(_findings_by_fingerprint(old), _findings_by_fingerprint(recent)))
<1> DEFINE O == _findings_by_fingerprint(old)
           N == _findings_by_fingerprint(recent)
           both == Fingerprints(old) \cap Fingerprints(recent)
           ro == RiskOf(old)
           rn == RiskOf(recent)
           delta == [fp \in both |-> rn[fp] - ro[fp]]
           moved == {x \in both : has_changes(O[x], N[x])}
           pairs == {<<O[fp], N[fp]>> : fp \in moved}
           change == [pair \in pairs |-> pair[2].risk - pair[1].risk]
           d == RunDiff(O, N)
<1>1. DOMAIN O = Fingerprints(old) /\ DOMAIN N = Fingerprints(recent)
  BY DEF _findings_by_fingerprint
<1>2. /\ d.new = Cards(recent, old) /\ d.resolved = Cards(old, recent)
      /\ d.changed = pairs /\ d.net_risk = TotalRisk(N) - TotalRisk(O)
  <2> HIDE DEF O, N
  <2>1. DOMAIN O \cap DOMAIN N = both
    BY <1>1
  <2>2. /\ d.new = {N[fp] : fp \in Fingerprints(recent) \ Fingerprints(old)}
        /\ d.resolved = {O[fp] : fp \in Fingerprints(old) \ Fingerprints(recent)}
        /\ d.net_risk = TotalRisk(N) - TotalRisk(O)
    BY <1>1 DEF RunDiff
  <2>3. d.changed = {<<O[fp], N[fp]>> : fp \in {x \in DOMAIN O \cap DOMAIN N : has_changes(O[x], N[x])}}
    BY DEF RunDiff
  <2>4. d.changed = pairs
    BY <2>1, <2>3
  <2> QED
    BY <2>2, <2>4 DEF Cards, O, N
<1>3. \A fp \in both : /\ ro[fp] = O[fp].risk /\ ro[fp] \in Int
                       /\ rn[fp] = N[fp].risk /\ rn[fp] \in Int
  <2>1. /\ \A fp \in Fingerprints(old) : ro[fp] = O[fp].risk
        /\ \A fp \in Fingerprints(recent) : rn[fp] = N[fp].risk
    BY DEF RiskOf
  <2>2. /\ \A fp \in Fingerprints(old) : ro[fp] \in Int
        /\ \A fp \in Fingerprints(recent) : rn[fp] \in Int
    BY RisksSplit
  <2> HIDE DEF O, N, ro, rn
  <2> QED
    BY <2>1, <2>2
<1>4. IsFiniteSet(both) /\ IsFiniteSet(moved) /\ IsFiniteSet(both \ moved)
  <2>1. IsFiniteSet(Fingerprints(old)) /\ both \subseteq Fingerprints(old) /\ moved \subseteq both
    BY GoneBounded DEF RowsOK
  <2> HIDE DEF both, moved
  <2> QED
    BY <2>1, FS_Subset
<1>5. \A fp \in both : /\ delta[fp] = rn[fp] - ro[fp] /\ delta[fp] \in Int
                       /\ delta[fp] = N[fp].risk - O[fp].risk
  <2> HIDE DEF both, O, N, ro, rn
  <2> QED
    BY <1>3
<1>6. \A fp \in both \ moved : delta[fp] = 0
  <2>1. \A fp \in both \ moved : O[fp].risk = N[fp].risk
    BY DEF has_changes
  <2> HIDE DEF both, O, N, ro, rn, moved, delta
  <2> QED
    BY <1>3, <1>5, <2>1
<1>7. both = moved \cup (both \ moved) /\ moved \cap (both \ moved) = {} /\ moved \subseteq both
  OBVIOUS
<1>8. \A fp, fq \in moved : <<O[fp], N[fp]>> = <<O[fq], N[fq]>> => fp = fq
  <2>1. \A fp \in both : fingerprint(O[fp].finding) = fp
    BY KeptRow
  <2> HIDE DEF both, O, N
  <2> QED
    BY <2>1, <1>7
<1> HIDE DEF O, N, both, ro, rn, delta, moved, d
<1>9. SumOver(delta, both) = SumOver(rn, both) - SumOver(ro, both)
  BY <1>3, <1>4, <1>5, SumOverDifference
<1>10. SumOver(delta, both) = SumOver(delta, moved)
  <2>1. \A fp \in moved \cup (both \ moved) : delta[fp] \in Int
    BY <1>5, <1>7
  <2>2. SumOver(delta, moved \cup (both \ moved)) = SumOver(delta, moved) + SumOver(delta, both \ moved)
    BY <1>4, <1>7, <2>1, SumOverUnion
  <2>3. SumOver(delta, both \ moved) = 0
    BY <1>4, <1>6, SumOverNothing
  <2>4. SumOver(delta, moved) \in Int
    BY <1>4, <2>1, SumOverIsInt
  <2>5. SumOver(delta, both) = SumOver(delta, moved \cup (both \ moved))
    BY <1>7, Zenon
  <2> QED
    BY <2>2, <2>3, <2>4, <2>5
<1>11. Sum(change) = SumOver(delta, moved)
  <2> DEFINE pr == [fp \in moved |-> <<O[fp], N[fp]>>]
  <2>1. pairs = {pr[fp] : fp \in moved}
    OBVIOUS
  <2>2. \A fp, fq \in moved : pr[fp] = pr[fq] => fp = fq
    BY <1>8
  <2>3. ASSUME NEW fp \in moved
        PROVE  delta[fp] = change[pr[fp]] /\ delta[fp] \in Int
    <3>1. pr[fp] = <<O[fp], N[fp]>> /\ pr[fp] \in pairs
      OBVIOUS
    <3>2. change[pr[fp]] = N[fp].risk - O[fp].risk
      <4>1. change[pr[fp]] = pr[fp][2].risk - pr[fp][1].risk
        <5> HIDE DEF pairs, pr
        <5> QED
          BY <3>1
      <4> QED
        BY <3>1, <4>1
    <3> QED
      BY <1>5, <1>7, <3>2
  <2>4. SumOver(change, pairs) = Sum(change)
    <3>1. [pair \in pairs |-> change[pair]] = change
      OBVIOUS
    <3> HIDE DEF change, pairs
    <3> QED
      BY <3>1, Zenon DEF SumOver
  <2> HIDE DEF change, pairs, pr
  <2>5. SumOver(change, {pr[fp] : fp \in moved}) = SumOver(delta, moved)
    BY ONLY <1>4, <2>2, <2>3, SumOverImage
  <2> QED
    BY <2>1, <2>4, <2>5, Zenon
<1>12. /\ TotalRisk(N) = Risk(Cards(recent, old)) + SumOver(rn, both)
       /\ Risk(Cards(recent, old)) \in Int /\ SumOver(rn, both) \in Int
  <2>1. Fingerprints(recent) \cap Fingerprints(old) = both
    BY DEF both
  <2> QED
    BY <2>1, RisksSplit DEF N, rn
<1>13. /\ TotalRisk(O) = Risk(Cards(old, recent)) + SumOver(ro, both)
       /\ Risk(Cards(old, recent)) \in Int /\ SumOver(ro, both) \in Int
  BY RisksSplit DEF O, ro, both
<1>14. TotalRisk(N) - TotalRisk(O)
          = Risk(Cards(recent, old)) - Risk(Cards(old, recent)) + Sum(change)
  <2> HIDE DEF change
  <2> QED
    BY <1>9, <1>10, <1>11, <1>12, <1>13
<1>15. Sum(change) = Sum([pair \in d.changed |-> pair[2].risk - pair[1].risk])
  BY <1>2, Zenon
<1>16. d.net_risk = Risk(d.new) - Risk(d.resolved)
                    + Sum([pair \in d.changed |-> pair[2].risk - pair[1].risk])
  <2> HIDE DEF change
  <2> QED
    BY <1>2, <1>14, <1>15
<1>17. Explained(d)
  BY <1>16 DEF Explained
<1> QED
  BY <1>17 DEF d, O, N

-----------------------------------------------------------------------------
(***************************************************************************)
(* However the organisation changed between them, the comparison of two    *)
(* runs accounts for every row of both: no issue of both is a new or a     *)
(* resolved card, the cards explain the net risk, and the stored counts of *)
(* the newest run are those of the board the strip leads to.               *)
(***************************************************************************)
THEOREM DiffAccounts == Spec => []DiffAccountsForRuns
<1>1. ASSUME RunsInv PROVE DiffAccountsForRuns
  <2>0. Len(scans) \in Nat /\ \A k \in DOMAIN scans : k \in 1 .. Len(scans) /\ k \in Nat
    BY <1>1, RunsInDomain
  <2>1. \A k \in DOMAIN scans : RowsOK(scans[k].rows)
    BY <1>1, <2>0 DEF RunsInv
  <2>2. ASSUME NEW a \in DOMAIN scans, NEW b \in DOMAIN scans, a < b
        PROVE  /\ diff(a, b) = RunDiff(_findings_by_fingerprint(scans[a].rows),
                                       _findings_by_fingerprint(scans[b].rows))
               /\ diff(b, a) = diff(a, b)
    <3>1. Least(a, b) = a /\ Least(b, a) = a /\ a + b - a = b /\ b + a - a = b
      BY <2>0, <2>2 DEF Least
    <3>2. /\ diff(a, b) = RunDiff(_findings_by_fingerprint(scans[a].rows),
                                  _findings_by_fingerprint(scans[a + b - a].rows))
          /\ diff(b, a) = RunDiff(_findings_by_fingerprint(scans[a].rows),
                                  _findings_by_fingerprint(scans[b + a - a].rows))
      BY <3>1, Zenon DEF diff
    <3> QED
      BY <3>1, <3>2, Zenon
  <2>3. ASSUME NEW a \in DOMAIN scans, NEW b \in DOMAIN scans, a < b
        PROVE  /\ diff(a, b).new = Cards(scans[b].rows, scans[a].rows)
               /\ diff(a, b).resolved = Cards(scans[a].rows, scans[b].rows)
    <3> DEFINE O == _findings_by_fingerprint(scans[a].rows)
               N == _findings_by_fingerprint(scans[b].rows)
    <3>1. DOMAIN O = Fingerprints(scans[a].rows) /\ DOMAIN N = Fingerprints(scans[b].rows)
      BY DEF _findings_by_fingerprint
    <3>2. diff(a, b) = RunDiff(O, N)
      BY <2>2, <2>3
    <3> HIDE DEF O, N
    <3>3. /\ diff(a, b).new = {N[fp] : fp \in DOMAIN N \ DOMAIN O}
          /\ diff(a, b).resolved = {O[fp] : fp \in DOMAIN O \ DOMAIN N}
      BY <3>2 DEF RunDiff
    <3> QED
      BY <3>1, <3>3 DEF Cards, O, N
  <2>4. ASSUME NEW a \in DOMAIN scans, NEW b \in DOMAIN scans, a < b
        PROVE  LET old == scans[a].rows  recent == scans[b].rows  d == diff(a, b)
               IN  /\ diff(b, a) = d
                   /\ d.new \subseteq Only(recent, old)
                   /\ Fingerprints(d.new) = Fingerprints(Only(recent, old))
                   /\ d.resolved \subseteq Only(old, recent)
                   /\ Fingerprints(d.resolved) = Fingerprints(Only(old, recent))
                   /\ Explained(d)
    <3> DEFINE old == scans[a].rows
               recent == scans[b].rows
    <3>1. RowsOK(old) /\ RowsOK(recent)
      BY <2>1
    <3>2. /\ Cards(recent, old) \subseteq Only(recent, old)
          /\ Fingerprints(Cards(recent, old)) = Fingerprints(Only(recent, old))
          /\ Cards(old, recent) \subseteq Only(old, recent)
          /\ Fingerprints(Cards(old, recent)) = Fingerprints(Only(old, recent))
      BY <3>1, CardsAreOnly DEF RowsOK
    <3>3. Explained(diff(a, b))
      <4>1. Explained(RunDiff(_findings_by_fingerprint(old), _findings_by_fingerprint(recent)))
        BY <3>1, CardsExplain
      <4> QED
        BY <2>2, <2>4, <4>1, Zenon
    <3>4. diff(a, b).new = Cards(recent, old) /\ diff(a, b).resolved = Cards(old, recent)
      BY <2>3, <2>4
    <3>5. diff(b, a) = diff(a, b)
      BY <2>2, <2>4
    <3> HIDE DEF old, recent
    <3>6. /\ diff(a, b).new \subseteq Only(recent, old)
          /\ Fingerprints(diff(a, b).new) = Fingerprints(Only(recent, old))
          /\ diff(a, b).resolved \subseteq Only(old, recent)
          /\ Fingerprints(diff(a, b).resolved) = Fingerprints(Only(old, recent))
      BY <3>2, <3>4, Zenon
    <3> QED
      BY <3>3, <3>5, <3>6 DEF old, recent
  <2>5. ASSUME Len(scans) > 1
        PROVE  /\ _since_last_scan.new = Cardinality(_since_last_scan.board.new)
               /\ _since_last_scan.resolved = Cardinality(_since_last_scan.board.resolved)
    <3> DEFINE b == Len(scans)
               a == b - 1
    <3>1. a \in DOMAIN scans /\ b \in DOMAIN scans /\ a < b
      BY <1>1, <2>0, <2>5, RunsInDomain
    <3>2. /\ scans[b].summary.new = Gone(scans[a].rows, scans[b].rows)
          /\ scans[b].summary.resolved = Gone(scans[b].rows, scans[a].rows)
      BY <1>1, <2>0, <2>5 DEF RunsInv, Counted
    <3>3. /\ _since_last_scan.new = scans[b].summary.new
          /\ _since_last_scan.resolved = scans[b].summary.resolved
          /\ _since_last_scan.board = diff(a, b)
      BY DEF _since_last_scan
    <3> HIDE DEF a, b
    <3>4. /\ Cardinality(Cards(scans[b].rows, scans[a].rows)) = Gone(scans[a].rows, scans[b].rows)
          /\ Cardinality(Cards(scans[a].rows, scans[b].rows)) = Gone(scans[b].rows, scans[a].rows)
      BY <2>1, <3>1, CardsAreOnly DEF RowsOK
    <3>5. /\ diff(a, b).new = Cards(scans[b].rows, scans[a].rows)
          /\ diff(a, b).resolved = Cards(scans[a].rows, scans[b].rows)
      BY <2>3, <3>1
    <3> QED
      BY <3>2, <3>3, <3>4, <3>5, Zenon
  <2>6. \A k \in DOMAIN scans : OneRowPerIssue(scans[k].rows)
    BY <2>1 DEF RowsOK
  <2> QED
    BY <2>4, <2>5, <2>6 DEF DiffAccountsForRuns
<1> QED
  BY <1>1, RunsKept, PTL
=============================================================================
