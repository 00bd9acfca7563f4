------------------------- MODULE NauCalculator_proofs -------------------------
(***************************************************************************)
(* Theorems about NauCalculator, for every account, every page size and    *)
(* any number of changes during the calculation.                           *)
(***************************************************************************)
EXTENDS NauCalculator, FiniteSetTheorems, TLAPS

-----------------------------------------------------------------------------
(* The inductive invariant.                                                *)

\* A VPC is being worked on.
Working == pc \notin {"vpcs", "done", "failed"}

\* The resources whose units are the VPC's.
Part(v, S) ==
  {x \in S : x.kind \in {"eni", "nat", "endpoint", "lb", "attachment"} /\ x.vpc = v}
  \cup {x \in OfKind("mount", S) : x.subnet \in Ids(In(v, OfKind("subnet", ever)))}

\* What was there all along has all it needs.
Closed == \A x \in always : x.needs \subseteq Ids(always)

\* The paginators; the one of a sum is fresh between two sums.
Pagers ==
  /\ \A p \in {vpcPager, pager, fsPager} :
       p \in [seen : SUBSET Inventory, more : BOOLEAN]
  /\ pc \in {"vpcs", "nat", "endpoint", "subnet", "fs"} => pager = NewPager

\* The VPCs listed so far are waiting, done or being worked on.
VpcsListed ==
  /\ vpcPager.seen \subseteq OfKind("vpc", ever)
  /\ ~vpcPager.more => OfKind("vpc", always) \subseteq vpcPager.seen
  /\ pc # "failed" => Ids(vpcPager.seen) = vpcTodo \cup DOMAIN out \cup (IF Working THEN {vpc} ELSE {})
  /\ pc = "done" => vpcTodo = {} /\ ~vpcPager.more

\* The subnets of the VPC, and the file systems of the region.
MountsAsked ==
  /\ pc \notin {"fs", "mount", "failed"} => fsTodo = {}
  /\ pc \in {"fs", "mount"} =>
       /\ fsPager.seen \subseteq OfKind("fs", ever)
       /\ ~fsPager.more => OfKind("fs", always) \subseteq fsPager.seen
       /\ fsTodo \subseteq Ids(fsPager.seen)
       /\ subnets \subseteq Ids(In(vpc, OfKind("subnet", ever)))
       /\ vpc \in cut \/ Ids(In(vpc, OfKind("subnet", always))) \subseteq subnets
  /\ pc = "mount" => fs \in Ids(fsPager.seen) \ fsTodo

\* The kinds whose sums are complete.
Behind ==
  CASE pc = "eni" -> {}
    [] pc = "nat" -> {"eni"}
    [] pc = "endpoint" -> {"eni", "nat"}
    [] pc = "lb" -> {"eni", "nat", "endpoint"}
    [] pc = "attachment" -> {"eni", "nat", "endpoint", "lb"}
    [] OTHER -> {"eni", "nat", "endpoint", "lb", "attachment"}

\* The calculation has listed x, or what it listed was without x.
HadMount(x) ==
  /\ pc \in {"fs", "mount"}
  /\ x.fs \in Ids(fsPager.seen) \ fsTodo
  /\ pc = "mount" /\ x.fs = fs => x \in pager.seen
Had(x) ==
  \/ x.kind # "mount" /\ x.kind \in Behind
  \/ x.kind # "mount" /\ x.kind = pc /\ x \in pager.seen
  \/ x.kind = "mount" /\ HadMount(x)

\* What the total may count, and what it must.
Possible == {x \in Part(vpc, ever) : Had(x)}
Certain == {x \in Part(vpc, always) : Had(x)}

\* The total is the units of some of these resources, each counted once.
Counted ==
  Working => \E C \in SUBSET Possible : total = Units(C) /\ (vpc \in cut \/ Certain \subseteq C)

\* A finished VPC has its result between what was always and what was ever there.
Bounded ==
  \A v \in DOMAIN out : /\ out[v] <= NauOf(v, ever)
                        /\ v \in cut \/ NauOf(v, always) <= out[v]

\* What is being worked on is there or was.
Known ==
  /\ vpcTodo \subseteq Ids(OfKind("vpc", ever))
  /\ Working => vpc \in Ids(OfKind("vpc", ever))

NauInv ==
  TypeOK /\ Known /\ Closed /\ Pagers /\ VpcsListed /\ MountsAsked /\ Counted /\ Bounded

-----------------------------------------------------------------------------
(* Sums over sets.  The library's induction theorems take an operator; its *)
(* theorem that strict inclusion is well-founded takes none, and yields a  *)
(* smallest counterexample.                                                *)

\* A nonempty collection of sets of resources has a smallest one.
LEMMA SmallestSet ==
  ASSUME NEW C, C \subseteq SUBSET Inventory, C # {}
  PROVE  \E S \in C : \A T \in C : T \subseteq S => T = S
<1>1. IsWellFoundedOn(StrictSubsetOrdering(Inventory), FiniteSubsetsOf(Inventory))
  BY FS_StrictSubsetOrderingWellFounded
<1>2. C \subseteq FiniteSubsetsOf(Inventory)
  BY FS_FiniteSubsetsOfFinite, NauAssumption
<1>3. \E S \in C : \A T \in C : ~(<<T, S>> \in StrictSubsetOrdering(Inventory))
  BY <1>1, <1>2, WFMin
<1> QED BY <1>3 DEF StrictSubsetOrdering

\* The element the fold takes first, and the equation of the fold.
First(s) == CHOOSE x \in s : TRUE
Folds(g, S) ==
  g = [s \in SUBSET S |-> IF s = {} THEN 0 ELSE UnitsOf(First(s)) + g[s \ {First(s)}]]

\* The first element is one of the set.
LEMMA FirstIn == ASSUME NEW s, s # {} PROVE First(s) \in s
  BY DEF First

\* Units is the fold.
LEMMA UnitsIsFold == ASSUME NEW S PROVE Units(S) = (CHOOSE g : Folds(g, S))[S]
  BY DEF Units, MapThenSumSet, MapThenFoldSet, Folds, First

\* Two folds agree where both are defined.
LEMMA FoldsAgree ==
  ASSUME NEW g, NEW h, NEW S \in SUBSET Inventory, NEW T \in SUBSET Inventory,
         Folds(g, S), Folds(h, T), NEW s \in SUBSET (S \cap T)
  PROVE  g[s] = h[s]
<1> DEFINE C == {t \in SUBSET (S \cap T) : g[t] # h[t]}
<1> SUFFICES ASSUME C # {} PROVE FALSE
  OBVIOUS
<1>0. C \subseteq SUBSET Inventory
  OBVIOUS
<1>1. PICK t \in C : \A u \in C : u \subseteq t => u = t
  <2> HIDE DEF C
  <2> QED BY <1>0, SmallestSet
<1>2. /\ g[t] = IF t = {} THEN 0 ELSE UnitsOf(First(t)) + g[t \ {First(t)}]
      /\ h[t] = IF t = {} THEN 0 ELSE UnitsOf(First(t)) + h[t \ {First(t)}]
  BY <1>1 DEF Folds
<1>3. t # {}
  BY <1>1, <1>2
<1>4. t \ {First(t)} \notin C
  BY <1>1, <1>3, FirstIn
<1>5. g[t \ {First(t)}] = h[t \ {First(t)}]
  BY <1>1, <1>4
<1> QED BY <1>1, <1>2, <1>3, <1>5

\* Every set of resources has a fold.
LEMMA FoldExists == ASSUME NEW S \in SUBSET Inventory PROVE \E g : Folds(g, S)
<1> DEFINE C == {T \in SUBSET Inventory : ~\E g : Folds(g, T)}
<1> SUFFICES ASSUME C # {} PROVE FALSE
  OBVIOUS
<1>0. C \subseteq SUBSET Inventory
  OBVIOUS
<1>1. PICK T \in C : \A U \in C : U \subseteq T => U = T
  <2> HIDE DEF C
  <2> QED BY <1>0, SmallestSet
<1> DEFINE G(U) == CHOOSE g : Folds(g, U)
           F == [s \in SUBSET T |-> IF s = {} THEN 0
                                    ELSE UnitsOf(First(s)) + G(s \ {First(s)})[s \ {First(s)}]]
<1>2. \A U \in SUBSET T : U # T => Folds(G(U), U)
  BY <1>1
<1>3. \A U \in SUBSET T : U # T => G(U)[U] = F[U]
  <2> SUFFICES ASSUME NEW U \in SUBSET T, U # T PROVE G(U)[U] = F[U]
    OBVIOUS
  <2>1. G(U)[U] = IF U = {} THEN 0 ELSE UnitsOf(First(U)) + G(U)[U \ {First(U)}]
    <3> HIDE DEF G
    <3> QED BY <1>2 DEF Folds
  <2>2. CASE U = {}
    BY <2>1, <2>2
  <2>3. CASE U # {}
    <3> DEFINE V == U \ {First(U)}
    <3>1. V \in SUBSET U /\ V # T /\ V \in SUBSET T /\ U \in SUBSET Inventory
      BY <1>1, <2>3, FirstIn
    <3>2. Folds(G(U), U) /\ Folds(G(V), V)
      BY <1>2, <3>1
    <3> HIDE DEF G, V
    <3>3. G(U)[V] = G(V)[V]
      BY <3>1, <3>2, FoldsAgree
    <3> QED BY <2>1, <2>3, <3>3 DEF V
  <2> QED BY <2>2, <2>3
<1>4. F = [s \in SUBSET T |-> IF s = {} THEN 0 ELSE UnitsOf(First(s)) + F[s \ {First(s)}]]
  <2>1. \A s \in SUBSET T : s # {} => s \ {First(s)} \in SUBSET T /\ s \ {First(s)} # T
    BY FirstIn
  <2> HIDE DEF G
  <2>2. \A s \in SUBSET T : s # {} => G(s \ {First(s)})[s \ {First(s)}] = F[s \ {First(s)}]
    BY <1>3, <2>1
  <2> QED BY <2>2
<1>5. Folds(F, T)
  BY <1>4 DEF Folds
<1> QED BY <1>1, <1>5

\* The equation of the sum.
LEMMA UnitsEquation ==
  ASSUME NEW S \in SUBSET Inventory
  PROVE  Units(S) = IF S = {} THEN 0 ELSE UnitsOf(First(S)) + Units(S \ {First(S)})
<1> DEFINE G(U) == CHOOSE g : Folds(g, U)
<1>1. \A U \in SUBSET Inventory : Folds(G(U), U) /\ Units(U) = G(U)[U]
  BY FoldExists, UnitsIsFold
<1> HIDE DEF G
<1>2. Units(S) = IF S = {} THEN 0 ELSE UnitsOf(First(S)) + G(S)[S \ {First(S)}]
  BY <1>1 DEF Folds
<1>3. CASE S = {}
  BY <1>2, <1>3
<1>4. CASE S # {}
  <2>1. G(S)[S \ {First(S)}] = G(S \ {First(S)})[S \ {First(S)}]
    BY <1>1, FoldsAgree
  <2> QED BY <1>1, <1>2, <1>4, <2>1
<1> QED BY <1>3, <1>4

\* The units of a resource are a number.
LEMMA UnitsOfType ==
  ASSUME NEW x \in Inventory,
         x.kind \in {"eni", "nat", "endpoint", "lb", "attachment", "mount"}
  PROVE  UnitsOf(x) \in Nat
<1>1. CASE x.kind = "eni"
  BY <1>1, AccountAssumption DEF UnitsOf, InterfaceUnits, Weight, OfKind
<1>2. CASE x.kind = "endpoint"
  <2>1. x.subnets \in Nat /\ x.tables \in Nat
    BY <1>2, AccountAssumption DEF OfKind
  <2>2. EndpointZones(x) \in Nat
    BY <2>1 DEF EndpointZones
  <2> QED BY <1>2, <2>2 DEF UnitsOf, Weight
<1>3. CASE x.kind = "lb"
  BY <1>3, AccountAssumption DEF UnitsOf, Weight, OfKind
<1>4. CASE x.kind \in {"nat", "attachment", "mount"}
  BY <1>4 DEF UnitsOf, Weight
<1> QED BY <1>1, <1>2, <1>3, <1>4

\* The resources that have units.
Counting == {x \in Inventory : x.kind \in {"eni", "nat", "endpoint", "lb", "attachment", "mount"}}

\* The sum of numbers is a number.
LEMMA UnitsType == ASSUME NEW S \in SUBSET Counting PROVE Units(S) \in Nat
<1> DEFINE C == {T \in SUBSET Counting : Units(T) \notin Nat}
<1> SUFFICES ASSUME C # {} PROVE FALSE
  OBVIOUS
<1>1. C \subseteq SUBSET Inventory
  BY DEF Counting
<1>2. PICK T \in C : \A U \in C : U \subseteq T => U = T
  <2> HIDE DEF C
  <2> QED BY <1>1, SmallestSet
<1>3. Units(T) = IF T = {} THEN 0 ELSE UnitsOf(First(T)) + Units(T \ {First(T)})
  BY <1>1, <1>2, UnitsEquation
<1>4. CASE T = {}
  BY <1>2, <1>3, <1>4
<1>5. CASE T # {}
  <2>1. First(T) \in T /\ UnitsOf(First(T)) \in Nat
    BY <1>2, <1>5, FirstIn, UnitsOfType DEF Counting
  <2>2. Units(T \ {First(T)}) \in Nat
    BY <1>2, <2>1
  <2> QED BY <1>2, <1>3, <1>5, <2>1, <2>2
<1> QED BY <1>4, <1>5

\* The sum does not depend on which element is taken first.
LEMMA UnitsRemove ==
  ASSUME NEW S \in SUBSET Counting, NEW x \in S
  PROVE  Units(S) = UnitsOf(x) + Units(S \ {x})
<1> DEFINE C == {T \in SUBSET Counting : \E y \in T : Units(T) # UnitsOf(y) + Units(T \ {y})}
<1> SUFFICES ASSUME C # {} PROVE FALSE
  OBVIOUS
<1>1. C \subseteq SUBSET Inventory
  BY DEF Counting
<1>2. PICK T \in C : \A U \in C : U \subseteq T => U = T
  <2> HIDE DEF C
  <2> QED BY <1>1, SmallestSet
<1>3. PICK y \in T : Units(T) # UnitsOf(y) + Units(T \ {y})
  BY <1>2
<1> DEFINE f == First(T)
<1>4. f \in T /\ Units(T) = UnitsOf(f) + Units(T \ {f})
  BY <1>1, <1>2, <1>3, FirstIn, UnitsEquation
<1>5. f # y
  BY <1>3, <1>4
<1> HIDE DEF f
<1>6. /\ T \ {f} \in SUBSET Counting /\ T \ {f} \notin C
      /\ T \ {y} \in SUBSET Counting /\ T \ {y} \notin C
  BY <1>2, <1>3, <1>4
<1>7. /\ Units(T \ {f}) = UnitsOf(y) + Units((T \ {f}) \ {y})
      /\ Units(T \ {y}) = UnitsOf(f) + Units((T \ {y}) \ {f})
  BY <1>3, <1>4, <1>5, <1>6
<1>8. (T \ {f}) \ {y} = (T \ {y}) \ {f}
  OBVIOUS
<1>9. UnitsOf(f) \in Nat /\ UnitsOf(y) \in Nat /\ Units((T \ {y}) \ {f}) \in Nat
  BY <1>2, <1>3, <1>4, UnitsOfType, UnitsType DEF Counting
<1>10. Units(T \ {f}) = UnitsOf(y) + Units((T \ {y}) \ {f})
  BY <1>7, <1>8
<1> HIDE DEF C
<1> QED BY <1>3, <1>4, <1>7, <1>9, <1>10

\* The units of two sets without a common resource.
LEMMA UnitsUnion ==
  ASSUME NEW S \in SUBSET Counting, NEW T \in SUBSET Counting, S \cap T = {}
  PROVE  Units(S \cup T) = Units(S) + Units(T)
<1> DEFINE C == {U \in SUBSET Counting : U \cap T = {} /\ Units(U \cup T) # Units(U) + Units(T)}
<1> SUFFICES ASSUME C # {} PROVE FALSE
  OBVIOUS
<1>1. C \subseteq SUBSET Inventory
  BY DEF Counting
<1>2. PICK U \in C : \A V \in C : V \subseteq U => V = U
  <2> HIDE DEF C
  <2> QED BY <1>1, SmallestSet
<1>3. CASE U = {}
  <2>1. Units(U) = 0 /\ Units(T) \in Nat
    BY <1>3, UnitsEquation, UnitsType
  <2>2. Units(U \cup T) = Units(T)
    <3>1. U \cup T = T
      BY <1>3
    <3> QED BY <3>1, Zenon
  <2>3. Units(U \cup T) # Units(U) + Units(T)
    BY <1>2
  <2> QED BY <2>1, <2>2, <2>3
<1>4. CASE U # {}
  <2>1. PICK x \in U : TRUE
    BY <1>4
  <2>2. Units((U \ {x}) \cup T) = Units(U \ {x}) + Units(T)
    BY <1>2, <2>1
  <2>3. (U \cup T) \ {x} = (U \ {x}) \cup T /\ U \cup T \in SUBSET Counting
    BY <1>2, <2>1
  <2>4. /\ Units(U) = UnitsOf(x) + Units(U \ {x})
        /\ Units(U \cup T) = UnitsOf(x) + Units((U \ {x}) \cup T)
    BY <1>2, <2>1, <2>3, UnitsRemove
  <2>5. UnitsOf(x) \in Nat /\ Units(U \ {x}) \in Nat /\ Units(T) \in Nat
    BY <1>2, <2>1, UnitsOfType, UnitsType DEF Counting
  <2> QED BY <1>2, <2>2, <2>4, <2>5
<1> QED BY <1>3, <1>4

\* More resources have no fewer units.
LEMMA UnitsMonotonic ==
  ASSUME NEW T \in SUBSET Counting, NEW S \in SUBSET T
  PROVE  Units(S) <= Units(T) /\ Units(S) \in Nat /\ Units(T) \in Nat
<1>1. Units(S \cup (T \ S)) = Units(S) + Units(T \ S)
  BY UnitsUnion
<1>2. S \cup (T \ S) = T
  OBVIOUS
<1>3. Units(S) \in Nat /\ Units(T) \in Nat /\ Units(T \ S) \in Nat
  BY UnitsType
<1> QED BY <1>1, <1>2, <1>3

-----------------------------------------------------------------------------
(* Pages and parts.                                                        *)

\* A page brings what is there, is asked for and was not seen; the last one
\* comes when all that has been there all along is seen.
LEMMA PageFacts ==
  ASSUME NEW p \in [seen : SUBSET Inventory, more : BOOLEAN], NEW asked,
         NEW page \in NextPage(p, asked), present \subseteq Inventory
  PROVE  /\ page.items \subseteq (present \cap asked) \ p.seen
         /\ page.pager.seen = p.seen \cup page.items
         /\ page.pager \in [seen : SUBSET Inventory, more : BOOLEAN]
         /\ page.pager.more \in BOOLEAN
         /\ ~page.pager.more => always \cap asked \subseteq page.pager.seen
<1>1. PICK S \in SUBSET ((present \cap asked) \ p.seen), m \in BOOLEAN :
        /\ page = [items |-> S, pager |-> [seen |-> p.seen \cup S, more |-> m]]
        /\ ~m => always \cap asked \subseteq p.seen \cup S
  BY DEF NextPage
<1>2. p.seen \cup S \in SUBSET Inventory
  BY <1>1
<1> QED BY <1>1, <1>2

\* The resources of a VPC have units.
LEMMA PartCounting ==
  ASSUME NEW v, NEW S \in SUBSET Inventory
  PROVE  Part(v, S) \in SUBSET Counting /\ NauOf(v, S) = Units(Part(v, S))
BY DEF Part, OfKind, Counting, NauOf

\* The subnet of a mount target that was there all along was there all along.
LEMMA SubnetAlways ==
  ASSUME TypeOK, Closed, NEW v, NEW x \in OfKind("mount", always),
         x.subnet \in Ids(In(v, OfKind("subnet", Inventory)))
  PROVE  x.subnet \in Ids(In(v, OfKind("subnet", always)))
<1>1. x \in Inventory /\ x.kind = "mount" /\ always \subseteq Inventory
  BY DEF TypeOK, OfKind
<1>2. x.subnet \in x.needs
  BY <1>1, AccountAssumption DEF OfKind
<1>3. PICK y \in always : y.id = x.subnet
  BY <1>2 DEF Closed, Ids, OfKind
<1>4. PICK z \in In(v, OfKind("subnet", Inventory)) : z.id = x.subnet
  BY DEF Ids
<1>5. y = z
  BY <1>1, <1>3, <1>4, AccountAssumption DEF In, OfKind
<1> QED BY <1>3, <1>4, <1>5 DEF Ids, In, OfKind

\* So is its file system.
LEMMA FileSystemAlways ==
  ASSUME TypeOK, Closed, NEW x \in OfKind("mount", always)
  PROVE  x.fs \in Ids(OfKind("fs", always))
<1>1. x \in Inventory /\ x.kind = "mount" /\ always \subseteq Inventory
  BY DEF TypeOK, OfKind
<1>2. x.fs \in x.needs /\ x.fs \in Ids(OfKind("fs", Inventory))
  BY <1>1, AccountAssumption DEF OfKind
<1>3. PICK y \in always : y.id = x.fs
  BY <1>2 DEF Closed, Ids, OfKind
<1>4. PICK z \in OfKind("fs", Inventory) : z.id = x.fs
  BY <1>2 DEF Ids
<1>5. y = z
  BY <1>1, <1>3, <1>4, AccountAssumption DEF OfKind
<1> QED BY <1>3, <1>4, <1>5 DEF Ids, OfKind

-----------------------------------------------------------------------------
(* What steps have in common.                                              *)

\* Resources that were not counted join the total: it still counts each once.
LEMMA CountedStep ==
  ASSUME NEW S \in SUBSET Counting, ever \subseteq Inventory, Working, Counted,
         vpc' = vpc, total' = total + Units(S), cut \subseteq cut',
         Possible \cup S \subseteq Possible', S \cap Possible = {},
         vpc \in cut' \/ Certain' \subseteq Certain \cup S
  PROVE  Counted'
<1>1. PICK C \in SUBSET Possible : total = Units(C) /\ (vpc \in cut \/ Certain \subseteq C)
  BY DEF Counted
<1>2. Possible \subseteq Counting
  BY PartCounting DEF Possible
<1>3. C \in SUBSET Counting /\ C \cap S = {}
  BY <1>1, <1>2
<1>4. Units(C \cup S) = Units(C) + Units(S)
  BY <1>3, UnitsUnion
<1>5. C \cup S \in SUBSET (Possible') /\ total' = Units(C \cup S)
  BY <1>1, <1>4
<1>6. vpc' \in cut' \/ Certain' \subseteq C \cup S
  BY <1>1
<1> QED BY <1>5, <1>6 DEF Counted

\* Nothing joins the total.
LEMMA CountedSame ==
  ASSUME Counted, Working' => Working, vpc' = vpc, total' = total, cut \subseteq cut',
         Possible \subseteq Possible', vpc \in cut' \/ Certain' \subseteq Certain
  PROVE  Counted'
BY DEF Counted

\* The account and the results are as they were.
LEMMA ResultsSame ==
  ASSUME NauInv, UNCHANGED <<account, out>>, cut \subseteq cut'
  PROVE  Closed' /\ Bounded'
BY DEF NauInv, Closed, Bounded, account, NauOf

-----------------------------------------------------------------------------
(* The steps of the calculation.                                           *)

\* A page of interfaces, load balancers or attachments.
LEMMA SumKindStep ==
  ASSUME NauInv, NEW kind, NEW next, NEW asked,
         \/ kind = "eni" /\ next = "nat"
         \/ kind = "lb" /\ next = "attachment"
         \/ kind = "attachment" /\ next = "subnet",
         OfThisVpc(kind) \subseteq asked, SumPages(kind, asked, OfThisVpc(kind), next)
  PROVE  NauInv'
<1>1. PICK page \in NextPage(pager, asked) :
        /\ total' = total + Units(page.items \cap OfThisVpc(kind))
        /\ \/ page.pager.more /\ pager' = page.pager /\ pc' = pc
           \/ ~page.pager.more /\ pager' = NewPager /\ pc' = next
  BY DEF SumPages
<1>2. /\ pc = kind
      /\ UNCHANGED <<account, vpc, vpcPager, fsPager, vpcTodo, fsTodo, fs, subnets, out, cut>>
      /\ pc' \in {kind, next}
  BY <1>1 DEF SumPages
<1> DEFINE S == page.items \cap OfThisVpc(kind)
<1>3. /\ page.items \subseteq (present \cap asked) \ pager.seen
      /\ page.pager.seen = pager.seen \cup page.items
      /\ page.pager \in [seen : SUBSET Inventory, more : BOOLEAN]
      /\ ~page.pager.more => always \cap asked \subseteq page.pager.seen
  BY PageFacts DEF NauInv, Pagers, TypeOK
<1>4. Working /\ Working'
  BY <1>2 DEF Working
<1>5. S \subseteq Part(vpc, ever) /\ S \in SUBSET Counting /\ ever \subseteq Inventory
  <2>1. S \subseteq ever /\ \A x \in S : x.kind = kind /\ x.vpc = vpc
    BY <1>3 DEF OfThisVpc, In, OfKind, NauInv, TypeOK
  <2>2. S \subseteq Part(vpc, ever) /\ ever \subseteq Inventory
    BY <2>1 DEF Part, NauInv, TypeOK
  <2> QED BY <2>2, PartCounting
<1>6. \A x \in S : ~Had(x) /\ Had(x)' /\ x.kind = kind
  <2> SUFFICES ASSUME NEW x \in S PROVE ~Had(x) /\ Had(x)' /\ x.kind = kind
    OBVIOUS
  <2>1. x.kind = kind /\ x \notin pager.seen /\ x \in page.pager.seen
    BY <1>3 DEF OfThisVpc, In, OfKind
  <2> QED BY <1>1, <1>2, <2>1 DEF Had, HadMount, Behind
<1>7. \A x : Had(x) => Had(x)'
  <2> SUFFICES ASSUME NEW x, Had(x) PROVE Had(x)'
    OBVIOUS
  <2>1. x.kind # "mount" /\ (x.kind \in Behind \/ (x.kind = kind /\ x \in pager.seen))
    BY <1>2 DEF Had, HadMount
  <2> QED BY <1>1, <1>2, <1>3, <2>1 DEF Had, Behind
<1>8. \A x \in Part(vpc, always) : Had(x)' => Had(x) \/ x \in S
  <2> SUFFICES ASSUME NEW x \in Part(vpc, always), Had(x)', ~Had(x) PROVE x \in S
    OBVIOUS
  <2>1. x.kind = kind /\ x \notin pager.seen /\ (~page.pager.more \/ x \in page.pager.seen)
    BY <1>1, <1>2 DEF Had, HadMount, Behind, NewPager
  <2>2. x \in always /\ x \in OfThisVpc(kind)
    BY <2>1 DEF Part, OfThisVpc, In, OfKind, NauInv, TypeOK
  <2>3. x \in page.pager.seen
    BY <1>3, <2>1, <2>2
  <2> QED BY <1>3, <2>1, <2>2, <2>3
<1>9. /\ Possible \cup S \subseteq Possible' /\ S \cap Possible = {}
      /\ Certain' \subseteq Certain \cup S
  <2>1. Part(vpc, ever)' = Part(vpc, ever) /\ Part(vpc, always)' = Part(vpc, always)
    BY <1>2 DEF Part, account
  <2> HIDE DEF S
  <2> QED BY <1>5, <1>6, <1>7, <1>8, <2>1 DEF Possible, Certain
<1>10. Counted'
  <2>1. /\ Counted /\ total' = total + Units(S) /\ vpc' = vpc /\ cut \subseteq cut'
    BY <1>1, <1>2 DEF NauInv
  <2> HIDE DEF S
  <2> QED BY <1>4, <1>5, <1>9, <2>1, CountedStep
<1>11. TypeOK'
  <2>1. Units(S) \in Nat
    <3> HIDE DEF S
    <3> QED BY <1>5, UnitsType
  <2>2. total' \in Nat
    BY <1>1, <2>1 DEF NauInv, TypeOK
  <2> QED BY <1>2, <2>2 DEF NauInv, TypeOK, account
<1>12. Pagers'
  <2>1. NewPager \in [seen : SUBSET Inventory, more : BOOLEAN]
    BY DEF NewPager
  <2>2. pager' \in [seen : SUBSET Inventory, more : BOOLEAN]
    BY <1>1, <1>3, <2>1
  <2>3. pc' \in {"nat", "endpoint", "subnet", "fs", "vpcs"} => pager' = NewPager
    BY <1>1, <1>2
  <2> QED BY <1>2, <2>2, <2>3 DEF NauInv, Pagers
<1>13. Known' /\ VpcsListed' /\ MountsAsked'
  BY <1>2, <1>4 DEF NauInv, Known, VpcsListed, MountsAsked, account, Working
<1>14. Closed' /\ Bounded'
  BY <1>2, ResultsSame
<1> QED BY <1>10, <1>11, <1>12, <1>13, <1>14 DEF NauInv

\* A call without pages: what it leaves out is noted.
LEMMA SumOnceStep ==
  ASSUME NauInv, NEW kind, NEW next,
         \/ kind = "nat" /\ next = "endpoint"
         \/ kind = "endpoint" /\ next = "lb",
         SumOnce(kind, next)
  PROVE  NauInv'
<1>1. PICK S \in Once(kind) : total' = total + Units(S) /\ MarkCut(kind, S)
  BY DEF SumOnce
<1>2. /\ pc = kind /\ pc' = next
      /\ UNCHANGED <<account, vpc, vpcPager, pager, fsPager, vpcTodo, fsTodo, fs, subnets, out>>
  BY DEF SumOnce
<1>3. /\ S \subseteq In(vpc, OfKind(kind, present))
      /\ cut' \in {cut, cut \cup {vpc}}
      /\ vpc \in cut' \/ S = In(vpc, OfKind(kind, present))
  BY <1>1 DEF Once, MarkCut
<1>4. Working /\ Working'
  BY <1>2 DEF Working
<1>5. S \subseteq Part(vpc, ever) /\ S \in SUBSET Counting /\ ever \subseteq Inventory
  <2>1. S \subseteq ever /\ \A x \in S : x.kind = kind /\ x.vpc = vpc
    BY <1>3 DEF In, OfKind, NauInv, TypeOK
  <2>2. S \subseteq Part(vpc, ever) /\ ever \subseteq Inventory
    BY <2>1 DEF Part, NauInv, TypeOK
  <2> QED BY <2>2, PartCounting
<1>6. \A x : Had(x)' <=> Had(x) \/ x.kind = kind
  <2>1. pager = NewPager /\ pager' = NewPager
    BY <1>2 DEF NauInv, Pagers
  <2> QED BY <1>2, <2>1 DEF Had, HadMount, Behind, NewPager
<1>7. \A x \in S : ~Had(x) /\ Had(x)'
  <2>1. pager = NewPager
    BY <1>2 DEF NauInv, Pagers
  <2>2. \A x \in S : x.kind = kind
    BY <1>3 DEF In, OfKind
  <2> QED BY <1>2, <1>6, <2>1, <2>2 DEF Had, HadMount, Behind, NewPager
<1>8. vpc \in cut' \/ \A x \in Part(vpc, always) : x.kind = kind => x \in S
  BY <1>2, <1>3 DEF Part, In, OfKind, NauInv, TypeOK
<1>9. /\ Possible \cup S \subseteq Possible' /\ S \cap Possible = {}
      /\ vpc \in cut' \/ Certain' \subseteq Certain \cup S
  <2>1. Part(vpc, ever)' = Part(vpc, ever) /\ Part(vpc, always)' = Part(vpc, always)
    BY <1>2 DEF Part, account
  <2> QED BY <1>5, <1>6, <1>7, <1>8, <2>1 DEF Possible, Certain
<1>10. Counted'
  <2>1. Counted /\ total' = total + Units(S) /\ vpc' = vpc /\ cut \subseteq cut'
    BY <1>1, <1>2, <1>3 DEF NauInv
  <2> QED BY <1>4, <1>5, <1>9, <2>1, CountedStep
<1>11. TypeOK'
  <2>1. total' \in Nat
    BY <1>1, <1>5, UnitsType DEF NauInv, TypeOK
  <2>2. cut' \subseteq Ids(OfKind("vpc", ever))
    BY <1>3, <1>4 DEF NauInv, TypeOK, Known
  <2> QED BY <1>2, <2>1, <2>2 DEF NauInv, TypeOK, account
<1>12. Pagers'
  BY <1>2 DEF NauInv, Pagers
<1>13. Known' /\ VpcsListed' /\ MountsAsked'
  BY <1>2, <1>3, <1>4 DEF NauInv, Known, VpcsListed, MountsAsked, account, Working
<1>14. Closed' /\ Bounded'
  BY <1>2, <1>3, ResultsSame
<1> QED BY <1>10, <1>11, <1>12, <1>13, <1>14 DEF NauInv

\* The next page of VPCs, when none waits.
LEMMA ListVpcsStep == ASSUME NauInv, ListVpcs PROVE NauInv'
<1>1. PICK page \in NextPage(vpcPager, OfKind("vpc", Inventory)) :
        vpcTodo' = Ids(page.items) /\ vpcPager' = page.pager
  BY DEF ListVpcs
<1>2. /\ pc = "vpcs" /\ vpcTodo = {} /\ vpcPager.more
      /\ UNCHANGED <<account, pc, vpc, pager, fsPager, fsTodo, fs, subnets, total, out, cut>>
  BY DEF ListVpcs
<1>3. /\ page.items \subseteq (present \cap OfKind("vpc", Inventory)) \ vpcPager.seen
      /\ page.pager.seen = vpcPager.seen \cup page.items
      /\ page.pager \in [seen : SUBSET Inventory, more : BOOLEAN]
      /\ ~page.pager.more => always \cap OfKind("vpc", Inventory) \subseteq page.pager.seen
  BY PageFacts DEF NauInv, Pagers, TypeOK
<1>4. ~Working /\ ~Working'
  BY <1>2 DEF Working
<1>5. page.items \subseteq OfKind("vpc", ever)
  BY <1>3 DEF OfKind, NauInv, TypeOK
<1>6. Ids(page.items) \subseteq Ids(OfKind("vpc", ever)) /\ Ids(page.items) \subseteq Ids(ever)
  BY <1>5 DEF Ids, OfKind
<1>7. TypeOK' /\ Known'
  BY <1>1, <1>2, <1>4, <1>6 DEF NauInv, TypeOK, Known, account
<1>8. Pagers'
  BY <1>1, <1>2, <1>3 DEF NauInv, Pagers
<1>9. VpcsListed'
  <2>1. vpcPager.seen \subseteq OfKind("vpc", ever) /\ Ids(vpcPager.seen) = DOMAIN out
    BY <1>2, <1>4 DEF NauInv, VpcsListed
  <2>2. vpcPager'.seen = vpcPager.seen \cup page.items /\ vpcPager'.seen \subseteq OfKind("vpc", ever)
    BY <1>1, <1>3, <1>5, <2>1
  <2>3. Ids(vpcPager'.seen) = vpcTodo' \cup DOMAIN out
    BY <1>1, <2>1, <2>2 DEF Ids
  <2>4. ~vpcPager'.more => OfKind("vpc", always) \subseteq vpcPager'.seen
    BY <1>1, <1>3 DEF OfKind, NauInv, TypeOK
  <2> QED BY <1>2, <1>4, <2>2, <2>3, <2>4 DEF VpcsListed, account
<1>10. MountsAsked' /\ Counted'
  BY <1>2, <1>4 DEF NauInv, MountsAsked, Counted
<1>11. Closed' /\ Bounded'
  BY <1>2, ResultsSame
<1> QED BY <1>7, <1>8, <1>9, <1>10, <1>11 DEF NauInv

\* The sum of a VPC begins with nothing.
LEMMA NextVpcStep == ASSUME NauInv, NextVpc PROVE NauInv'
<1>1. PICK v \in vpcTodo : vpc' = v /\ vpcTodo' = vpcTodo \ {v}
  BY DEF NextVpc
<1>2. /\ pc = "vpcs" /\ pc' = "eni" /\ total' = 0
      /\ UNCHANGED <<account, vpcPager, pager, fsPager, fsTodo, fs, subnets, out, cut>>
  BY DEF NextVpc
<1>3. ~Working /\ Working'
  BY <1>2 DEF Working
<1>4. TypeOK' /\ Known'
  BY <1>1, <1>2 DEF NauInv, TypeOK, Known, account
<1>5. pager = NewPager
  BY <1>2 DEF NauInv, Pagers
<1>6. Pagers'
  BY <1>2 DEF NauInv, Pagers
<1>7. VpcsListed'
  <2>1. Ids(vpcPager.seen) = vpcTodo' \cup DOMAIN out \cup {vpc'}
    BY <1>1, <1>2, <1>3 DEF NauInv, VpcsListed
  <2> QED BY <1>2, <1>3, <2>1 DEF NauInv, VpcsListed, account
<1>8. MountsAsked'
  BY <1>2 DEF NauInv, MountsAsked
<1>9. Counted'
  <2>1. \A x : ~Had(x)'
    BY <1>2, <1>5 DEF Had, HadMount, Behind, NewPager
  <2>2. Certain' = {} /\ Units({}) = 0
    BY <2>1, UnitsEquation DEF Certain
  <2>3. {} \in SUBSET (Possible') /\ total' = Units({}) /\ Certain' \subseteq {}
    BY <1>2, <2>2
  <2> QED BY <2>3 DEF Counted
<1>10. Closed' /\ Bounded'
  BY <1>2, ResultsSame
<1> QED BY <1>4, <1>6, <1>7, <1>8, <1>9, <1>10 DEF NauInv

\* The VPC's subnets, before any file system.
LEMMA DescribeSubnetsStep == ASSUME NauInv, DescribeSubnets PROVE NauInv'
<1>1. PICK S \in Once("subnet") : subnets' = Ids(S) /\ MarkCut("subnet", S)
  BY DEF DescribeSubnets
<1>2. /\ pc = "subnet" /\ pc' = "fs" /\ fsPager' = NewPager
      /\ UNCHANGED <<account, vpc, vpcPager, pager, vpcTodo, fsTodo, fs, total, out>>
  BY DEF DescribeSubnets
<1>3. /\ S \subseteq In(vpc, OfKind("subnet", present))
      /\ cut' \in {cut, cut \cup {vpc}}
      /\ vpc \in cut' \/ S = In(vpc, OfKind("subnet", present))
  BY <1>1 DEF Once, MarkCut
<1>4. Working /\ Working'
  BY <1>2 DEF Working
<1>5. /\ S \subseteq In(vpc, OfKind("subnet", ever)) /\ S \subseteq ever
      /\ vpc \in cut' \/ In(vpc, OfKind("subnet", always)) \subseteq S
  BY <1>3 DEF In, OfKind, NauInv, TypeOK
<1>6. /\ subnets' \subseteq Ids(In(vpc, OfKind("subnet", ever))) /\ subnets' \subseteq Ids(ever)
      /\ vpc \in cut' \/ Ids(In(vpc, OfKind("subnet", always))) \subseteq subnets'
  BY <1>1, <1>5 DEF Ids
<1>7. TypeOK' /\ Known'
  <2>1. cut' \subseteq Ids(OfKind("vpc", ever))
    BY <1>3, <1>4 DEF NauInv, TypeOK, Known
  <2> QED BY <1>2, <1>4, <1>6, <2>1 DEF NauInv, TypeOK, Known, account
<1>8. Pagers'
  BY <1>2 DEF NauInv, Pagers, NewPager
<1>9. VpcsListed'
  BY <1>2, <1>4 DEF NauInv, VpcsListed, account
<1>10. MountsAsked'
  <2>1. fsTodo = {}
    BY <1>2 DEF NauInv, MountsAsked
  <2> QED BY <1>2, <1>6, <2>1 DEF MountsAsked, NewPager, account
<1>11. Counted'
  <2>1. \A x : Had(x)' <=> Had(x)
    BY <1>2 DEF NauInv, Pagers, Had, HadMount, Behind, NewPager, Ids
  <2>2. Possible' = Possible /\ Certain' = Certain
    BY <1>2, <2>1 DEF Possible, Certain, Part, account
  <2> QED BY <1>2, <1>3, <1>4, <2>2, CountedSame DEF NauInv
<1>12. Closed' /\ Bounded'
  BY <1>2, <1>3, ResultsSame
<1> QED BY <1>7, <1>8, <1>9, <1>10, <1>11, <1>12 DEF NauInv

\* Ids tell resources apart.
LEMMA IdsApart ==
  ASSUME NEW S \in SUBSET Inventory, NEW T \in SUBSET Inventory, S \cap T = {}
  PROVE  Ids(S) \cap Ids(T) = {} /\ Ids(S \cup T) = Ids(S) \cup Ids(T)
BY AccountAssumption DEF Ids

\* The next page of file systems, when none waits.
LEMMA ListFileSystemsStep == ASSUME NauInv, ListFileSystems PROVE NauInv'
<1>1. PICK page \in NextPage(fsPager, OfKind("fs", Inventory)) :
        fsTodo' = Ids(page.items) /\ fsPager' = page.pager
  BY DEF ListFileSystems
<1>2. /\ pc = "fs" /\ fsTodo = {} /\ fsPager.more
      /\ UNCHANGED <<account, pc, vpc, vpcPager, pager, vpcTodo, fs, subnets, total, out, cut>>
  BY DEF ListFileSystems
<1>3. /\ page.items \subseteq (present \cap OfKind("fs", Inventory)) \ fsPager.seen
      /\ page.pager.seen = fsPager.seen \cup page.items
      /\ page.pager \in [seen : SUBSET Inventory, more : BOOLEAN]
      /\ ~page.pager.more => always \cap OfKind("fs", Inventory) \subseteq page.pager.seen
  BY PageFacts DEF NauInv, Pagers, TypeOK
<1>4. Working /\ Working'
  BY <1>2 DEF Working
<1>5. page.items \subseteq OfKind("fs", ever) /\ page.items \in SUBSET Inventory
  BY <1>3 DEF OfKind, NauInv, TypeOK
<1>6. Ids(page.items) \subseteq Ids(ever)
  BY <1>5 DEF Ids, OfKind
<1>7. /\ Ids(fsPager.seen) \cap fsTodo' = {}
      /\ Ids(fsPager'.seen) = Ids(fsPager.seen) \cup fsTodo'
  <2>1. fsPager.seen \in SUBSET Inventory /\ fsPager.seen \cap page.items = {}
    BY <1>3 DEF NauInv, Pagers
  <2> QED BY <1>1, <1>3, <1>5, <2>1, IdsApart
<1>8. TypeOK' /\ Known'
  BY <1>1, <1>2, <1>4, <1>6 DEF NauInv, TypeOK, Known, account
<1>9. Pagers'
  BY <1>1, <1>2, <1>3 DEF NauInv, Pagers
<1>10. VpcsListed'
  BY <1>2, <1>4 DEF NauInv, VpcsListed, account
<1>11. MountsAsked'
  <2>1. /\ fsPager.seen \subseteq OfKind("fs", ever)
        /\ subnets \subseteq Ids(In(vpc, OfKind("subnet", ever)))
        /\ vpc \in cut \/ Ids(In(vpc, OfKind("subnet", always))) \subseteq subnets
    BY <1>2 DEF NauInv, MountsAsked
  <2>2. fsPager'.seen \subseteq OfKind("fs", ever) /\ fsTodo' \subseteq Ids(fsPager'.seen)
    BY <1>1, <1>3, <1>5, <1>7, <2>1
  <2>3. ~fsPager'.more => OfKind("fs", always) \subseteq fsPager'.seen
    BY <1>1, <1>3 DEF OfKind, NauInv, TypeOK
  <2> QED BY <1>2, <2>1, <2>2, <2>3 DEF MountsAsked, account
<1>12. Counted'
  <2>1. Ids(fsPager'.seen) \ fsTodo' = Ids(fsPager.seen) \ fsTodo
    BY <1>2, <1>7
  <2>2. \A x : Had(x)' <=> Had(x)
    BY <1>2, <2>1 DEF Had, HadMount, Behind
  <2>3. Possible' = Possible /\ Certain' = Certain
    BY <1>2, <2>2 DEF Possible, Certain, Part, account
  <2> QED BY <1>2, <1>4, <2>3, CountedSame DEF NauInv
<1>13. Closed' /\ Bounded'
  BY <1>2, ResultsSame
<1> QED BY <1>8, <1>9, <1>10, <1>11, <1>12, <1>13 DEF NauInv

\* The next file system that waits.
LEMMA NextFileSystemStep == ASSUME NauInv, NextFileSystem PROVE NauInv'
<1>1. PICK f \in fsTodo : fs' = f /\ fsTodo' = fsTodo \ {f}
  BY DEF NextFileSystem
<1>2. /\ pc = "fs" /\ pc' = "mount"
      /\ UNCHANGED <<account, vpc, vpcPager, pager, fsPager, vpcTodo, subnets, total, out, cut>>
  BY DEF NextFileSystem
<1>3. Working /\ Working'
  BY <1>2 DEF Working
<1>4. TypeOK' /\ Known' /\ Pagers' /\ VpcsListed'
  BY <1>1, <1>2, <1>3 DEF NauInv, TypeOK, Known, Pagers, VpcsListed, account
<1>5. fsTodo \subseteq Ids(fsPager.seen) /\ pager = NewPager
  BY <1>2 DEF NauInv, MountsAsked, Pagers
<1>6. MountsAsked'
  BY <1>1, <1>2, <1>5 DEF NauInv, MountsAsked, account
<1>7. Counted'
  <2>1. \A x : Had(x)' <=> Had(x)
    BY <1>1, <1>2, <1>5 DEF Had, HadMount, Behind, NewPager
  <2>2. Possible' = Possible /\ Certain' = Certain
    BY <1>2, <2>1 DEF Possible, Certain, Part, account
  <2> QED BY <1>2, <1>3, <2>2, CountedSame DEF NauInv
<1>8. Closed' /\ Bounded'
  BY <1>2, ResultsSame
<1> QED BY <1>4, <1>6, <1>7, <1>8 DEF NauInv

\* A page of a file system's mount targets.
LEMMA ListMountTargetsStep == ASSUME NauInv, ListMountTargets PROVE NauInv'
<1> DEFINE asked == {x \in OfKind("mount", Inventory) : x.fs = fs}
           counted == {x \in OfKind("mount", Inventory) : x.subnet \in subnets}
<1>1. PICK page \in NextPage(pager, asked) :
        /\ total' = total + Units(page.items \cap counted)
        /\ \/ page.pager.more /\ pager' = page.pager /\ pc' = pc
           \/ ~page.pager.more /\ pager' = NewPager /\ pc' = "fs"
  BY DEF ListMountTargets, SumPages
<1>2. /\ pc = "mount" /\ pc' \in {"mount", "fs"}
      /\ UNCHANGED <<account, vpc, vpcPager, fsPager, vpcTodo, fsTodo, fs, subnets, out, cut>>
  BY <1>1 DEF ListMountTargets, SumPages
<1> DEFINE S == page.items \cap counted
<1>3. /\ page.items \subseteq (present \cap asked) \ pager.seen
      /\ page.pager.seen = pager.seen \cup page.items
      /\ page.pager \in [seen : SUBSET Inventory, more : BOOLEAN]
      /\ ~page.pager.more => always \cap asked \subseteq page.pager.seen
  <2> HIDE DEF asked
  <2> QED BY PageFacts DEF NauInv, Pagers, TypeOK
<1>4. Working /\ Working'
  BY <1>2 DEF Working
<1>5. /\ subnets \subseteq Ids(In(vpc, OfKind("subnet", ever)))
      /\ vpc \in cut \/ Ids(In(vpc, OfKind("subnet", always))) \subseteq subnets
      /\ fs \in Ids(fsPager.seen) \ fsTodo
  BY <1>2 DEF NauInv, MountsAsked
<1>6. S \subseteq Part(vpc, ever) /\ S \in SUBSET Counting /\ ever \subseteq Inventory
  <2>1. S \subseteq ever /\ \A x \in S : x.kind = "mount" /\ x.subnet \in subnets
    BY <1>3 DEF OfKind, NauInv, TypeOK
  <2>2. S \subseteq OfKind("mount", ever) /\ ever \subseteq Inventory
    BY <2>1 DEF OfKind, NauInv, TypeOK
  <2>3. S \subseteq Part(vpc, ever)
    <3> HIDE DEF S
    <3> QED BY <1>5, <2>1, <2>2 DEF Part
  <2> QED BY <2>2, <2>3, PartCounting
<1>7. \A x : Had(x) => Had(x)'
  BY <1>1, <1>2, <1>3 DEF Had, HadMount, Behind
<1>8. \A x \in S : ~Had(x) /\ Had(x)'
  <2> SUFFICES ASSUME NEW x \in S PROVE ~Had(x) /\ Had(x)'
    OBVIOUS
  <2>1. x.kind = "mount" /\ x.fs = fs /\ x \notin pager.seen /\ x \in page.pager.seen
    BY <1>3 DEF OfKind
  <2> QED BY <1>1, <1>2, <1>5, <2>1 DEF Had, HadMount
<1>9. vpc \in cut \/ \A x \in Part(vpc, always) : Had(x)' => Had(x) \/ x \in S
  <2> SUFFICES ASSUME vpc \notin cut, NEW x \in Part(vpc, always), Had(x)', ~Had(x) PROVE x \in S
    OBVIOUS
  <2>1. /\ x.kind = "mount" /\ x.fs = fs /\ x \notin pager.seen
        /\ ~page.pager.more \/ x \in page.pager.seen
    BY <1>1, <1>2 DEF Had, HadMount, Behind, NewPager
  <2>2. x \in OfKind("mount", always) /\ x.subnet \in Ids(In(vpc, OfKind("subnet", ever)))
    BY <2>1 DEF Part, OfKind
  <2>3. x.subnet \in Ids(In(vpc, OfKind("subnet", Inventory)))
    BY <1>6, <2>2 DEF Ids, In, OfKind
  <2>4. x.subnet \in subnets
    BY <1>5, <2>2, <2>3, SubnetAlways DEF NauInv
  <2>5. x \in always /\ x \in asked /\ x \in counted
    BY <2>1, <2>2, <2>4 DEF OfKind, NauInv, TypeOK
  <2>6. x \in page.pager.seen
    BY <1>3, <2>1, <2>5
  <2> QED BY <1>3, <2>1, <2>5, <2>6
<1>10. /\ Possible \cup S \subseteq Possible' /\ S \cap Possible = {}
       /\ vpc \in cut' \/ Certain' \subseteq Certain \cup S
  <2>1. /\ Part(vpc, ever)' = Part(vpc, ever) /\ Part(vpc, always)' = Part(vpc, always)
        /\ cut' = cut
    BY <1>2 DEF Part, account
  <2> HIDE DEF S
  <2> QED BY <1>6, <1>7, <1>8, <1>9, <2>1 DEF Possible, Certain
<1>11. Counted'
  <2>1. Counted /\ total' = total + Units(S) /\ vpc' = vpc /\ cut \subseteq cut'
    BY <1>1, <1>2 DEF NauInv
  <2> HIDE DEF S
  <2> QED BY <1>4, <1>6, <1>10, <2>1, CountedStep
<1>12. TypeOK'
  <2>1. Units(S) \in Nat
    <3> HIDE DEF S
    <3> QED BY <1>6, UnitsType
  <2>2. total' \in Nat
    BY <1>1, <2>1 DEF NauInv, TypeOK
  <2> QED BY <1>2, <2>2 DEF NauInv, TypeOK, account
<1>13. Pagers'
  <2>1. NewPager \in [seen : SUBSET Inventory, more : BOOLEAN]
    BY DEF NewPager
  <2>2. pager' \in [seen : SUBSET Inventory, more : BOOLEAN]
    BY <1>1, <1>3, <2>1
  <2>3. pc' = "fs" => pager' = NewPager
    BY <1>1, <1>2
  <2> QED BY <1>2, <2>2, <2>3 DEF NauInv, Pagers
<1>14. Known' /\ VpcsListed' /\ MountsAsked'
  BY <1>2, <1>4 DEF NauInv, Known, VpcsListed, MountsAsked, account, Working
<1>15. Closed' /\ Bounded'
  BY <1>2, ResultsSame
<1> QED BY <1>11, <1>12, <1>13, <1>14, <1>15 DEF NauInv

\* With the file systems through, all that was there all along is counted.
LEMMA VpcDoneStep == ASSUME NauInv, VpcDone PROVE NauInv'
<1>1. /\ pc = "fs" /\ fsTodo = {} /\ ~fsPager.more /\ pc' = "vpcs" /\ subnets' = {}
      /\ out' = [v \in DOMAIN out \cup {vpc} |-> IF v = vpc THEN total ELSE out[v]]
      /\ UNCHANGED <<account, vpcPager, pager, fsPager, vpcTodo, fsTodo, total, cut>>
  BY DEF VpcDone
<1>2. Working /\ ~Working'
  BY <1>1 DEF Working
<1>3. PICK C \in SUBSET Possible : total = Units(C) /\ (vpc \in cut \/ Certain \subseteq C)
  BY <1>2 DEF NauInv, Counted
<1>4. ever \subseteq Inventory /\ always \subseteq Inventory /\ always \subseteq ever
  BY DEF NauInv, TypeOK
<1>5. total <= NauOf(vpc, ever)
  <2>1. C \subseteq Part(vpc, ever)
    BY <1>3 DEF Possible
  <2> QED BY <1>3, <1>4, <2>1, PartCounting, UnitsMonotonic
<1>6. vpc \in cut \/ NauOf(vpc, always) <= total
  <2> SUFFICES ASSUME vpc \notin cut PROVE NauOf(vpc, always) <= total
    OBVIOUS
  <2>1. OfKind("fs", always) \subseteq fsPager.seen
    BY <1>1 DEF NauInv, MountsAsked
  <2>2. \A x \in OfKind("mount", always) : x.fs \in Ids(fsPager.seen)
    BY <2>1, FileSystemAlways DEF Ids, NauInv
  <2>3. \A x \in Part(vpc, always) : Had(x)
    BY <1>1, <2>2 DEF Part, Had, HadMount, Behind, OfKind
  <2>4. Part(vpc, always) \subseteq C /\ Possible \subseteq Part(vpc, ever)
    BY <1>3, <2>3 DEF Certain, Possible
  <2>5. C \in SUBSET Counting
    BY <1>3, <1>4, <2>4, PartCounting
  <2> QED BY <1>3, <1>4, <2>4, <2>5, PartCounting, UnitsMonotonic
<1>7. TypeOK' /\ Known'
  <2>1. vpc \in Ids(OfKind("vpc", ever)) /\ total \in Nat
    BY <1>2 DEF NauInv, Known, TypeOK
  <2>2. DOMAIN out' = DOMAIN out \cup {vpc} /\ \A v \in DOMAIN out' : out'[v] \in Nat
    BY <1>1, <2>1 DEF NauInv, TypeOK
  <2> QED BY <1>1, <1>2, <2>1, <2>2 DEF NauInv, TypeOK, Known, account
<1>8. Pagers'
  BY <1>1 DEF NauInv, Pagers
<1>9. VpcsListed'
  <2>1. Ids(vpcPager.seen) = vpcTodo \cup DOMAIN out' /\ DOMAIN out' = DOMAIN out \cup {vpc}
    BY <1>1, <1>2 DEF NauInv, VpcsListed
  <2> QED BY <1>1, <1>2, <2>1 DEF NauInv, VpcsListed, account
<1>10. MountsAsked' /\ Counted'
  BY <1>1, <1>2 DEF MountsAsked, Counted
<1>11. Bounded'
  <2>1. \A v : NauOf(v, ever)' = NauOf(v, ever) /\ NauOf(v, always)' = NauOf(v, always)
    BY <1>1 DEF NauOf, account
  <2>2. \A v \in DOMAIN out' : out'[v] = IF v = vpc THEN total ELSE out[v]
    BY <1>1
  <2>3. Bounded /\ cut' = cut /\ DOMAIN out' = DOMAIN out \cup {vpc}
    BY <1>1 DEF NauInv
  <2> QED BY <1>5, <1>6, <2>1, <2>2, <2>3 DEF Bounded
<1>12. Closed'
  BY <1>1 DEF NauInv, Closed, account
<1> QED BY <1>7, <1>8, <1>9, <1>10, <1>11, <1>12 DEF NauInv

\* The end, with a result or with an error.
LEMMA EndStep == ASSUME NauInv, CallFails \/ Return PROVE NauInv'
<1>1. UNCHANGED <<account, vpc, vpcPager, pager, fsPager, vpcTodo, fsTodo, fs, subnets, total, out, cut>>
  BY DEF CallFails, Return
<1>2. ~Working'
  BY DEF CallFails, Return, Working
<1>3. TypeOK' /\ Known' /\ Pagers' /\ Counted'
  BY <1>1, <1>2 DEF NauInv, TypeOK, Known, Pagers, Counted, CallFails, Return, account
<1>4. VpcsListed'
  BY <1>1, <1>2 DEF NauInv, VpcsListed, CallFails, Return, account, Working
<1>5. MountsAsked'
  BY <1>1 DEF NauInv, MountsAsked, CallFails, Return
<1>6. Closed' /\ Bounded'
  BY <1>1, ResultsSame
<1> QED BY <1>3, <1>4, <1>5, <1>6 DEF NauInv

-----------------------------------------------------------------------------
(* The account changes.                                                    *)

\* What the account's changes leave of the invariant's facts.
LEMMA ChangeFacts ==
  ASSUME NauInv, Change
  PROVE  /\ UNCHANGED calculator /\ changes' \in 0..MaxChanges
         /\ always' \subseteq present' /\ present' \subseteq ever' /\ ever' \subseteq Inventory
         /\ ever \subseteq ever' /\ always' \subseteq always
<1>1. /\ UNCHANGED calculator /\ changes' = changes + 1 /\ changes < MaxChanges
      /\ \/ \E x \in Inventory \ present :
              present' = present \cup {x} /\ ever' = ever \cup {x} /\ always' = always
         \/ \E x \in present :
              present' = present \ {x} /\ always' = always \ {x} /\ ever' = ever
  BY DEF Change
<1>2. always \subseteq present /\ present \subseteq ever /\ ever \subseteq Inventory
  BY DEF NauInv, TypeOK
<1>3. changes' \in 0..MaxChanges
  BY <1>1, NauAssumption DEF NauInv, TypeOK
<1>4. CASE \E x \in Inventory \ present :
             present' = present \cup {x} /\ ever' = ever \cup {x} /\ always' = always
  BY <1>1, <1>2, <1>3, <1>4
<1>5. CASE \E x \in present : present' = present \ {x} /\ always' = always \ {x} /\ ever' = ever
  BY <1>1, <1>2, <1>3, <1>5
<1> QED BY <1>1, <1>4, <1>5

\* What has been there all along still has all it needs: what something needs
\* does not go.
LEMMA ClosedStep == ASSUME NauInv, Change PROVE Closed'
<1>1. \/ always' = always
      \/ \E x \in present : always' = always \ {x} /\ \A y \in present : x.id \notin y.needs
  BY DEF Change
<1>2. Closed /\ always \subseteq present
  BY DEF NauInv, TypeOK
<1>3. CASE always' = always
  BY <1>2, <1>3 DEF Closed
<1>4. CASE \E x \in present : always' = always \ {x} /\ \A y \in present : x.id \notin y.needs
  <2>1. PICK x \in present : always' = always \ {x} /\ \A y \in present : x.id \notin y.needs
    BY <1>4
  <2>2. \A y \in always : \A n \in y.needs : n # x.id
    BY <1>2, <2>1
  <2>3. \A y \in always : y.needs \subseteq Ids(always')
    BY <1>2, <2>1, <2>2 DEF Closed, Ids
  <2> QED BY <2>1, <2>3 DEF Closed
<1> QED BY <1>1, <1>3, <1>4

\* What may be counted only grows, what must be counted only shrinks.
LEMMA PartsStep ==
  ASSUME NauInv, Change, NEW v
  PROVE  /\ Part(v, ever) \subseteq Part(v, ever)'
         /\ Part(v, always)' \subseteq Part(v, always)
<1>1. ever \subseteq ever' /\ always' \subseteq always /\ ever' \subseteq Inventory
  BY ChangeFacts
<1>2. Ids(In(v, OfKind("subnet", ever))) \subseteq Ids(In(v, OfKind("subnet", ever')))
  BY <1>1 DEF Ids, In, OfKind
<1>3. Part(v, ever) \subseteq Part(v, ever)'
  BY <1>1, <1>2 DEF Part, OfKind
<1>4. \A x \in OfKind("mount", always') :
        x.subnet \in Ids(In(v, OfKind("subnet", ever'))) => x.subnet \in Ids(In(v, OfKind("subnet", ever)))
  <2> SUFFICES ASSUME NEW x \in OfKind("mount", always'),
                      x.subnet \in Ids(In(v, OfKind("subnet", ever')))
               PROVE  x.subnet \in Ids(In(v, OfKind("subnet", ever)))
    OBVIOUS
  <2>1. x \in OfKind("mount", always)
    BY <1>1 DEF OfKind
  <2>2. x.subnet \in Ids(In(v, OfKind("subnet", Inventory)))
    BY <1>1 DEF Ids, In, OfKind
  <2>3. x.subnet \in Ids(In(v, OfKind("subnet", always)))
    BY <2>1, <2>2, SubnetAlways DEF NauInv
  <2> QED BY <2>3 DEF Ids, In, OfKind, NauInv, TypeOK
<1>5. Part(v, always)' \subseteq Part(v, always)
  BY <1>1, <1>4 DEF Part, OfKind
<1> QED BY <1>3, <1>5

\* A resource comes or goes.
LEMMA ChangeStep == ASSUME NauInv, Change PROVE NauInv'
<1>1. /\ UNCHANGED calculator /\ changes' \in 0..MaxChanges
      /\ always' \subseteq present' /\ present' \subseteq ever' /\ ever' \subseteq Inventory
      /\ ever \subseteq ever' /\ always' \subseteq always
  BY ChangeFacts
<1>2. /\ UNCHANGED <<pc, vpc, vpcPager, pager, fsPager, vpcTodo, fsTodo, fs, subnets, total, out, cut>>
      /\ Working' = Working
  BY <1>1 DEF calculator, Working
<1>3. /\ Ids(ever) \subseteq Ids(ever')
      /\ \A kind : OfKind(kind, ever) \subseteq OfKind(kind, ever')
      /\ \A kind : OfKind(kind, always') \subseteq OfKind(kind, always)
      /\ \A kind : Ids(OfKind(kind, ever)) \subseteq Ids(OfKind(kind, ever'))
      /\ \A kind : Ids(In(vpc, OfKind(kind, ever))) \subseteq Ids(In(vpc, OfKind(kind, ever')))
      /\ \A kind : Ids(In(vpc, OfKind(kind, always'))) \subseteq Ids(In(vpc, OfKind(kind, always)))
  BY <1>1 DEF Ids, In, OfKind
<1>4. TypeOK'
  BY <1>1, <1>2, <1>3 DEF NauInv, TypeOK
<1>5. Known'
  BY <1>2, <1>3 DEF NauInv, Known
<1>6. Pagers'
  BY <1>2 DEF NauInv, Pagers
<1>7. VpcsListed'
  BY <1>2, <1>3 DEF NauInv, VpcsListed
<1>8. MountsAsked'
  BY <1>2, <1>3 DEF NauInv, MountsAsked
<1>9. Counted'
  <2>1. \A x : Had(x)' <=> Had(x)
    BY <1>2 DEF Had, HadMount, Behind
  <2>2. /\ \A x \in Part(vpc, ever) : x \in Part(vpc, ever)'
        /\ \A x \in Part(vpc, always)' : x \in Part(vpc, always)
    <3>1. \A v : Part(v, ever) \subseteq Part(v, ever)' /\ Part(v, always)' \subseteq Part(v, always)
      BY PartsStep
    <3> QED BY <1>2, <3>1 DEF Part
  <2>3. Possible \subseteq Possible' /\ Certain' \subseteq Certain
    BY <1>2, <2>1, <2>2 DEF Possible, Certain
  <2> QED BY <1>2, <2>3, CountedSame DEF NauInv
<1>10. Bounded'
  <2> SUFFICES ASSUME NEW v \in DOMAIN out
               PROVE  /\ out[v] <= NauOf(v, ever)'
                      /\ v \in cut \/ NauOf(v, always)' <= out[v]
    BY <1>2 DEF Bounded
  <2>1. /\ out[v] \in Nat /\ out[v] <= NauOf(v, ever)
        /\ v \in cut \/ NauOf(v, always) <= out[v]
    BY DEF NauInv, TypeOK, Bounded
  <2>2. /\ NauOf(v, ever)' = Units(Part(v, ever)') /\ NauOf(v, always)' = Units(Part(v, always)')
        /\ NauOf(v, ever) = Units(Part(v, ever)) /\ NauOf(v, always) = Units(Part(v, always))
    BY DEF NauOf, Part
  <2>3. Part(v, ever) \subseteq Part(v, ever)' /\ Part(v, always)' \subseteq Part(v, always)
    BY PartsStep
  <2>4. Part(v, ever)' \in SUBSET Counting /\ Part(v, always) \in SUBSET Counting
    <3>1. Part(v, ever)' \in SUBSET Counting
      BY <1>1 DEF Part, OfKind, Counting
    <3>2. always \in SUBSET Inventory
      BY DEF NauInv, TypeOK
    <3> QED BY <3>1, <3>2, PartCounting
  <2>5. /\ NauOf(v, ever) <= NauOf(v, ever)' /\ NauOf(v, always)' <= NauOf(v, always)
        /\ NauOf(v, ever) \in Nat /\ NauOf(v, ever)' \in Nat
        /\ NauOf(v, always) \in Nat /\ NauOf(v, always)' \in Nat
    BY <2>2, <2>3, <2>4, UnitsMonotonic
  <2> QED BY <2>1, <2>5
<1>11. Closed'
  BY ClosedStep
<1> QED BY <1>4, <1>5, <1>6, <1>7, <1>8, <1>9, <1>10, <1>11 DEF NauInv

-----------------------------------------------------------------------------
(* Theorems.                                                               *)

\* The invariant holds at the start: nothing is listed yet.
LEMMA NauInit == Init => NauInv
<1> SUFFICES ASSUME Init PROVE NauInv
  OBVIOUS
<1>1. TypeOK /\ Known
  BY NauAssumption DEF Init, TypeOK, Known, Working
<1>2. Closed
  BY AccountAssumption DEF Init, Closed
<1>3. Pagers
  BY DEF Init, Pagers, NewPager
<1>4. VpcsListed
  BY DEF Init, VpcsListed, NewPager, Ids, Working
<1>5. MountsAsked /\ Counted /\ Bounded
  BY DEF Init, MountsAsked, Counted, Bounded, Working
<1> QED BY <1>1, <1>2, <1>3, <1>4, <1>5 DEF NauInv

\* Every step keeps it.
LEMMA NauNext == NauInv /\ [Next]_vars => NauInv'
<1> SUFFICES ASSUME NauInv, [Next]_vars PROVE NauInv'
  OBVIOUS
<1>1. CASE calculateENINau
  BY <1>1, SumKindStep DEF calculateENINau
<1>2. CASE calculateNATGatewayNau \/ calculateVPCEndpointsNau
  BY <1>2, SumOnceStep DEF calculateNATGatewayNau, calculateVPCEndpointsNau
<1>3. CASE calculateLoadBalancersNau
  <2>1. OfThisVpc("lb") \subseteq OfKind("lb", Inventory)
    BY DEF OfThisVpc, In, OfKind
  <2> QED BY <1>3, <2>1, SumKindStep DEF calculateLoadBalancersNau
<1>4. CASE calculateTransitGatewayVpcAttachmentsNau
  BY <1>4, SumKindStep DEF calculateTransitGatewayVpcAttachmentsNau
<1>5. CASE ListVpcs \/ NextVpc
  BY <1>5, ListVpcsStep, NextVpcStep
<1>6. CASE DescribeSubnets \/ ListFileSystems \/ NextFileSystem
  BY <1>6, DescribeSubnetsStep, ListFileSystemsStep, NextFileSystemStep
<1>7. CASE ListMountTargets \/ VpcDone
  BY <1>7, ListMountTargetsStep, VpcDoneStep
<1>8. CASE CallFails \/ Return
  BY <1>8, EndStep
<1>9. CASE Change
  BY <1>9, ChangeStep
<1>10. CASE UNCHANGED vars
  BY <1>10 DEF vars, account, calculator, NauInv, TypeOK, Known, Closed, Pagers, VpcsListed,
               MountsAsked, Counted, Bounded, Working, Possible, Certain, Part, Had, HadMount,
               Behind, NauOf
<1> QED BY <1>1, <1>2, <1>3, <1>4, <1>5, <1>6, <1>7, <1>8, <1>9, <1>10 DEF Next, CalculateVPCNAU

\* Whatever comes and goes between the calls, and however the listings fall into
\* pages, the invariant holds.
THEOREM NauInvariant == Spec => []NauInv
<1>1. Init => NauInv
  BY NauInit
<1>2. NauInv /\ [Next]_vars => NauInv'
  BY NauNext
<1> QED BY <1>1, <1>2, PTL DEF Spec

\* A call cut short had more to return than it returns.
CutFor ==
  \A v \in cut : \E kind \in {"nat", "endpoint", "subnet"} :
     Cardinality(In(v, OfKind(kind, ever))) > OneShot

\* So has the account at any later time, counting what is gone.
LEMMA CutForStep == NauInv /\ CutFor /\ [Next]_vars => CutFor'
<1> SUFFICES ASSUME NauInv, CutFor, [Next]_vars PROVE CutFor'
  OBVIOUS
<1>1. ever \subseteq ever' /\ IsFiniteSet(ever') /\ present \subseteq ever
  <2>1. ever \subseteq ever' /\ ever' \subseteq Inventory
    <3>1. TypeOK /\ TypeOK'
      BY NauNext DEF NauInv
    <3>2. CASE UNCHANGED ever
      BY <3>1, <3>2 DEF TypeOK
    <3>3. CASE Change
      BY <3>3, ChangeFacts
    <3>4. CalculateVPCNAU => UNCHANGED ever
      BY DEF CalculateVPCNAU, ListVpcs, NextVpc, calculateENINau, calculateNATGatewayNau,
         calculateVPCEndpointsNau, calculateLoadBalancersNau,
         calculateTransitGatewayVpcAttachmentsNau, DescribeSubnets, ListFileSystems,
         NextFileSystem, ListMountTargets, VpcDone, CallFails, Return, SumPages, SumOnce, account
    <3> QED BY <3>2, <3>3, <3>4 DEF Next, vars, account
  <2> QED BY <2>1, FS_Subset, NauAssumption DEF NauInv, TypeOK
<1>2. ASSUME NEW v, NEW kind, NEW all, all \subseteq In(v, OfKind(kind, ever)),
             Cardinality(all) > OneShot
      PROVE  Cardinality(In(v, OfKind(kind, ever'))) > OneShot
  <2>1. all \subseteq In(v, OfKind(kind, ever'))
    BY <1>1, <1>2 DEF In, OfKind
  <2>2. IsFiniteSet(In(v, OfKind(kind, ever')))
    BY <1>1, FS_Subset DEF In, OfKind
  <2>3. /\ Cardinality(all) <= Cardinality(In(v, OfKind(kind, ever')))
        /\ Cardinality(all) \in Nat /\ Cardinality(In(v, OfKind(kind, ever'))) \in Nat
    BY <2>1, <2>2, FS_Subset, FS_CardinalityType
  <2> QED BY <1>2, <2>3, NauAssumption
<1>3. \A v \in cut : \E kind \in {"nat", "endpoint", "subnet"} :
         Cardinality(In(v, OfKind(kind, ever'))) > OneShot
  BY <1>2 DEF CutFor
<1>4. CASE cut' = cut
  BY <1>3, <1>4 DEF CutFor
<1>5. ASSUME NEW kind \in {"nat", "endpoint", "subnet"}, NEW S \in Once(kind), MarkCut(kind, S)
      PROVE  CutFor'
  <2>1. CASE S = In(vpc, OfKind(kind, present))
    BY <1>4, <1>5, <2>1 DEF MarkCut
  <2>2. CASE S # In(vpc, OfKind(kind, present))
    <3>1. Cardinality(In(vpc, OfKind(kind, present))) > OneShot /\ cut' = cut \cup {vpc}
      BY <1>5, <2>2 DEF Once, MarkCut
    <3>2. In(vpc, OfKind(kind, present)) \subseteq In(vpc, OfKind(kind, ever))
      BY <1>1 DEF In, OfKind
    <3>3. Cardinality(In(vpc, OfKind(kind, ever'))) > OneShot
      BY <1>2, <3>1, <3>2
    <3> QED BY <1>3, <3>1, <3>3 DEF CutFor
  <2> QED BY <2>1, <2>2
<1>6. CASE SumOnce("nat", "endpoint") \/ SumOnce("endpoint", "lb")
  BY <1>5, <1>6 DEF SumOnce
<1>7. CASE DescribeSubnets
  BY <1>5, <1>7 DEF DescribeSubnets
<1>8. \/ cut' = cut \/ SumOnce("nat", "endpoint") \/ SumOnce("endpoint", "lb") \/ DescribeSubnets
  BY DEF Next, CalculateVPCNAU, ListVpcs, NextVpc, calculateENINau, calculateNATGatewayNau,
     calculateVPCEndpointsNau, calculateLoadBalancersNau, calculateTransitGatewayVpcAttachmentsNau,
     ListFileSystems, NextFileSystem, ListMountTargets, VpcDone, CallFails, Return, SumPages,
     Change, calculator, vars
<1> QED BY <1>4, <1>6, <1>7, <1>8

\* A result falls short only for a VPC that has more than a call returns.
LEMMA CutForInvariant == Spec => []CutFor
<1>1. Init => CutFor
  BY DEF Init, CutFor
<1> QED BY <1>1, CutForStep, NauInvariant, PTL DEF Spec

\* Types, for every account: what is waited for, what has a result and what was
\* cut short are resources that were there.
THEOREM NauTypes == Spec => []TypeOK
<1>1. NauInv => TypeOK
  BY DEF NauInv
<1> QED BY <1>1, NauInvariant, PTL

\* CalculateVPCNAU: at the end every VPC that was there all along has a result,
\* between the units of what was there all along and of what was there at some
\* time; only a call without pages leaves something out, of a VPC that has more
\* than it returns.
THEOREM EveryVpcIsCounted == Spec => []EveryVpcCounted
<1>1. NauInv /\ CutFor => EveryVpcCounted
  <2> SUFFICES ASSUME NauInv, CutFor, pc = "done" PROVE EveryVpcCounted
    BY DEF EveryVpcCounted
  <2>1. ~Working /\ vpcTodo = {} /\ ~vpcPager.more
    BY DEF NauInv, VpcsListed, Working
  <2>2. Ids(vpcPager.seen) = DOMAIN out /\ OfKind("vpc", always) \subseteq vpcPager.seen
    BY <2>1 DEF NauInv, VpcsListed
  <2>3. Ids(OfKind("vpc", always)) \subseteq DOMAIN out
    BY <2>2 DEF Ids
  <2> QED BY <2>3 DEF EveryVpcCounted, NauInv, Bounded, CutFor
<1> QED BY <1>1, NauInvariant, CutForInvariant, PTL

\* A calculation during which nothing came or went.
Quiet == changes = 0 => always = Initially /\ ever = Initially

\* Then the result is exact: it has the account's VPCs and no other, and each
\* with the units of its resources, each counted once, however the listings
\* fall into pages; unless a call without pages cut the VPC short.
THEOREM QuietAccountIsExact ==
  Spec => [](pc = "done" /\ changes = 0 =>
               /\ DOMAIN out = Ids(OfKind("vpc", Initially))
               /\ \A v \in DOMAIN out : v \in cut \/ out[v] = NauOf(v, Initially))
<1>1. Init => Quiet
  BY DEF Init, Quiet
<1>2. NauInv /\ Quiet /\ [Next]_vars => Quiet'
  <2> SUFFICES ASSUME NauInv, Quiet, [Next]_vars PROVE Quiet'
    OBVIOUS
  <2>1. UNCHANGED account \/ changes' = changes + 1
    BY DEF Next, CalculateVPCNAU, ListVpcs, NextVpc, calculateENINau, calculateNATGatewayNau,
       calculateVPCEndpointsNau, calculateLoadBalancersNau,
       calculateTransitGatewayVpcAttachmentsNau, DescribeSubnets, ListFileSystems,
       NextFileSystem, ListMountTargets, VpcDone, CallFails, Return, SumPages, SumOnce, Change, vars
  <2>2. changes \in Nat
    BY NauAssumption DEF NauInv, TypeOK
  <2> QED BY <2>1, <2>2 DEF Quiet, account
<1>3. NauInv /\ Quiet /\ EveryVpcCounted =>
        (pc = "done" /\ changes = 0 =>
           /\ DOMAIN out = Ids(OfKind("vpc", Initially))
           /\ \A v \in DOMAIN out : v \in cut \/ out[v] = NauOf(v, Initially))
  <2> SUFFICES ASSUME NauInv, Quiet, EveryVpcCounted, pc = "done", changes = 0
               PROVE  /\ DOMAIN out = Ids(OfKind("vpc", Initially))
                      /\ \A v \in DOMAIN out : v \in cut \/ out[v] = NauOf(v, Initially)
    OBVIOUS
  <2>1. always = Initially /\ ever = Initially
    BY DEF Quiet
  <2>2. DOMAIN out = Ids(OfKind("vpc", Initially))
    BY <2>1 DEF EveryVpcCounted, NauInv, TypeOK
  <2>3. \A v : NauOf(v, Initially) \in Nat
    BY NauAssumption, PartCounting, UnitsType
  <2>4. \A v \in DOMAIN out : /\ out[v] \in Nat /\ out[v] <= NauOf(v, Initially)
                              /\ v \in cut \/ NauOf(v, Initially) <= out[v]
    BY <2>1 DEF EveryVpcCounted, NauInv, TypeOK
  <2>5. ASSUME NEW v \in DOMAIN out, v \notin cut
        PROVE  out[v] = NauOf(v, Initially)
    <3> DEFINE units == NauOf(v, Initially)
    <3>1. units \in Nat
      BY <2>3
    <3>2. out[v] \in Nat /\ out[v] <= units /\ units <= out[v]
      BY <2>4, <2>5
    <3> HIDE DEF units
    <3>3. out[v] = units
      BY <3>1, <3>2
    <3> QED BY <3>3 DEF units
  <2> QED BY <2>2, <2>5
<1> QED BY <1>1, <1>2, <1>3, NauInvariant, EveryVpcIsCounted, PTL DEF Spec
=============================================================================
