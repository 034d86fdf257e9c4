---------------------------- MODULE MeteringProofs ----------------------------
(***************************************************************************)
(* Proofs about Metering: whatever the network loses, delays, repeats or    *)
(* reorders, the panel has charged exactly the facts it holds, each once,   *)
(* it never refuses a fact the Agent still has to report, and it takes back *)
(* only budget that nobody can use any more.  For any number of leases,     *)
(* entitlements, workers and abandoned requests.                            *)
(*                                                                         *)
(* What makes it inductive is a bound on what every request in the air,     *)
(* answered or abandoned, can still say (RequestOK): a usage batch holds    *)
(* facts that are pending or persisted, a retirement names a lease that is  *)
(* settled, and settled leases stay settled.                                *)
(***************************************************************************)
EXTENDS Metering, FiniteSetTheorems, TLAPS

LeaseRow == [ent : Ents, bytes : Nat, used : Nat]

Panels == [ent : Ents, alloc : [Ents -> Int], n : 0..MaxLeases, lease : [Ids -> LeaseRow],
           prim : 0..MaxLeases, stby : 0..MaxLeases, retired : SUBSET Ids, usage : SUBSET (Ids \X Nat),
           version : Nat, enabled : BOOLEAN, allowed : BOOLEAN]

Stores == [version : Nat, prim : 0..MaxLeases, stby : 0..MaxLeases, made : [Ids -> Nat],
           pend : SUBSET (Ids \X Nat), stop : [Ids -> {"none", "stopped", "acked"}]]

Bodies == [type : {"usage"}, batch : SUBSET (Ids \X Nat)] \cup [type : {"retire"}, lease : Ids, used : Nat]
            \cup [type : {"prefetch"}, lease : Ids] \cup [type : {"config"}]
Hints == [retired : 0..MaxLeases, successor : 0..MaxLeases, ask : Nat]
Configurations == [version : Nat, prim : 0..MaxLeases, stby : 0..MaxLeases]
Requests == [body : Bodies, hint : Hints, stage : {"sent", "refresh", "snapshot", "done"}, ok : BOOLEAN,
             cfg : Configurations]

\* The database knows only leases it issued, and those it has not are blank.
PanelOK(x) ==
    /\ x \in Panels
    /\ x.prim <= x.n /\ x.stby <= x.n
    /\ \A l \in x.retired : l <= x.n
    /\ \A l \in Ids : x.n < l => x.lease[l].used = 0

\* The facts of lease l: one for every byte the Agent forwarded against it.
Facts(a, l) == {<<l, k>> : k \in 1..a.made[l]}

\* Nothing of lease l can be used or reported any more.
Settled(a, l) == a.stop[l] # "none" /\ Of(a.pend, l) = {}

\* A request, its answer included, when the panel is at x and the Agent at a.
RequestOK(c, x, a) ==
    /\ c \in Requests
    /\ c.cfg.prim <= x.n /\ c.cfg.stby <= x.n
    /\ c.body.type = "usage" => /\ c.body.batch \subseteq x.usage \cup a.pend
                                /\ c.ok => c.body.batch \subseteq x.usage
    /\ c.body.type = "retire" => Settled(a, c.body.lease)

StoreOK(x, a) == a \in Stores /\ a.prim <= x.n /\ a.stby <= x.n

LeasesOK(x, a) ==
    \A l \in Ids :
        /\ x.lease[l].used = Cardinality(Of(x.usage, l))
        /\ Of(x.usage \cup a.pend, l) = Facts(a, l)
        /\ IF l <= x.n THEN a.made[l] <= x.lease[l].bytes ELSE a.made[l] = 0
        /\ l \in x.retired => Settled(a, l)

MeterInv ==
    /\ PanelOK(db) /\ StoreOK(db, ag) /\ LeasesOK(db, ag)
    /\ call \in [Workers -> Requests \cup {Idle}]
    /\ \A w \in Workers : call[w] # Idle => RequestOK(call[w], db, ag)
    /\ \A c \in late : RequestOK(c, db, ag) /\ c.stage # "done"
-----------------------------------------------------------------------------
(* Counting facts *)

LEMMA FactsCounted ==
    ASSUME NEW l, NEW m \in Nat
    PROVE  /\ IsFiniteSet({<<l, k>> : k \in 1..m})
           /\ Cardinality({<<l, k>> : k \in 1..m}) = m
<1> DEFINE S == {<<l, k>> : k \in 1..m}
           f == [k \in 1..m |-> <<l, k>>]
<1>1. f \in [1..m -> S]
  OBVIOUS
<1>2. \A j, k \in 1..m : f[j] = f[k] => j = k
  OBVIOUS
<1>3. \A s \in S : \E k \in 1..m : f[k] = s
  OBVIOUS
<1>4. f \in Bijection(1..m, S)
  BY <1>1, <1>2, <1>3 DEF Bijection, Injection, Surjection, IsInjective
<1>5. ExistsBijection(1..m, S)
  BY <1>4 DEF ExistsBijection
<1>6. IsFiniteSet(1..m) /\ Cardinality(1..m) = m
  BY FS_Interval
<1> HIDE DEF S
<1>7. IsFiniteSet(S) /\ Cardinality(S) = m
  BY <1>5, <1>6, FS_Bijection
<1> QED
  BY <1>7 DEF S

\* Two disjoint sets of facts of one lease, and the two together.
Splits(F, S, T, U) == IsFiniteSet(F) /\ S \subseteq F /\ T \subseteq F /\ S \cap T = {} /\ U = S \cup T

LEMMA Disjoint ==
    ASSUME NEW F, NEW S, NEW T, NEW U, Splits(F, S, T, U)
    PROVE  /\ Cardinality(S) \in Nat /\ Cardinality(T) \in Nat
           /\ Cardinality(U) = Cardinality(S) + Cardinality(T)
           /\ Cardinality(U) <= Cardinality(F)
<1>1. IsFiniteSet(F) /\ S \in SUBSET F /\ T \in SUBSET F /\ U \in SUBSET F /\ S \cap T = {} /\ U = S \cup T
  BY DEF Splits
<1>2. IsFiniteSet(S) /\ IsFiniteSet(T)
  BY <1>1, FS_Subset
<1>3. Cardinality(S) \in Nat /\ Cardinality(T) \in Nat
  BY <1>2, FS_CardinalityType
<1>4. Cardinality(S \cup T) = Cardinality(S) + Cardinality(T) - Cardinality(S \cap T)
  BY <1>2, FS_Union
<1>5. Cardinality(S \cap T) = 0
  BY <1>1, FS_EmptySet
<1>6. Cardinality(U) <= Cardinality(F)
  BY <1>1, FS_Subset
<1> QED
  BY <1>1, <1>3, <1>4, <1>5, <1>6

\* What a lease was charged and what is still to be charged fit into its facts.
LEMMA FactsFit ==
    ASSUME NEW x, NEW a \in Stores, LeasesOK(x, a), NEW l \in Ids, NEW B \in SUBSET (x.usage \cup a.pend)
    PROVE  /\ x.lease[l].used + Cardinality(Of(B \ x.usage, l)) <= a.made[l]
           /\ x.lease[l].used + Cardinality(Of(B \ x.usage, l)) = Cardinality(Of(x.usage \cup B, l))
           /\ Cardinality(Of(B \ x.usage, l)) \in Nat
           /\ x.lease[l].used \in Nat /\ a.made[l] \in Nat
<1>1. a.made[l] \in Nat
  BY DEF Stores
<1>2. IsFiniteSet(Facts(a, l)) /\ Cardinality(Facts(a, l)) = a.made[l]
  BY <1>1, FactsCounted DEF Facts
<1>3. x.lease[l].used = Cardinality(Of(x.usage, l)) /\ Of(x.usage \cup a.pend, l) = Facts(a, l)
  BY DEF LeasesOK
<1> DEFINE S == Of(x.usage, l)
           T == Of(B \ x.usage, l)
           F == Facts(a, l)
           U == Of(x.usage \cup B, l)
<1>4. Splits(F, S, T, U)
  <2>1. S \cap T = {} /\ S \cup T = Of(x.usage \cup B, l)
    BY DEF Of
  <2>2. Of(x.usage \cup B, l) \subseteq Of(x.usage \cup a.pend, l)
    BY DEF Of
  <2> QED
    BY <1>2, <1>3, <2>1, <2>2 DEF Splits
<1> HIDE DEF S, T, F, U
<1>5. /\ Cardinality(S) \in Nat /\ Cardinality(T) \in Nat
      /\ Cardinality(U) = Cardinality(S) + Cardinality(T)
      /\ Cardinality(U) <= Cardinality(F)
  BY <1>4, Disjoint
<1> QED
  BY <1>1, <1>2, <1>3, <1>5 DEF S, T, F, U
-----------------------------------------------------------------------------
(* The panel's transactions *)

\* What allocation and publication may do: issue leases, never touch issued ones.
Grown(x, y) ==
    /\ PanelOK(y)
    /\ x.n <= y.n
    /\ y.retired = x.retired /\ y.usage = x.usage
    /\ \A l \in Ids : /\ y.lease[l].used = x.lease[l].used
                      /\ l <= x.n => y.lease[l] = x.lease[l]

LEMMA GrownSame ==
    ASSUME NEW x, PanelOK(x)
    PROVE  Grown(x, x)
BY DEF Grown, PanelOK, Panels

LEMMA GrownTwice ==
    ASSUME NEW x, NEW y, NEW z, PanelOK(x), Grown(x, y), Grown(y, z)
    PROVE  Grown(x, z)
<1>1. x.n \in Nat /\ y.n \in Nat /\ z.n \in Nat
  BY DEF Grown, PanelOK, Panels
<1>2. \A l \in Ids : l \in Nat
  BY PanelConstants DEF Ids
<1> QED
  BY <1>1, <1>2 DEF Grown

LEMMA BudgetType ==
    ASSUME NEW x, NEW ask \in Nat
    PROVE  Budget(x, ask) \in Nat /\ (Budget(x, ask) # 0 => x.n < MaxLeases)
<1> DEFINE left == IF Quota[x.ent] = 0 THEN ask ELSE Quota[x.ent] - x.alloc[x.ent]
           out == MapThenSumSet(LAMBDA l : x.lease[l].bytes, OpenLeases(x))
           b == Min({ask, left, Outstanding - out})
<1>1. Budget(x, ask) = IF x.n < MaxLeases /\ b \in 1..ask THEN b ELSE 0
  BY DEF Budget
<1> HIDE DEF b
<1> QED
  BY <1>1

LEMMA GrantGrows ==
    ASSUME NEW x, PanelOK(x), NEW ask \in Nat, Budget(x, ask) # 0
    PROVE  Grown(x, Grant(x, ask)) /\ Grant(x, ask).n = x.n + 1
<1> DEFINE b == Budget(x, ask)
           y == Grant(x, ask)
           m == x.n + 1
<1>1. b \in Nat /\ x.n < MaxLeases
  BY BudgetType
<1>2. x \in Panels /\ x.n \in 0..MaxLeases /\ m \in Ids /\ m \in 0..MaxLeases /\ MaxLeases \in Nat
  <2>1. x \in Panels /\ x.n \in 0..MaxLeases /\ MaxLeases \in Nat
    BY PanelConstants DEF PanelOK, Panels
  <2> QED
    BY <1>1, <2>1 DEF Ids
<1>3. y = [x EXCEPT !.n = x.n + 1, !.alloc[x.ent] = x.alloc[x.ent] + b,
                    !.lease[m] = [ent |-> x.ent, bytes |-> b, used |-> 0]]
  BY DEF Grant
<1> HIDE DEF b
<1>4. /\ y.n = m /\ y.retired = x.retired /\ y.usage = x.usage /\ y.prim = x.prim /\ y.stby = x.stby
      /\ y.lease = [x.lease EXCEPT ![m] = [ent |-> x.ent, bytes |-> b, used |-> 0]]
      /\ y.alloc = [x.alloc EXCEPT ![x.ent] = x.alloc[x.ent] + b]
      /\ y = [x EXCEPT !.n = y.n, !.alloc = y.alloc, !.lease = y.lease]
  BY <1>2, <1>3 DEF Panels
<1> HIDE DEF y
<1>5. y.lease \in [Ids -> LeaseRow] /\ y.alloc \in [Ents -> Int]
  BY <1>1, <1>2, <1>4 DEF Panels, LeaseRow
<1>6. y \in Panels
  BY <1>2, <1>4, <1>5 DEF Panels
<1>7. \A l \in Ids : l # m => y.lease[l] = x.lease[l]
  BY <1>2, <1>4 DEF Panels
<1>8. y.lease[m].used = 0 /\ x.lease[m].used = 0
  BY <1>2, <1>4 DEF PanelOK, Panels, LeaseRow
<1>9. \A l \in Ids : l \in Nat
  BY PanelConstants DEF Ids
<1> QED
  <2>1. PanelOK(y)
    <3>1. \A l \in Ids : y.n < l => x.n < l /\ l # m
      BY <1>2, <1>4, <1>9
    <3>2. \A l \in Ids : y.n < l => y.lease[l].used = 0
      BY <1>7, <3>1 DEF PanelOK
    <3>3. y.prim <= y.n /\ y.stby <= y.n
      BY <1>2, <1>4 DEF PanelOK, Panels
    <3>4. \A l \in y.retired : l <= y.n
      BY <1>2, <1>4, <1>9 DEF PanelOK, Panels
    <3> QED
      BY <1>6, <3>2, <3>3, <3>4 DEF PanelOK
  <2>2. \A l \in Ids : y.lease[l].used = x.lease[l].used /\ (l <= x.n => y.lease[l] = x.lease[l])
    BY <1>2, <1>7, <1>8, <1>9
  <2>3. x.n <= y.n
    BY <1>2, <1>4
  <2>4. Grown(x, y) /\ y.n = m
    BY <1>4, <2>1, <2>2, <2>3 DEF Grown
  <2> QED
    BY <2>4 DEF y

\* Publishing leases that were issued.
Publish(x, p, s) == [x EXCEPT !.prim = p, !.stby = s]
PublishStandby(x, s) == [x EXCEPT !.stby = s]
PublishPrimary(x, p) == [x EXCEPT !.prim = p]
NewVersion(x) == [x EXCEPT !.version = @ + 1]

LEMMA PublishGrows ==
    ASSUME NEW x, PanelOK(x), NEW p, NEW s, p \in 0..MaxLeases, p <= x.n, s \in 0..MaxLeases, s <= x.n,
           NEW y, y = Publish(x, p, s) \/ y = PublishStandby(x, s) \/ y = PublishPrimary(x, p) \/ y = NewVersion(x)
    PROVE  Grown(x, y)
<1>1. x \in Panels
  BY DEF PanelOK
<1>2. y \in Panels
  <2>1. CASE y = Publish(x, p, s)
    BY <1>1, <2>1 DEF Publish, Panels
  <2>2. CASE y = PublishStandby(x, s)
    BY <1>1, <2>2 DEF PublishStandby, Panels
  <2>3. CASE y = PublishPrimary(x, p)
    BY <1>1, <2>3 DEF PublishPrimary, Panels
  <2>4. CASE y = NewVersion(x)
    BY <1>1, <2>4 DEF NewVersion, Panels
  <2> QED
    BY <2>1, <2>2, <2>3, <2>4
<1>3. /\ y.n = x.n /\ y.lease = x.lease /\ y.retired = x.retired /\ y.usage = x.usage
      /\ y.prim \in {p, x.prim} /\ y.stby \in {s, x.stby}
  BY <1>1 DEF Panels, Publish, PublishStandby, PublishPrimary, NewVersion
<1>4. PanelOK(y) /\ x.n <= y.n
  BY <1>1, <1>2, <1>3 DEF PanelOK, Panels
<1> QED
  BY <1>3, <1>4 DEF Grown

LEMMA StandbyGrows ==
    ASSUME NEW x, PanelOK(x), NEW ask \in Nat
    PROVE  Grown(x, AddStandby(x, ask)) /\ Grown(x, Hinted(x, ask))
<1>1. ASSUME Budget(x, ask) # 0
      PROVE  Grown(x, PublishStandby(Grant(x, ask), x.n + 1))
  <2> DEFINE g == Grant(x, ask)
  <2>1. Grown(x, g) /\ g.n = x.n + 1
    BY <1>1, GrantGrows
  <2> HIDE DEF g
  <2>2. PanelOK(g) /\ x.n \in Nat /\ g.n \in 0..MaxLeases
    BY <2>1 DEF Grown, PanelOK, Panels
  <2>3. x.n + 1 \in 0..MaxLeases /\ 0 \in 0..MaxLeases /\ 0 <= g.n /\ x.n + 1 <= g.n
    BY <2>1, <2>2, PanelConstants
  <2>4. Grown(g, PublishStandby(g, x.n + 1))
    BY <2>2, <2>3, PublishGrows
  <2>5. Grown(x, PublishStandby(g, x.n + 1))
    BY <2>1, <2>4, GrownTwice
  <2> QED
    BY <2>5 DEF g
<1>2. Grown(x, x)
  BY GrownSame
<1>3. Grown(x, AddStandby(x, ask))
  BY <1>1, <1>2 DEF AddStandby, PublishStandby
<1> QED
  BY <1>2, <1>3 DEF Hinted

LEMMA PrefetchGrows ==
    ASSUME NEW x, PanelOK(x), NEW ask \in Nat
    PROVE  Grown(x, Prefetch(x, ask))
<1> DEFINE y == AddStandby(x, ask)
<1>1. Grown(x, y) /\ PanelOK(y) /\ Grown(x, x)
  BY StandbyGrows, GrownSame DEF Grown
<1>2. Prefetch(x, ask) = IF y = x THEN x ELSE NewVersion(y)
  BY DEF Prefetch, NewVersion
<1>3. 0 \in 0..MaxLeases /\ 0 <= y.n
  BY <1>1, PanelConstants DEF PanelOK, Panels
<1> HIDE DEF y
<1>4. Grown(y, NewVersion(y))
  BY <1>1, <1>3, PublishGrows
<1>5. Grown(x, NewVersion(y))
  BY <1>1, <1>4, GrownTwice
<1> QED
  BY <1>1, <1>2, <1>5

\* refreshLeasesWithPrefetch
LEMMA RefreshGrows ==
    ASSUME NEW x, PanelOK(x), NEW hint \in Hints, NEW gone
    PROVE  Grown(x, Refresh(x, gone, hint))
<1> DEFINE stby == IF x.allowed /\ Live(x, x.stby, gone) THEN x.stby ELSE None
           kept == PublishStandby(x, stby)
           same == IF hint.successor = x.prim THEN Hinted(kept, hint.ask) ELSE kept
           base == Publish(x, stby, None)
           ask == IF x.prim \in x.retired \ gone THEN Max({Ask, x.lease[x.prim].bytes}) ELSE Ask
           next == IF stby # None \/ ~x.allowed \/ Budget(x, ask) = 0 THEN base
                   ELSE PublishPrimary(Grant(base, ask), x.n + 1)
           moved == IF x.allowed /\ x.prim \in x.retired \ gone /\ hint.retired = x.prim
                    THEN Hinted(next, hint.ask) ELSE next
<1>1. Refresh(x, gone, hint) =
        IF ~x.enabled THEN x
        ELSE IF x.allowed /\ Live(x, x.prim, gone)
        THEN IF same = x THEN x ELSE NewVersion(same)
        ELSE IF x.prim = None /\ next.prim = None THEN x
        ELSE NewVersion(moved)
  BY DEF Refresh, PublishStandby, Publish, PublishPrimary, NewVersion
<1>2. /\ x \in Panels /\ x.n \in 0..MaxLeases /\ MaxLeases \in Nat /\ None \in 0..MaxLeases /\ None <= x.n
      /\ stby \in 0..MaxLeases /\ stby <= x.n /\ hint.ask \in Nat
  BY PanelConstants DEF PanelOK, Panels, None, Hints
<1>3. ask \in Nat
  <2>1. Ask \in Nat
    BY PanelConstants
  <2>2. ASSUME NEW a \in Nat, NEW b \in Nat PROVE Max({a, b}) \in Nat
    BY <2>2 DEF Max
  <2>3. x.prim \in x.retired => x.lease[x.prim].bytes \in Nat
    BY <1>2 DEF Panels, LeaseRow
  <2> QED
    BY <2>1, <2>2, <2>3
<1> HIDE DEF stby, ask
<1>4. Grown(x, kept) /\ Grown(x, base)
  BY <1>2, PublishGrows
<1>5. PanelOK(kept) /\ PanelOK(base)
  BY <1>4 DEF Grown
<1>6. Grown(x, same)
  <2> HIDE DEF kept
  <2>1. Grown(kept, Hinted(kept, hint.ask))
    BY <1>2, <1>5, StandbyGrows
  <2>2. Grown(x, Hinted(kept, hint.ask))
    BY <1>4, <2>1, GrownTwice
  <2> QED
    BY <1>4, <2>2
<1>7. Grown(x, next)
  <2>1. base.n = x.n /\ Budget(base, ask) = Budget(x, ask)
    BY <1>2 DEF Publish, Panels, Budget, OpenLeases, Issued
  <2> HIDE DEF base
  <2>2. ASSUME Budget(x, ask) # 0
        PROVE  Grown(x, PublishPrimary(Grant(base, ask), x.n + 1))
    <3> DEFINE g == Grant(base, ask)
    <3>1. Grown(base, g) /\ g.n = x.n + 1
      BY <1>3, <1>5, <2>1, <2>2, GrantGrows
    <3>2. PanelOK(g) /\ x.n + 1 \in 0..MaxLeases /\ x.n + 1 <= g.n /\ 0 \in 0..MaxLeases /\ 0 <= g.n
      BY <1>2, <3>1 DEF Grown, PanelOK, Panels
    <3> HIDE DEF g
    <3>3. Grown(g, PublishPrimary(g, x.n + 1))
      BY <3>2, PublishGrows
    <3>4. Grown(base, PublishPrimary(g, x.n + 1))
      BY <1>5, <3>1, <3>3, GrownTwice
    <3>5. Grown(x, PublishPrimary(g, x.n + 1))
      BY <1>4, <3>4, GrownTwice
    <3> QED
      BY <3>5 DEF g
  <2> QED
    BY <1>4, <2>2
<1>8. PanelOK(next) /\ PanelOK(same)
  BY <1>6, <1>7 DEF Grown
<1>9. Grown(x, moved)
  <2> HIDE DEF next
  <2>1. Grown(next, Hinted(next, hint.ask))
    BY <1>2, <1>8, StandbyGrows
  <2>2. Grown(x, Hinted(next, hint.ask))
    BY <1>7, <2>1, GrownTwice
  <2> QED
    BY <1>7, <2>2
<1>10. ASSUME NEW y, Grown(x, y) PROVE Grown(x, NewVersion(y))
  <2>1. PanelOK(y) /\ 0 \in 0..MaxLeases /\ 0 <= y.n
    BY <1>10, <1>2 DEF Grown, PanelOK, Panels
  <2>2. Grown(y, NewVersion(y))
    BY <2>1, PublishGrows
  <2> QED
    BY <1>10, <2>2, GrownTwice
<1> HIDE DEF same, next, moved
<1> QED
  BY <1>1, <1>6, <1>9, <1>10, GrownSame

\* RetireLease
LEMMA RetireFields ==
    ASSUME NEW x, PanelOK(x), NEW l \in Ids, l <= x.n, NEW y, y = Retire(x, l)
    PROVE  /\ PanelOK(y)
           /\ y.n = x.n /\ y.lease = x.lease /\ y.usage = x.usage
           /\ y.retired = x.retired \cup {l}
<1>1. x \in Panels
  BY DEF PanelOK
<1>2. CASE l \in x.retired
  BY <1>2 DEF Retire
<1>3. CASE l \notin x.retired
  <2> DEFINE e == x.lease[l].ent
             v == x.alloc[e] - (x.lease[l].bytes - x.lease[l].used)
  <2>1. e \in Ents /\ v \in Int
    BY <1>1 DEF Panels, LeaseRow
  <2>2. y = [x EXCEPT !.retired = x.retired \cup {l}, !.version = x.version + 1, !.alloc[e] = v]
    BY <1>3 DEF Retire
  <2> HIDE DEF e, v
  <2>3. /\ y.n = x.n /\ y.lease = x.lease /\ y.usage = x.usage /\ y.prim = x.prim /\ y.stby = x.stby
        /\ y.retired = x.retired \cup {l}
        /\ y.alloc = [x.alloc EXCEPT ![e] = v] /\ y.version = x.version + 1
        /\ y = [x EXCEPT !.retired = y.retired, !.version = y.version, !.alloc = y.alloc]
    BY <1>1, <2>2 DEF Panels
  <2>4. y.alloc \in [Ents -> Int] /\ y.version \in Nat /\ y.retired \in SUBSET Ids
    BY <1>1, <2>1, <2>3 DEF Panels
  <2>5. y \in Panels
    BY <1>1, <2>3, <2>4 DEF Panels
  <2> QED
    BY <2>3, <2>5 DEF PanelOK
<1> QED
  BY <1>2, <1>3

\* Finitely many new facts in the batch, all of issued leases.
Chargeable(x, batch) ==
    \A l \in Ids : /\ Cardinality(Of(batch \ x.usage, l)) \in Nat
                   /\ x.n < l => Cardinality(Of(batch \ x.usage, l)) = 0

Persisted(x, batch, y) ==
    /\ PanelOK(y)
    /\ y.n = x.n /\ y.usage = x.usage \cup batch /\ y.retired = x.retired
    /\ \A l \in Ids : /\ y.lease[l].used = x.lease[l].used + Cardinality(Of(batch \ x.usage, l))
                     /\ y.lease[l].bytes = x.lease[l].bytes

\* persistUsageBatch
LEMMA PersistFields ==
    ASSUME NEW x, PanelOK(x), NEW batch \in SUBSET (Ids \X Nat), Chargeable(x, batch),
           NEW y, y = Persist(x, batch)
    PROVE  Persisted(x, batch, y)
<1>1. x \in Panels
  BY DEF PanelOK
<1> DEFINE row(l) == [x.lease[l] EXCEPT !.used = x.lease[l].used + Cardinality(Of(batch \ x.usage, l))]
           rows == [l \in Ids |-> row(l)]
<1>2. ASSUME NEW l \in Ids
      PROVE  /\ row(l) \in LeaseRow /\ row(l).bytes = x.lease[l].bytes
             /\ row(l).used = x.lease[l].used + Cardinality(Of(batch \ x.usage, l))
  <2> DEFINE c == Cardinality(Of(batch \ x.usage, l))
  <2>1. c \in Nat /\ x.lease[l] \in LeaseRow
    BY <1>1 DEF Panels, Chargeable
  <2> HIDE DEF c
  <2>2. [x.lease[l] EXCEPT !.used = x.lease[l].used + c] \in LeaseRow
    BY <2>1 DEF LeaseRow
  <2>3. /\ [x.lease[l] EXCEPT !.used = x.lease[l].used + c].bytes = x.lease[l].bytes
        /\ [x.lease[l] EXCEPT !.used = x.lease[l].used + c].used = x.lease[l].used + c
    BY <2>1 DEF LeaseRow
  <2> QED
    BY <2>2, <2>3 DEF c
<1>3. y = [x EXCEPT !.usage = x.usage \cup batch, !.lease = rows]
  BY DEF Persist
<1> HIDE DEF row
<1>4. rows \in [Ids -> LeaseRow] /\ \A l \in Ids : rows[l] = row(l)
  BY <1>2
<1> HIDE DEF rows
<1>5. y \in Panels
  <2>1. x.usage \cup batch \in SUBSET (Ids \X Nat)
    BY <1>1 DEF Panels
  <2> QED
    BY <1>1, <1>3, <1>4, <2>1, Zenon DEF Panels
<1>6. /\ y.n = x.n /\ y.usage = x.usage \cup batch /\ y.retired = x.retired /\ y.lease = rows
      /\ y.prim = x.prim /\ y.stby = x.stby
  BY <1>1, <1>3 DEF Panels
<1>7. \A l \in Ids : /\ y.lease[l].used = x.lease[l].used + Cardinality(Of(batch \ x.usage, l))
                     /\ y.lease[l].bytes = x.lease[l].bytes
  BY <1>2, <1>4, <1>6
<1>8. \A l \in Ids : x.n < l => y.lease[l].used = 0
  <2> SUFFICES ASSUME NEW l \in Ids, x.n < l PROVE y.lease[l].used = 0
    OBVIOUS
  <2>1. x.lease[l].used = 0 /\ Cardinality(Of(batch \ x.usage, l)) = 0
    BY DEF PanelOK, Chargeable
  <2>2. y.lease[l].used = 0 + 0
    BY <1>7, <2>1
  <2> QED
    BY <2>2
<1> QED
  BY <1>5, <1>6, <1>7, <1>8 DEF PanelOK, Persisted
-----------------------------------------------------------------------------
(* What a transaction leaves true *)

Moved(x, y, a) == PanelOK(y) /\ LeasesOK(y, a) /\ x.n <= y.n /\ x.usage \subseteq y.usage

LEMMA GrownMoves ==
    ASSUME NEW x, NEW y, NEW a \in Stores, PanelOK(x), LeasesOK(x, a), Grown(x, y)
    PROVE  Moved(x, y, a)
<1>1. ASSUME NEW l \in Ids
      PROVE  /\ y.lease[l].used = Cardinality(Of(y.usage, l))
             /\ Of(y.usage \cup a.pend, l) = Facts(a, l)
             /\ IF l <= y.n THEN a.made[l] <= y.lease[l].bytes ELSE a.made[l] = 0
             /\ l \in y.retired => Settled(a, l)
  <2>0. y.lease[l] \in LeaseRow /\ x.n \in Nat /\ y.n \in Nat
    BY DEF Grown, PanelOK, Panels
  <2>1. l \in Nat /\ x.n \in Nat /\ y.n \in Nat /\ y.lease[l].bytes \in Nat
    BY <2>0, PanelConstants DEF Ids, LeaseRow
  <2>2. /\ y.usage = x.usage /\ y.retired = x.retired /\ y.lease[l].used = x.lease[l].used
        /\ x.n <= y.n /\ (l <= x.n => y.lease[l] = x.lease[l])
    BY DEF Grown
  <2>3. /\ x.lease[l].used = Cardinality(Of(x.usage, l))
        /\ Of(x.usage \cup a.pend, l) = Facts(a, l)
        /\ IF l <= x.n THEN a.made[l] <= x.lease[l].bytes ELSE a.made[l] = 0
        /\ l \in x.retired => Settled(a, l)
    BY DEF LeasesOK
  <2>4. IF l <= y.n THEN a.made[l] <= y.lease[l].bytes ELSE a.made[l] = 0
    BY <2>1, <2>2, <2>3
  <2> QED
    BY <2>2, <2>3, <2>4
<1>2. LeasesOK(y, a)
  BY <1>1 DEF LeasesOK
<1> QED
  BY <1>2 DEF Moved, Grown

LEMMA RetireMoves ==
    ASSUME NEW x, NEW a \in Stores, PanelOK(x), LeasesOK(x, a), NEW l \in Ids, l <= x.n, Settled(a, l)
    PROVE  Moved(x, Retire(x, l), a)
<1> DEFINE y == Retire(x, l)
<1>1. /\ PanelOK(y) /\ y.n = x.n /\ y.lease = x.lease /\ y.usage = x.usage
      /\ y.retired = x.retired \cup {l}
  BY RetireFields
<1> HIDE DEF y
<1>2. LeasesOK(y, a)
  BY <1>1 DEF LeasesOK
<1>3. x.n <= y.n
  BY <1>1 DEF PanelOK, Panels
<1>4. Moved(x, y, a)
  BY <1>1, <1>2, <1>3 DEF Moved
<1> QED
  BY <1>4 DEF y

LEMMA PersistMoves ==
    ASSUME NEW x, NEW a \in Stores, PanelOK(x), LeasesOK(x, a),
           NEW batch \in SUBSET (Ids \X Nat), batch \subseteq x.usage \cup a.pend
    PROVE  Moved(x, Persist(x, batch), a) /\ batch \subseteq Persist(x, batch).usage
<1> DEFINE y == Persist(x, batch)
<1>1. ASSUME NEW l \in Ids
      PROVE  /\ x.lease[l].used + Cardinality(Of(batch \ x.usage, l)) <= a.made[l]
             /\ x.lease[l].used + Cardinality(Of(batch \ x.usage, l)) = Cardinality(Of(x.usage \cup batch, l))
             /\ Cardinality(Of(batch \ x.usage, l)) \in Nat
             /\ x.lease[l].used \in Nat /\ a.made[l] \in Nat
  BY FactsFit
<1>2. ASSUME NEW l \in Ids, x.n < l
      PROVE  Cardinality(Of(batch \ x.usage, l)) = 0
  <2>0. l \in Nat /\ x.n \in Nat
    BY PanelConstants DEF PanelOK, Panels, Ids
  <2>1. a.made[l] = 0
    BY <1>2, <2>0 DEF LeasesOK
  <2> DEFINE c == Cardinality(Of(batch \ x.usage, l))
  <2>2. x.lease[l].used + c <= a.made[l] /\ c \in Nat /\ x.lease[l].used \in Nat
    BY <1>1
  <2> HIDE DEF c
  <2>3. c = 0
    BY <2>1, <2>2
  <2> QED
    BY <2>3 DEF c
<1>0. Chargeable(x, batch)
  BY <1>1, <1>2 DEF Chargeable
<1>3. /\ PanelOK(y)
      /\ y.n = x.n /\ y.usage = x.usage \cup batch /\ y.retired = x.retired
      /\ \A l \in Ids : /\ y.lease[l].used = x.lease[l].used + Cardinality(Of(batch \ x.usage, l))
                       /\ y.lease[l].bytes = x.lease[l].bytes
  <2>1. Persisted(x, batch, y)
    BY <1>0, PersistFields
  <2> QED
    BY <2>1 DEF Persisted
<1> HIDE DEF y
<1>4. y.usage \cup a.pend = x.usage \cup a.pend
  BY <1>3
<1>5. ASSUME NEW l \in Ids
      PROVE  /\ y.lease[l].used = Cardinality(Of(y.usage, l))
             /\ Of(y.usage \cup a.pend, l) = Facts(a, l)
             /\ IF l <= y.n THEN a.made[l] <= y.lease[l].bytes ELSE a.made[l] = 0
             /\ l \in y.retired => Settled(a, l)
  <2>1. y.lease[l].used = Cardinality(Of(y.usage, l))
    BY <1>1, <1>3
  <2> QED
    BY <1>3, <1>4, <2>1 DEF LeasesOK
<1>6. LeasesOK(y, a)
  BY <1>5 DEF LeasesOK
<1>7. x.n <= y.n
  BY <1>3 DEF PanelOK, Panels
<1>8. Moved(x, y, a) /\ batch \subseteq y.usage
  BY <1>3, <1>6, <1>7 DEF Moved
<1> QED
  BY <1>8 DEF y

\* What was sent stays true while panel and Agent go on.
LEMMA RequestKept ==
    ASSUME NEW c, NEW x, NEW a, NEW y, NEW b, RequestOK(c, x, a), x.n \in Nat, y.n \in Nat,
           x.n <= y.n, x.usage \subseteq y.usage, x.usage \cup a.pend \subseteq y.usage \cup b.pend,
           \A l \in Ids : Settled(a, l) => Settled(b, l)
    PROVE  RequestOK(c, y, b)
<1>1. c.cfg.prim \in Nat /\ c.cfg.stby \in Nat /\ c.body \in Bodies
  BY PanelConstants DEF RequestOK, Requests, Configurations
<1>2. c.body.type = "retire" => c.body.lease \in Ids
  BY <1>1 DEF Bodies
<1> QED
  BY <1>1, <1>2 DEF RequestOK

\* An answer, or the next stage of a request, for the same body.
LEMMA AnswerOK ==
    ASSUME NEW c, NEW x, NEW a, NEW y, RequestOK(c, x, a), x.n \in Nat, y.n \in Nat,
           x.n <= y.n, x.usage \subseteq y.usage,
           NEW k \in Requests, k.body = c.body, k.cfg.prim <= y.n, k.cfg.stby <= y.n,
           c.body.type = "usage" /\ k.ok => c.ok \/ c.body.batch \subseteq y.usage
    PROVE  RequestOK(k, y, a)
BY DEF RequestOK
-----------------------------------------------------------------------------
(* The panel's handlers *)


\* One transaction of a handler, whoever still waits for it.
LEMMA AdvanceStep ==
    ASSUME MeterInv, NEW c, RequestOK(c, db, ag), c.stage # "done",
           NEW y, y = Advance(c).db, NEW k, k = Advance(c).call
    PROVE  Moved(db, y, ag) /\ RequestOK(k, y, ag)
<1>1. /\ PanelOK(db) /\ ag \in Stores /\ LeasesOK(db, ag) /\ c \in Requests
      /\ db.n \in Nat /\ db.stby \in 0..MaxLeases
  BY DEF MeterInv, StoreOK, RequestOK, PanelOK, Panels
<1>2. c.body \in Bodies /\ c.hint \in Hints /\ c.cfg \in Configurations /\ c.stage \in {"sent", "refresh", "snapshot"}
  BY <1>1 DEF Requests
<1>3. /\ c.body.type \in {"usage", "retire", "prefetch", "config"}
      /\ c.body.type = "usage" => c.body.batch \in SUBSET (Ids \X Nat)
      /\ c.body.type = "retire" => c.body.lease \in Ids
  BY <1>2 DEF Bodies
<1>4. NoHint \in Hints /\ Ask \in Nat
  BY PanelConstants DEF NoHint, Hints, None
<1>5. Moved(db, db, ag)
  BY <1>1, GrownSame, GrownMoves
<1>6. ASSUME Moved(db, y, ag), k \in Requests, k.body = c.body, k.cfg = c.cfg,
             c.body.type = "usage" /\ k.ok => c.ok \/ c.body.batch \subseteq y.usage
      PROVE  RequestOK(k, y, ag)
  <2>1. y.n \in Nat /\ db.n <= y.n /\ db.usage \subseteq y.usage
    BY <1>6 DEF Moved, PanelOK, Panels
  <2>2. k.cfg.prim <= db.n /\ k.cfg.stby <= db.n /\ k.cfg.prim \in Nat /\ k.cfg.stby \in Nat
    BY <1>2, <1>6 DEF RequestOK, Configurations
  <2>3. k.cfg.prim <= y.n /\ k.cfg.stby <= y.n
    BY <1>1, <2>1, <2>2
  <2> QED
    BY <1>1, <1>6, <2>1, <2>3, AnswerOK
<1>7. CASE c.stage = "sent" /\ c.body.type = "usage"
  <2>1. Advance(c) = IF UsageOK(db, c.body.batch)
                     THEN [db |-> Persist(db, c.body.batch), call |-> [c EXCEPT !.stage = "done", !.ok = TRUE]]
                     ELSE [db |-> db, call |-> [c EXCEPT !.stage = "done"]]
    BY <1>7 DEF Advance, Handle, Refuse
  <2>2. c.body.batch \subseteq db.usage \cup ag.pend
    BY <1>7 DEF RequestOK
  <2>3. CASE UsageOK(db, c.body.batch)
    <3>1. y = Persist(db, c.body.batch) /\ k = [c EXCEPT !.stage = "done", !.ok = TRUE]
      BY <2>1, <2>3
    <3>2. Moved(db, y, ag) /\ c.body.batch \subseteq y.usage
      BY <1>1, <1>3, <1>7, <2>2, <3>1, PersistMoves
    <3>3. k \in Requests /\ k.body = c.body /\ k.cfg = c.cfg
      BY <1>1, <3>1 DEF Requests
    <3> QED
      BY <1>6, <3>2, <3>3
  <2>4. CASE ~UsageOK(db, c.body.batch)
    <3>1. y = db /\ k = [c EXCEPT !.stage = "done"]
      BY <2>1, <2>4
    <3>2. k \in Requests /\ k.body = c.body /\ k.cfg = c.cfg /\ k.ok = c.ok
      BY <1>1, <3>1 DEF Requests
    <3> QED
      BY <1>5, <1>6, <3>1, <3>2
  <2> QED
    BY <2>3, <2>4
<1>8. CASE c.stage = "sent" /\ c.body.type = "retire"
  <2>1. Advance(c) = IF RetireOK(db, c.body.lease, c.body.used)
                     THEN [db |-> Retire(db, c.body.lease),
                           call |-> [[c EXCEPT !.stage = "refresh", !.ok = TRUE] EXCEPT !.hint = HintOf(c)]]
                     ELSE [db |-> db, call |-> [c EXCEPT !.stage = "done"]]
    BY <1>8 DEF Advance, Handle, Refuse
  <2>2. Settled(ag, c.body.lease)
    BY <1>8 DEF RequestOK
  <2>3. CASE RetireOK(db, c.body.lease, c.body.used)
    <3>1. y = Retire(db, c.body.lease) /\ k = [[c EXCEPT !.stage = "refresh", !.ok = TRUE] EXCEPT !.hint = HintOf(c)]
      BY <2>1, <2>3
    <3>2. c.body.lease <= db.n
      BY <1>1, <2>3 DEF RetireOK, Issued
    <3>3. Moved(db, y, ag)
      BY <1>1, <1>3, <1>8, <2>2, <3>1, <3>2, RetireMoves
    <3>4. HintOf(c) \in Hints
      BY <1>1, <1>3, <1>4, <1>8, PanelConstants DEF HintOf, Hints, Ids
    <3>5. k \in Requests /\ k.body = c.body /\ k.cfg = c.cfg
      BY <1>1, <3>1, <3>4 DEF Requests
    <3> QED
      BY <1>6, <1>8, <3>3, <3>5
  <2>4. CASE ~RetireOK(db, c.body.lease, c.body.used)
    <3>1. y = db /\ k = [c EXCEPT !.stage = "done"]
      BY <2>1, <2>4
    <3>2. k \in Requests /\ k.body = c.body /\ k.cfg = c.cfg /\ k.ok = c.ok
      BY <1>1, <3>1 DEF Requests
    <3> QED
      BY <1>5, <1>6, <3>1, <3>2
  <2> QED
    BY <2>3, <2>4
<1>9. CASE c.stage = "sent" /\ c.body.type = "prefetch"
  <2>1. Advance(c) = IF PrefetchOK(db, c.body.lease, lapsed)
                     THEN [db |-> Prefetch(db, Ask), call |-> [c EXCEPT !.stage = "refresh", !.ok = TRUE]]
                     ELSE [db |-> db, call |-> [c EXCEPT !.stage = "done"]]
    BY <1>9 DEF Advance, Handle, Refuse
  <2>2. /\ y = Prefetch(db, Ask) \/ y = db
        /\ k = [c EXCEPT !.stage = "refresh", !.ok = TRUE] \/ k = [c EXCEPT !.stage = "done"]
    BY <2>1
  <2>3. Moved(db, y, ag)
    BY <1>1, <1>4, <1>5, <2>2, PrefetchGrows, GrownMoves
  <2>4. k \in Requests /\ k.body = c.body /\ k.cfg = c.cfg
    BY <1>1, <2>2 DEF Requests
  <2> QED
    BY <1>6, <1>9, <2>3, <2>4
<1>10. CASE c.stage = "sent" /\ c.body.type = "config"
  <2>1. /\ y = Refresh(db, lapsed, NoHint)
        /\ k = [[c EXCEPT !.stage = "refresh", !.ok = TRUE] EXCEPT !.stage = "snapshot"]
    BY <1>10 DEF Advance, Handle
  <2>2. Moved(db, y, ag)
    BY <1>1, <1>4, <2>1, RefreshGrows, GrownMoves
  <2>3. k \in Requests /\ k.body = c.body /\ k.cfg = c.cfg
    BY <1>1, <2>1 DEF Requests
  <2> QED
    BY <1>6, <1>10, <2>2, <2>3
<1>11. CASE c.stage = "refresh"
  <2>1. y = Refresh(db, lapsed, c.hint) /\ k = [c EXCEPT !.stage = "snapshot"]
    BY <1>11 DEF Advance
  <2>2. Moved(db, y, ag)
    BY <1>1, <1>2, <2>1, RefreshGrows, GrownMoves
  <2>3. k \in Requests /\ k.body = c.body /\ k.cfg = c.cfg /\ k.ok = c.ok
    BY <1>1, <2>1 DEF Requests
  <2> QED
    BY <1>6, <2>2, <2>3
<1>12. CASE c.stage = "snapshot"
  <2> DEFINE f == Snapshot(db, lapsed)
  <2>1. y = db /\ k = [c EXCEPT !.stage = "done", !.cfg = f]
    BY <1>12 DEF Advance
  <2>2. f \in Configurations /\ f.prim <= db.n /\ f.stby <= db.n
    BY <1>1, PanelConstants DEF Snapshot, Configurations, None, PanelOK, Panels
  <2> HIDE DEF f
  <2>3. k \in Requests /\ k.body = c.body /\ k.cfg = f /\ k.ok = c.ok
    BY <1>1, <2>1, <2>2 DEF Requests
  <2>4. RequestOK(k, db, ag)
    BY <2>2, <2>3 DEF RequestOK
  <2> QED
    BY <1>5, <2>1, <2>4
<1> QED
  BY <1>2, <1>3, <1>7, <1>8, <1>9, <1>10, <1>11, <1>12
-----------------------------------------------------------------------------
(* The Agent's steps *)

\* The Agent goes from a to b: nothing that was settled is used again, and what was
\* reported or is still to be reported stays known.
Goes(x, a, b) ==
    /\ StoreOK(x, b) /\ LeasesOK(x, b)
    /\ x.usage \cup a.pend \subseteq x.usage \cup b.pend
    /\ \A l \in Ids : Settled(a, l) => Settled(b, l)

\* Confirmed facts are forgotten and leases are stopped; nothing is forwarded.
LEMMA StopGoes ==
    ASSUME NEW x, NEW a, NEW b, StoreOK(x, a), LeasesOK(x, a), StoreOK(x, b), b.made = a.made,
           b.pend \subseteq a.pend, a.pend \subseteq x.usage \cup b.pend,
           \A l \in Ids : a.stop[l] # "none" => b.stop[l] # "none"
    PROVE  Goes(x, a, b)
<1>1. ASSUME NEW l \in Ids
      PROVE  Settled(a, l) => Settled(b, l)
  BY DEF Settled, Of
<1>2. ASSUME NEW l \in Ids
      PROVE  Of(x.usage \cup b.pend, l) = Of(x.usage \cup a.pend, l) /\ Facts(b, l) = Facts(a, l)
  BY DEF Of, Facts
<1>3. LeasesOK(x, b)
  BY <1>1, <1>2 DEF LeasesOK
<1> QED
  BY <1>1, <1>3 DEF Goes

LEMMA GoesTwice ==
    ASSUME NEW x, NEW a, NEW b, NEW c, Goes(x, a, b), Goes(x, b, c)
    PROVE  Goes(x, a, c)
BY DEF Goes

\* One byte is forwarded: a new fact, of a lease that is not settled.
LEMMA UseGoes ==
    ASSUME MeterInv, NEW l \in Issued(db), Use(l)
    PROVE  Goes(db, ag, ag')
<1>1. /\ ag \in Stores /\ l \in Ids /\ db.n \in Nat /\ l <= db.n
      /\ ag.stop[l] = "none" /\ ag.made[l] < db.lease[l].bytes /\ ag.made[l] \in Nat
      /\ ag' = [ag EXCEPT !.made[l] = ag.made[l] + 1, !.pend = ag.pend \cup {<<l, ag.made[l] + 1>>}]
  <2>1. ag \in Stores /\ db.n \in 0..MaxLeases
    BY DEF MeterInv, StoreOK, PanelOK, Panels
  <2>2. l \in Ids /\ l <= db.n
    BY <2>1, PanelConstants DEF Issued, Ids
  <2>3. ag.made[l] \in Nat
    BY <2>1, <2>2 DEF Stores
  <2> QED
    BY <2>1, <2>2, <2>3, PanelConstants DEF Use
<1> DEFINE k == ag.made[l] + 1
<1>2. /\ ag'.pend = ag.pend \cup {<<l, k>>} /\ ag'.made = [ag.made EXCEPT ![l] = k] /\ ag'.stop = ag.stop
      /\ ag'.prim = ag.prim /\ ag'.stby = ag.stby /\ ag'.version = ag.version
      /\ ag' = [ag EXCEPT !.made = ag'.made, !.pend = ag'.pend]
  BY <1>1 DEF Stores
<1>3. k \in Nat /\ 1..k = (1..ag.made[l]) \cup {k} /\ k <= db.lease[l].bytes
  <2>1. db.lease[l].bytes \in Nat
    BY <1>1 DEF MeterInv, PanelOK, Panels, LeaseRow
  <2> QED
    BY <1>1, <2>1
<1> HIDE DEF k
<1>4. ag' \in Stores
  <2>1. ag'.made \in [Ids -> Nat] /\ ag'.pend \in SUBSET (Ids \X Nat)
    BY <1>1, <1>2, <1>3 DEF Stores
  <2> QED
    BY <1>1, <1>2, <2>1 DEF Stores
<1>5. StoreOK(db, ag')
  BY <1>2, <1>4 DEF MeterInv, StoreOK
<1>6. ASSUME NEW m \in Ids, m # l
      PROVE  /\ ag'.made[m] = ag.made[m] /\ Facts(ag', m) = Facts(ag, m)
             /\ Of(ag'.pend, m) = Of(ag.pend, m) /\ Of(db.usage \cup ag'.pend, m) = Of(db.usage \cup ag.pend, m)
  <2>1. ag'.made[m] = ag.made[m]
    BY <1>1, <1>2, <1>6 DEF Stores
  <2> QED
    BY <1>2, <1>6, <2>1 DEF Of, Facts
<1>7. /\ ag'.made[l] = k /\ Facts(ag', l) = Facts(ag, l) \cup {<<l, k>>}
      /\ Of(db.usage \cup ag'.pend, l) = Of(db.usage \cup ag.pend, l) \cup {<<l, k>>}
  <2>1. ag'.made[l] = k
    BY <1>1, <1>2 DEF Stores
  <2>2. Facts(ag', l) = {<<l, j>> : j \in (1..ag.made[l]) \cup {k}}
    BY <1>3, <2>1 DEF Facts
  <2>3. {<<l, j>> : j \in (1..ag.made[l]) \cup {k}} = {<<l, j>> : j \in 1..ag.made[l]} \cup {<<l, k>>}
    OBVIOUS
  <2>4. Of(db.usage \cup ag'.pend, l) = Of(db.usage \cup ag.pend, l) \cup {<<l, k>>}
    BY <1>2 DEF Of
  <2> QED
    BY <2>1, <2>2, <2>3, <2>4 DEF Facts
<1>8. ~Settled(ag, l)
  BY <1>1 DEF Settled
<1>9. \A m \in Ids : Settled(ag, m) => Settled(ag', m)
  BY <1>2, <1>6, <1>8 DEF Settled
<1>10. LeasesOK(db, ag')
  <2>1. LeasesOK(db, ag)
    BY DEF MeterInv
  <2>2. ASSUME NEW m \in Ids
        PROVE  /\ db.lease[m].used = Cardinality(Of(db.usage, m))
               /\ Of(db.usage \cup ag'.pend, m) = Facts(ag', m)
               /\ IF m <= db.n THEN ag'.made[m] <= db.lease[m].bytes ELSE ag'.made[m] = 0
               /\ m \in db.retired => Settled(ag', m)
    <3>1. CASE m = l
      BY <1>1, <1>3, <1>7, <1>8, <2>1, <3>1 DEF LeasesOK
    <3>2. CASE m # l
      BY <1>6, <1>9, <2>1, <3>2 DEF LeasesOK
    <3> QED
      BY <3>1, <3>2
  <2> QED
    BY <2>2 DEF LeasesOK
<1> QED
  BY <1>2, <1>5, <1>9, <1>10 DEF Goes

\* retireRenewal stops the primary.
LEMMA StopPrimaryGoes ==
    ASSUME MeterInv, StopPrimary
    PROVE  Goes(db, ag, ag')
<1>1. /\ ag \in Stores /\ ag.prim \in Ids
      /\ ag' = [ag EXCEPT !.stop[ag.prim] = "stopped"]
  BY PanelConstants DEF MeterInv, StoreOK, Stores, StopPrimary, Ids, None
<1> DEFINE stops == [ag.stop EXCEPT ![ag.prim] = "stopped"]
<1>0. ag' = [ag EXCEPT !.stop = stops] /\ stops \in [Ids -> {"none", "stopped", "acked"}]
  BY <1>1 DEF Stores
<1> HIDE DEF stops
<1>2. ag' \in Stores /\ ag'.prim = ag.prim /\ ag'.stby = ag.stby /\ ag'.made = ag.made /\ ag'.pend = ag.pend
  BY <1>0, <1>1 DEF Stores
<1>3. \A l \in Ids : ag.stop[l] # "none" => ag'.stop[l] # "none"
  BY <1>1 DEF Stores
<1>4. StoreOK(db, ag) /\ StoreOK(db, ag') /\ LeasesOK(db, ag)
  BY <1>2 DEF MeterInv, StoreOK
<1> QED
  BY <1>2, <1>3, <1>4, StopGoes

\* Runtime.Apply and SetConfig
LEMMA AppliedGoes ==
    ASSUME NEW x, NEW a, StoreOK(x, a), LeasesOK(x, a),
           NEW c \in Configurations, c.prim <= x.n, c.stby <= x.n
    PROVE  Goes(x, a, Applied(a, c))
<1>0. Goes(x, a, a)
  BY StopGoes
<1> DEFINE stops == [l \in Ids |-> IF l \in ({a.prim, a.stby} \ {c.prim, c.stby, None}) /\ a.stop[l] = "none"
                                   THEN "stopped" ELSE a.stop[l]]
           b == [a EXCEPT !.version = c.version, !.prim = c.prim, !.stby = c.stby, !.stop = stops]
<1>1. Applied(a, c) = a \/ Applied(a, c) = b
  BY DEF Applied
<1>2. a \in Stores
  BY DEF StoreOK
<1>3. stops \in [Ids -> {"none", "stopped", "acked"}] /\ \A l \in Ids : a.stop[l] # "none" => stops[l] # "none"
  BY <1>2 DEF Stores
<1> HIDE DEF stops
<1>4. b \in Stores /\ b.made = a.made /\ b.pend = a.pend /\ b.stop = stops /\ b.prim = c.prim /\ b.stby = c.stby
  BY <1>2, <1>3 DEF Stores, Configurations
<1> HIDE DEF b
<1>5. StoreOK(x, b)
  BY <1>4 DEF StoreOK
<1>6. Goes(x, a, b)
  BY <1>3, <1>4, <1>5, StopGoes
<1> QED
  BY <1>0, <1>1, <1>6

\* The answer arrives: a confirmed batch is forgotten, a retirement is noted, and the
\* configuration that came with it is applied.
LEMMA ReceiveGoes ==
    ASSUME MeterInv, NEW w \in Workers, Receive(w)
    PROVE  Goes(db, ag, ag')
<1> DEFINE c == call[w]
           kept == [ag EXCEPT !.pend = ag.pend \ c.body.batch]
           noted == [ag EXCEPT !.stop[c.body.lease] = "acked"]
           a == IF ~c.ok THEN ag
                ELSE IF c.body.type = "usage" THEN kept
                ELSE IF c.body.type = "retire" THEN noted
                ELSE ag
<1>1. c # Idle /\ ag' = IF c.cfg # NoConfig THEN Applied(a, c.cfg) ELSE a
  BY DEF Receive
<1>2. RequestOK(c, db, ag) /\ StoreOK(db, ag) /\ LeasesOK(db, ag) /\ ag \in Stores
  BY <1>1 DEF MeterInv, StoreOK
<1>3. /\ c.cfg \in Configurations /\ c.cfg.prim <= db.n /\ c.cfg.stby <= db.n /\ c.body \in Bodies
      /\ c.body.type = "usage" /\ c.ok => c.body.batch \subseteq db.usage
  BY <1>2 DEF RequestOK, Requests
<1>4. c.body.type = "retire" => c.body.lease \in Ids
  BY <1>3 DEF Bodies
<1> HIDE DEF c
<1>5. Goes(db, ag, ag)
  BY <1>2, StopGoes
<1>6. CASE c.ok /\ c.body.type = "usage"
  <2>1. /\ kept \in Stores /\ kept.made = ag.made /\ kept.pend = ag.pend \ c.body.batch
        /\ kept.stop = ag.stop /\ kept.prim = ag.prim /\ kept.stby = ag.stby
    BY <1>2 DEF Stores
  <2> HIDE DEF kept
  <2>2. StoreOK(db, kept) /\ kept.pend \subseteq ag.pend /\ ag.pend \subseteq db.usage \cup kept.pend
    BY <1>2, <1>3, <1>6, <2>1 DEF StoreOK
  <2>3. Goes(db, ag, kept)
    BY <1>2, <2>1, <2>2, StopGoes
  <2> QED
    BY <1>6, <2>3, <1>1, <1>3, AppliedGoes, GoesTwice DEF Goes
<1>7. CASE c.ok /\ c.body.type = "retire"
  <2> DEFINE stops == [ag.stop EXCEPT ![c.body.lease] = "acked"]
  <2>1. /\ noted = [ag EXCEPT !.stop = stops] /\ stops \in [Ids -> {"none", "stopped", "acked"}]
        /\ \A l \in Ids : ag.stop[l] # "none" => stops[l] # "none"
    BY <1>2, <1>4, <1>7 DEF Stores
  <2> HIDE DEF stops
  <2>2. /\ noted \in Stores /\ noted.made = ag.made /\ noted.pend = ag.pend
        /\ noted.stop = stops /\ noted.prim = ag.prim /\ noted.stby = ag.stby
    BY <1>2, <2>1 DEF Stores
  <2> HIDE DEF noted
  <2>3. StoreOK(db, noted)
    BY <1>2, <2>2 DEF StoreOK
  <2>4. Goes(db, ag, noted)
    BY <1>2, <2>1, <2>2, <2>3, StopGoes
  <2> QED
    BY <1>7, <2>4, <1>1, <1>3, AppliedGoes, GoesTwice DEF Goes
<1>8. CASE ~(c.ok /\ c.body.type \in {"usage", "retire"})
  BY <1>1, <1>2, <1>3, <1>5, <1>8, AppliedGoes
<1> QED
  BY <1>6, <1>7, <1>8
-----------------------------------------------------------------------------
(* Induction *)

\* What every step leaves true of the panel, the Agent and what is in the air.
Base ==
    /\ PanelOK(db') /\ StoreOK(db', ag') /\ LeasesOK(db', ag')
    /\ \A c : RequestOK(c, db, ag) => RequestOK(c, db', ag')

LEMMA PanelStep ==
    ASSUME MeterInv, Moved(db, db', ag), ag' = ag
    PROVE  Base
<1>1. /\ db.n \in Nat /\ db'.n \in Nat /\ db.n <= db'.n /\ db.usage \subseteq db'.usage
      /\ PanelOK(db') /\ LeasesOK(db', ag)
  BY DEF MeterInv, Moved, PanelOK, Panels
<1>2. StoreOK(db', ag)
  BY <1>1 DEF MeterInv, StoreOK, Stores
<1>3. ASSUME NEW c, RequestOK(c, db, ag) PROVE RequestOK(c, db', ag)
  BY <1>1, <1>3, RequestKept
<1> QED
  BY <1>1, <1>2, <1>3 DEF Base

LEMMA AgentStep ==
    ASSUME MeterInv, Goes(db, ag, ag'), db' = db
    PROVE  Base
<1>1. PanelOK(db) /\ db.n \in Nat /\ db.n <= db.n
  BY DEF MeterInv, PanelOK, Panels
<1>2. ASSUME NEW c, RequestOK(c, db, ag) PROVE RequestOK(c, db, ag')
  BY <1>1, <1>2, RequestKept DEF Goes
<1> QED
  BY <1>1, <1>2 DEF Base, Goes

\* A request as the Agent writes it.
LEMMA FreshRequest ==
    ASSUME MeterInv, NEW b \in Bodies,
           b.type = "usage" => b.batch \subseteq ag.pend,
           b.type = "retire" => Settled(ag, b.lease)
    PROVE  RequestOK(Request(b), db, ag)
<1>1. NoHint \in Hints /\ NoConfig \in Configurations
  BY PanelConstants DEF NoHint, NoConfig, Hints, Configurations, None
<1>2. Request(b) \in Requests /\ Request(b).body = b /\ Request(b).cfg = NoConfig /\ Request(b).ok = FALSE
  BY <1>1 DEF Request, Requests
<1>3. NoConfig.prim = 0 /\ NoConfig.stby = 0 /\ db.n \in Nat
  BY DEF NoConfig, None, MeterInv, PanelOK, Panels
<1> QED
  BY <1>2, <1>3 DEF RequestOK

\* What is in the air after a step that puts request r, or nothing, in w's place.
AirOK ==
    /\ call' \in [Workers -> Requests \cup {Idle}]
    /\ \A w \in Workers : call'[w] # Idle => RequestOK(call'[w], db', ag')
    /\ \A c \in late' : RequestOK(c, db', ag') /\ c.stage # "done"

LEMMA PutCall ==
    ASSUME MeterInv, Base, NEW w \in Workers, NEW r, r = Idle \/ RequestOK(r, db', ag'),
           call' = [call EXCEPT ![w] = r],
           \A c \in late' : c \in late \/ (RequestOK(c, db', ag') /\ c.stage # "done")
    PROVE  AirOK
<1>1. call \in [Workers -> Requests \cup {Idle}]
  BY DEF MeterInv
<1>2. r \in Requests \cup {Idle}
  BY DEF RequestOK
<1>3. call' \in [Workers -> Requests \cup {Idle}] /\ call'[w] = r /\ \A v \in Workers : v # w => call'[v] = call[v]
  BY <1>1, <1>2
<1>4. \A v \in Workers : call'[v] # Idle => RequestOK(call'[v], db', ag')
  BY <1>3 DEF MeterInv, Base
<1>5. \A c \in late' : RequestOK(c, db', ag') /\ c.stage # "done"
  BY DEF MeterInv, Base
<1> QED
  BY <1>3, <1>4, <1>5 DEF AirOK

LEMMA SameAir ==
    ASSUME MeterInv, Base, call' = call, \A c \in late' : c \in late \/ (RequestOK(c, db', ag') /\ c.stage # "done")
    PROVE  AirOK
BY DEF MeterInv, Base, AirOK

\* The Agent sends.
LEMMA SendStep ==
    ASSUME MeterInv, NEW w, NEW b \in Bodies, Send(w, b), UNCHANGED <<db, ag, late>>,
           b.type = "usage" => b.batch \subseteq ag.pend,
           b.type = "retire" => Settled(ag, b.lease)
    PROVE  Base /\ AirOK
<1>1. Base
  BY DEF MeterInv, Base
<1>2. w \in Workers /\ call' = [call EXCEPT ![w] = Request(b)]
  BY DEF Send
<1>3. RequestOK(Request(b), db, ag)
  BY FreshRequest
<1> QED
  BY <1>1, <1>2, <1>3, PutCall

LEMMA AgentActs ==
    ASSUME MeterInv,
           \/ \E l \in Issued(db) : Use(l) \/ SendRetire(l)
           \/ StopPrimary \/ SendUsage \/ SendConfig \/ SendPrefetch
    PROVE  Base /\ AirOK
<1>0. ag \in Stores
  BY DEF MeterInv, StoreOK
<1>1. ASSUME NEW l \in Issued(db), Use(l) PROVE Base /\ AirOK
  <2>1. Goes(db, ag, ag') /\ UNCHANGED <<db, call, late>>
    BY <1>1, UseGoes DEF Use
  <2>2. Base
    BY <2>1, AgentStep
  <2> QED
    BY <2>1, <2>2, SameAir
<1>2. CASE StopPrimary
  <2>1. Goes(db, ag, ag') /\ UNCHANGED <<db, call, late>>
    BY <1>2, StopPrimaryGoes DEF StopPrimary
  <2>2. Base
    BY <2>1, AgentStep
  <2> QED
    BY <2>1, <2>2, SameAir
<1>3. ASSUME NEW l \in Issued(db), SendRetire(l) PROVE Base /\ AirOK
  <2> DEFINE b == [type |-> "retire", lease |-> l, used |-> ag.made[l]]
  <2>1. l \in Ids
    BY PanelConstants DEF Issued, Ids, MeterInv, PanelOK, Panels
  <2>2. b \in Bodies /\ b.type = "retire" /\ b.lease = l
    BY <1>0, <2>1 DEF Bodies, Stores
  <2>3. Send("usage", b) /\ UNCHANGED <<db, ag, late>> /\ Settled(ag, l)
    BY <1>3 DEF SendRetire, Settled
  <2> HIDE DEF b
  <2> QED
    BY <2>2, <2>3, SendStep
<1>4. CASE SendUsage
  <2>1. PICK batch \in SUBSET ag.pend : Send("usage", [type |-> "usage", batch |-> batch])
    BY <1>4 DEF SendUsage
  <2> DEFINE b == [type |-> "usage", batch |-> batch]
  <2>2. b \in Bodies /\ b.type = "usage" /\ b.batch \subseteq ag.pend
    BY <1>0 DEF Bodies, Stores
  <2>3. Send("usage", b) /\ UNCHANGED <<db, ag, late>>
    BY <1>4, <2>1 DEF SendUsage
  <2> HIDE DEF b
  <2> QED
    BY <2>2, <2>3, SendStep
<1>5. CASE SendConfig
  <2> DEFINE b == [type |-> "config"]
  <2>1. b \in Bodies /\ b.type = "config"
    BY DEF Bodies
  <2>2. Send("config", b) /\ UNCHANGED <<db, ag, late>>
    BY <1>5 DEF SendConfig
  <2> HIDE DEF b
  <2> QED
    BY <2>1, <2>2, SendStep
<1>6. CASE SendPrefetch
  <2> DEFINE b == [type |-> "prefetch", lease |-> ag.prim]
  <2>1. ag.prim \in Ids
    BY <1>0, <1>6, PanelConstants DEF SendPrefetch, Stores, Ids, None
  <2>2. b \in Bodies /\ b.type = "prefetch"
    BY <2>1 DEF Bodies
  <2>3. Send("prefetch", b) /\ UNCHANGED <<db, ag, late>>
    BY <1>6 DEF SendPrefetch
  <2> HIDE DEF b
  <2> QED
    BY <2>2, <2>3, SendStep
<1> QED
  BY <1>1, <1>2, <1>3, <1>4, <1>5, <1>6

LEMMA WireActs ==
    ASSUME MeterInv, \/ \E w \in Workers : Serve(w) \/ Receive(w) \/ GiveUp(w)
                     \/ \E c \in late : ServeLate(c) \/ Vanish(c)
    PROVE  Base /\ AirOK
<1>1. ASSUME NEW w \in Workers, Serve(w) PROVE Base /\ AirOK
  <2>1. RequestOK(call[w], db, ag) /\ call[w].stage # "done"
    BY <1>1 DEF Serve, MeterInv
  <2>2. PICK k : k = Advance(call[w]).call
    OBVIOUS
  <2>3. db' = Advance(call[w]).db /\ call' = [call EXCEPT ![w] = k] /\ ag' = ag /\ late' = late
    BY <1>1, <2>2 DEF Serve
  <2>4. Moved(db, db', ag) /\ RequestOK(k, db', ag)
    BY <2>1, <2>2, <2>3, AdvanceStep
  <2>5. Base
    BY <2>3, <2>4, PanelStep
  <2> QED
    BY <2>3, <2>4, <2>5, PutCall
<1>2. ASSUME NEW w \in Workers, Receive(w) PROVE Base /\ AirOK
  <2>1. Goes(db, ag, ag') /\ UNCHANGED <<db, late>> /\ call' = [call EXCEPT ![w] = Idle]
    BY <1>2, ReceiveGoes DEF Receive
  <2>2. Base
    BY <2>1, AgentStep
  <2> QED
    BY <2>1, <2>2, PutCall
<1>3. ASSUME NEW w \in Workers, GiveUp(w) PROVE Base /\ AirOK
  <2>1. /\ UNCHANGED <<db, ag>> /\ call' = [call EXCEPT ![w] = Idle]
        /\ late' = late \/ (call[w] # Idle /\ call[w].stage # "done" /\ late' = late \cup {call[w]})
    BY <1>3 DEF GiveUp
  <2>2. Base
    BY <2>1 DEF MeterInv, Base
  <2>3. \A c \in late' : c \in late \/ (RequestOK(c, db', ag') /\ c.stage # "done")
    BY <2>1 DEF MeterInv
  <2> QED
    BY <2>1, <2>2, <2>3, PutCall
<1>4. ASSUME NEW c \in late, ServeLate(c) PROVE Base /\ AirOK
  <2>1. RequestOK(c, db, ag) /\ c.stage # "done"
    BY <1>4 DEF MeterInv
  <2>2. PICK k : k = Advance(c).call
    OBVIOUS
  <2>3. /\ db' = Advance(c).db /\ call' = call /\ ag' = ag
        /\ late' = (late \ {c}) \cup (IF k.stage = "done" THEN {} ELSE {k})
    BY <1>4, <2>2 DEF ServeLate
  <2>4. Moved(db, db', ag) /\ RequestOK(k, db', ag)
    BY <2>1, <2>2, <2>3, AdvanceStep
  <2>5. Base
    BY <2>3, <2>4, PanelStep
  <2>6. \A d \in late' : d \in late \/ (RequestOK(d, db', ag') /\ d.stage # "done")
    BY <2>3, <2>4
  <2> QED
    BY <2>3, <2>5, <2>6, SameAir
<1>5. ASSUME NEW c \in late, Vanish(c) PROVE Base /\ AirOK
  <2>1. Base
    BY <1>5 DEF Vanish, MeterInv, Base
  <2>2. call' = call /\ \A d \in late' : d \in late
    BY <1>5 DEF Vanish
  <2> QED
    BY <2>1, <2>2, SameAir
<1> QED
  BY <1>1, <1>2, <1>3, <1>4, <1>5

\* Time passes, the owner buys again, rules and plans are switched.
LEMMA WorldActs ==
    ASSUME MeterInv, (\E l \in Issued(db) : Lapse(l)) \/ SecondPurchase \/ Toggle \/ UNCHANGED vars
    PROVE  Base /\ AirOK
<1>1. ASSUME NEW l \in Issued(db), Lapse(l) PROVE UNCHANGED <<db, ag, call, late>>
  BY <1>1 DEF Lapse
<1>2. CASE UNCHANGED <<db, ag, call, late>>
  <2>1. Base
    BY <1>2 DEF MeterInv, Base
  <2> QED
    BY <1>2, <2>1, SameAir
<1>3. CASE SecondPurchase \/ Toggle
  <2>1. db \in Panels /\ UNCHANGED <<ag, call, late>>
    BY <1>3 DEF MeterInv, PanelOK, SecondPurchase, Toggle
  <2>2. /\ db' \in Panels /\ db'.n = db.n /\ db'.prim = db.prim /\ db'.stby = db.stby /\ db'.lease = db.lease
        /\ db'.retired = db.retired /\ db'.usage = db.usage
    <3>1. CASE SecondPurchase
      BY <2>1, <3>1 DEF SecondPurchase, Panels
    <3>2. CASE Toggle
      <4>1. PICK e, f \in BOOLEAN : e = ~db.enabled /\ f = ~db.allowed
        OBVIOUS
      <4>2. \/ db' = [db EXCEPT !.enabled = e, !.version = db.version + 1]
            \/ db' = [db EXCEPT !.allowed = f, !.version = db.version + 1]
        BY <3>2, <4>1, Zenon DEF Toggle
      <4>3. db.version + 1 \in Nat
        BY <2>1 DEF Panels
      <4>4. CASE db' = [db EXCEPT !.enabled = e, !.version = db.version + 1]
        BY <2>1, <4>3, <4>4, e \in BOOLEAN, Zenon DEF Panels
      <4>5. CASE db' = [db EXCEPT !.allowed = f, !.version = db.version + 1]
        BY <2>1, <4>3, <4>5, f \in BOOLEAN, Zenon DEF Panels
      <4> QED
        BY <4>2, <4>4, <4>5
    <3> QED
      BY <1>3, <3>1, <3>2
  <2>3. PanelOK(db') /\ Grown(db, db')
    BY <2>1, <2>2 DEF MeterInv, PanelOK, Panels, Grown
  <2>4. Moved(db, db', ag)
    BY <2>3, GrownMoves DEF MeterInv, StoreOK
  <2>5. Base
    BY <2>1, <2>4, PanelStep
  <2> QED
    BY <2>1, <2>5, SameAir
<1> QED
  BY <1>1, <1>2, <1>3 DEF vars
-----------------------------------------------------------------------------
(* The invariant *)

LEMMA InitInv == ASSUME Init PROVE MeterInv
<1> DEFINE made == [l \in Ids |-> 0]
           stop == [l \in Ids |-> "none"]
<1>1. ag = [version |-> 0, prim |-> 0, stby |-> 0, made |-> made, pend |-> {}, stop |-> stop]
  BY DEF Init, None
<1>2. made \in [Ids -> Nat] /\ stop \in [Ids -> {"none", "stopped", "acked"}] /\ \A l \in Ids : made[l] = 0
  OBVIOUS
<1> HIDE DEF made, stop
<1>3. MaxLeases \in Nat
  BY PanelConstants
<1>4. StoreOK(db, ag)
  <2>1. 0 \in Nat /\ 0 \in 0..MaxLeases
    BY <1>3
  <2>2. ag \in Stores
    BY <1>1, <1>2, <2>1, Zenon DEF Stores
  <2>3. db.n = 0 /\ ag.prim = 0 /\ ag.stby = 0
    <3>1. ag.prim = 0 /\ ag.stby = 0
      BY <1>1
    <3>2. db.n = 0
      BY DEF Init, NewPanel
    <3> QED
      BY <3>1, <3>2
  <2> QED
    BY <2>2, <2>3 DEF StoreOK
<1>5. PanelOK(db)
  <2> DEFINE row == [ent |-> 1, bytes |-> 0, used |-> 0]
             alloc == [e \in Ents |-> 0]
             lease == [l \in Ids |-> row]
  <2>1. row \in LeaseRow /\ row.used = 0
    BY PanelConstants DEF LeaseRow
  <2>2. alloc \in [Ents -> Int] /\ lease \in [Ids -> LeaseRow] /\ \A l \in Ids : lease[l].used = 0
    BY <2>1
  <2>3. db = [ent |-> 1, alloc |-> alloc, n |-> 0, lease |-> lease, prim |-> 0, stby |-> 0, retired |-> {},
              usage |-> {}, version |-> 1, enabled |-> TRUE, allowed |-> TRUE]
    BY DEF Init, NewPanel, None
  <2> HIDE DEF row, alloc, lease
  <2>4. 0 \in 0..MaxLeases /\ 1 \in Nat /\ 1 \in Ents /\ {} \in SUBSET Ids /\ {} \in SUBSET (Ids \X Nat)
    BY <1>3, PanelConstants
  <2>5. db \in Panels
    BY <2>2, <2>3, <2>4, Zenon DEF Panels
  <2>6. db.n = 0 /\ db.prim = 0 /\ db.stby = 0 /\ db.retired = {} /\ db.lease = lease
    BY <2>3
  <2> QED
    BY <2>2, <2>5, <2>6 DEF PanelOK
<1>6. LeasesOK(db, ag)
  <2>1. db.usage = {} /\ db.retired = {} /\ db.n = 0 /\ \A l \in Ids : db.lease[l].used = 0
    <3>1. db.lease = [l \in Ids |-> [ent |-> 1, bytes |-> 0, used |-> 0]]
      BY Zenon DEF Init, NewPanel
    <3>2. db.usage = {} /\ db.retired = {} /\ db.n = 0
      BY Zenon DEF Init, NewPanel
    <3> QED
      BY <3>1, <3>2
  <2>2. ASSUME NEW l \in Ids PROVE /\ Of(db.usage, l) = {} /\ Of(db.usage \cup ag.pend, l) = {}
                                  /\ Facts(ag, l) = {} /\ ag.made[l] = 0 /\ ~(l <= db.n)
    BY <1>1, <1>2, <1>3, <2>1, PanelConstants DEF Of, Facts, Ids
  <2>3. Cardinality({}) = 0
    BY FS_EmptySet
  <2> QED
    BY <2>1, <2>2, <2>3 DEF LeasesOK
<1>7. call \in [Workers -> Requests \cup {Idle}] /\ (\A w \in Workers : call[w] = Idle) /\ late = {}
  BY DEF Init
<1> QED
  BY <1>4, <1>5, <1>6, <1>7 DEF MeterInv

LEMMA StepInv == ASSUME MeterInv, [Next]_vars PROVE MeterInv'
<1>1. Base /\ AirOK
  BY AgentActs, WireActs, WorldActs DEF Next
<1> QED
  BY <1>1 DEF MeterInv, Base, AirOK

LEMMA MeterInvariant == Spec => []MeterInv
BY InitInv, StepInv, PTL DEF Spec
-----------------------------------------------------------------------------
(* What it means *)

\* SettledExactly: whatever is lost, repeated or handled late, persistUsageBatch
\* charges a lease exactly the facts the panel holds of it, within its budget, no
\* fact is in neither place, and RetireLease returns only budget nobody can use.
THEOREM LeasesSettleExactly == Spec => []SettledExactly
<1>1. ASSUME MeterInv PROVE SettledExactly
  <2>1. LeasesOK(db, ag) /\ ag \in Stores /\ db.n \in 0..MaxLeases /\ db.retired \subseteq Ids /\ \A l \in db.retired : l <= db.n
    BY <1>1 DEF MeterInv, StoreOK, PanelOK, Panels
  <2>2. ASSUME NEW l \in Issued(db)
        PROVE  /\ db.lease[l].used = Cardinality(Of(db.usage, l))
               /\ db.lease[l].used <= ag.made[l] /\ db.lease[l].used <= db.lease[l].bytes
               /\ {<<l, k>> : k \in 1..ag.made[l]} \subseteq db.usage \cup ag.pend
    <3>1. l \in Ids /\ l <= db.n
      BY <2>1, PanelConstants DEF Issued, Ids
    <3>2. db.lease[l].used + Cardinality(Of(ag.pend \ db.usage, l)) <= ag.made[l]
          /\ Cardinality(Of(ag.pend \ db.usage, l)) \in Nat /\ db.lease[l].used \in Nat /\ ag.made[l] \in Nat
      BY <2>1, <3>1, FactsFit
    <3>3. db.lease[l].bytes \in Nat
      BY <1>1, <3>1 DEF MeterInv, PanelOK, Panels, LeaseRow
    <3>4. /\ db.lease[l].used = Cardinality(Of(db.usage, l)) /\ ag.made[l] <= db.lease[l].bytes
          /\ Of(db.usage \cup ag.pend, l) = Facts(ag, l)
      BY <2>1, <3>1 DEF LeasesOK
    <3>5. {<<l, k>> : k \in 1..ag.made[l]} \subseteq db.usage \cup ag.pend
      <4>1. Of(db.usage \cup ag.pend, l) \subseteq db.usage \cup ag.pend
        BY DEF Of
      <4> QED
        BY <3>4, <4>1, Zenon DEF Facts
    <3>6. db.lease[l].used <= ag.made[l] /\ db.lease[l].used <= db.lease[l].bytes
      BY <3>2, <3>3, <3>4
    <3> QED
      BY <3>4, <3>5, <3>6
  <2>3. ASSUME NEW l \in db.retired PROVE ag.stop[l] # "none" /\ db.lease[l].used = ag.made[l]
    <3>1. l \in Ids /\ Settled(ag, l)
      BY <2>1 DEF LeasesOK
    <3>2. Of(db.usage, l) = Of(db.usage \cup ag.pend, l)
      BY <3>1 DEF Settled, Of
    <3>3. db.lease[l].used = Cardinality(Facts(ag, l))
      BY <2>1, <3>1, <3>2 DEF LeasesOK
    <3>4. ag.made[l] \in Nat
      BY <2>1, <3>1 DEF Stores
    <3>5. Cardinality(Facts(ag, l)) = ag.made[l]
      BY <3>4, FactsCounted DEF Facts
    <3> QED
      BY <3>1, <3>3, <3>5 DEF Settled
  <2>4. SettledOnce
    BY <2>2 DEF SettledOnce
  <2>5. RefundFinal
    BY <2>3 DEF RefundFinal
  <2> QED
    BY <2>4, <2>5 DEF SettledExactly
<1> QED
  BY <1>1, MeterInvariant, PTL

\* NoFactRefused: persistUsageBatch never refuses a fact the Agent still has to
\* report, whatever leases were retired and whatever else was persisted before.
THEOREM FactsAreNeverRefused == Spec => []NoFactRefused
<1>1. ASSUME MeterInv, NEW f \in ag.pend \ db.usage
      PROVE  /\ f[1] \in OpenLeases(db)
             /\ Cardinality(Of(ag.pend \ db.usage, f[1])) <= db.lease[f[1]].bytes - db.lease[f[1]].used
  <2>1. LeasesOK(db, ag) /\ ag \in Stores /\ db.n \in 0..MaxLeases
    BY <1>1 DEF MeterInv, StoreOK, PanelOK, Panels
  <2>2. PICK l \in Ids : f[1] = l
    BY <2>1 DEF Stores
  <2>3. f \in Of(ag.pend, l) /\ f \in Of(db.usage \cup ag.pend, l)
    BY <2>2 DEF Of
  <2>4. f \in Facts(ag, l) /\ ag.made[l] \in Nat
    BY <2>1, <2>3 DEF LeasesOK, Stores
  <2>5. ag.made[l] # 0
    BY <2>4 DEF Facts
  <2>6. l <= db.n /\ ag.made[l] <= db.lease[l].bytes /\ l \notin db.retired
    BY <2>1, <2>3, <2>5 DEF LeasesOK, Settled
  <2>7. l \in OpenLeases(db)
    BY <2>1, <2>6, PanelConstants DEF OpenLeases, Issued, Ids
  <2>8. /\ db.lease[l].used + Cardinality(Of(ag.pend \ db.usage, l)) <= ag.made[l]
        /\ Cardinality(Of(ag.pend \ db.usage, l)) \in Nat /\ db.lease[l].used \in Nat
    BY <2>1, FactsFit
  <2>9. db.lease[l].bytes \in Nat
    BY <1>1 DEF MeterInv, PanelOK, Panels, LeaseRow
  <2>10. Cardinality(Of(ag.pend \ db.usage, l)) <= db.lease[l].bytes - db.lease[l].used
    BY <2>4, <2>6, <2>8, <2>9
  <2> QED
    BY <2>2, <2>7, <2>10
<1>2. ASSUME MeterInv PROVE NoFactRefused
  BY <1>1, <1>2 DEF NoFactRefused, UsageOK
<1> QED
  BY <1>2, MeterInvariant, PTL
=============================================================================
