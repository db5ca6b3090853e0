---------------------------- MODULE NaipIngestProofs ---------------------------
(***************************************************************************)
(* What holds of a NAIP year for any catalog, number of orders, stops and  *)
(* deaths, when one worker runs the jobs.                                  *)
(***************************************************************************)
EXTENDS NaipIngest, Functions, FiniteSetTheorems, WellFoundedInduction, TLAPS

\* Induction, for sets.
LEMMA SetInduction ==
  ASSUME NEW S, 0 \in S, \A n \in Nat : n \in S => n + 1 \in S
  PROVE  Nat \subseteq S
  <1> DEFINE R == OpToRel(<, Nat)
             T == Nat \ S
  <1>1. IsWellFoundedOn(R, Nat)
    BY NatLessThanWellFounded
  <1>2. \A m, n \in Nat : m < n => <<m, n>> \in R
    BY DEF OpToRel
  <1> HIDE DEF R
  <1>3. ASSUME T # {} PROVE FALSE
    <2>1. PICK x \in T : \A y \in T : <<y, x>> \notin R
      BY <1>1, <1>3, WFMin
    <2>2. x \in Nat /\ x # 0 /\ x - 1 \in Nat /\ x - 1 < x
      BY <2>1
    <2>3. x - 1 \in S
      BY <1>2, <2>1, <2>2
    <2> QED BY <2>1, <2>2, <2>3
  <1> QED BY <1>3

NextUrl(c, p) == IF p = 0 THEN 0 ELSE c[p].next

\* u is where the loop is after at most N requests.
IsWalk(c, u, N) == u = [n \in 0..N |-> IF n = 0 THEN 1 ELSE NextUrl(c, u[n - 1])]

LEMMA WalkExists ==
  ASSUME NEW c
  PROVE  \A N \in Nat : \E u : IsWalk(c, u, N)
  <1> DEFINE S == {N \in Nat : \E u : IsWalk(c, u, N)}
  <1>1. 0 \in S
    <2>1. IsWalk(c, [n \in 0..0 |-> 1], 0)
      BY DEF IsWalk
    <2> QED BY <2>1
  <1>2. ASSUME NEW N \in Nat, N \in S PROVE N + 1 \in S
    <2>1. PICK u : IsWalk(c, u, N)
      BY <1>2
    <2> DEFINE v == [n \in 0..(N + 1) |-> IF n = N + 1 THEN NextUrl(c, u[N]) ELSE u[n]]
    <2>2. \A n \in 0..N : v[n] = u[n]
      OBVIOUS
    <2>3. \A n \in 0..N : u[n] = IF n = 0 THEN 1 ELSE NextUrl(c, u[n - 1])
      BY <2>1 DEF IsWalk
    <2>4. ASSUME NEW n \in 0..(N + 1)
          PROVE  v[n] = IF n = 0 THEN 1 ELSE NextUrl(c, v[n - 1])
      <3>1. CASE n = N + 1
        <4>1. v[n] = NextUrl(c, u[N]) /\ n - 1 = N /\ N \in 0..N /\ n # 0
          BY <3>1
        <4> HIDE DEF v
        <4> QED BY <4>1, <2>2
      <3>2. CASE n = 0
        BY <3>2, <2>2, <2>3
      <3>3. CASE n # 0 /\ n # N + 1
        <4>1. n \in 0..N /\ n - 1 \in 0..N
          BY <3>3
        <4> HIDE DEF v
        <4> QED BY <4>1, <2>2, <2>3, <3>3
      <3> QED BY <3>1, <3>2, <3>3
    <2>5. IsWalk(c, v, N + 1)
      BY <2>4 DEF IsWalk
    <2> QED BY <2>5
  <1> HIDE DEF S
  <1>3. Nat \subseteq S
    BY <1>1, <1>2, SetInduction
  <1> QED BY <1>3 DEF S

LEMMA FollowIsWalk ==
  ASSUME NEW c
  PROVE  IsWalk(c, Follow(c), MAX_PAGES)
  <1>1. PICK u : IsWalk(c, u, MAX_PAGES)
    BY NaipIngestAssumption, WalkExists
  <1> DEFINE Q(g) == g = [n \in 0..MAX_PAGES |-> IF n = 0 THEN 1 ELSE IF g[n-1] = 0 THEN 0 ELSE c[g[n-1]].next]
  <1>2. Follow(c) = CHOOSE g : Q(g)
    BY DEF Follow
  <1>3. Q(u) BY <1>1 DEF IsWalk, NextUrl
  <1> HIDE DEF Q
  <1>4. Q(Follow(c)) BY <1>2, <1>3, Zenon
  <1> QED BY <1>4 DEF Q, IsWalk, NextUrl

\* A set that holds the links holds every page requested.
LEMMA WalkStays ==
  ASSUME NEW c, NEW D, HoldsLinks(c, D)
  PROVE  \A n \in 0..MAX_PAGES : Follow(c)[n] \in D \cup {0}
  <1> DEFINE u == Follow(c)
             S == {n \in Nat : n <= MAX_PAGES => u[n] \in D \cup {0}}
  <1>1. \A n \in 0..MAX_PAGES : u[n] = IF n = 0 THEN 1 ELSE NextUrl(c, u[n - 1])
    BY FollowIsWalk DEF IsWalk
  <1> HIDE DEF u
  <1>2. 0 \in S
    BY <1>1, NaipIngestAssumption DEF HoldsLinks
  <1>3. ASSUME NEW n \in Nat, n \in S PROVE n + 1 \in S
    <2> SUFFICES ASSUME n + 1 <= MAX_PAGES PROVE u[n + 1] \in D \cup {0}
      OBVIOUS
    <2>1. n + 1 \in 0..MAX_PAGES /\ (n + 1) - 1 = n /\ n + 1 # 0 /\ n <= MAX_PAGES
      BY NaipIngestAssumption
    <2>2. u[n + 1] = NextUrl(c, u[n])
      BY <1>1, <2>1
    <2>3. u[n] \in D \cup {0}
      BY <1>3, <2>1
    <2> QED BY <2>2, <2>3 DEF NextUrl, HoldsLinks
  <1> HIDE DEF S
  <1>4. Nat \subseteq S
    BY <1>2, <1>3, SetInduction
  <1> QED BY <1>4, NaipIngestAssumption DEF S, u

LEMMA ReadIsPages ==
  ASSUME NEW c, Catalog(c)
  PROVE  Read(c) \subseteq DOMAIN c
  <1>1. HoldsLinks(c, DOMAIN c)
    BY DEF HoldsLinks, Catalog
  <1> QED BY <1>1, WalkStays, NaipIngestAssumption DEF Read

\* A search that does not give up has read every page that links lead to.
LEMMA SearchReadsAll ==
  ASSUME NEW c, Catalog(c), SearchEnds(c)
  PROVE  Read(c) = Reached(c)
  <1> DEFINE u == Follow(c)
  <1>1. \A n \in 0..MAX_PAGES : u[n] = IF n = 0 THEN 1 ELSE NextUrl(c, u[n - 1])
    BY FollowIsWalk DEF IsWalk
  <1>2. u[MAX_PAGES] = 0
    BY DEF SearchEnds
  <1>3. Read(c) = {u[n] : n \in 0..MAX_PAGES - 1} \ {0}
    BY DEF Read
  <1> HIDE DEF u
  <1>4. 0 \in 0..MAX_PAGES - 1
    BY <1>1, <1>2, NaipIngestAssumption
  <1>5. HoldsLinks(c, Read(c))
    <2>1. 1 \in Read(c)
      BY <1>1, <1>3, <1>4, NaipIngestAssumption
    <2>2. ASSUME NEW p \in Read(c), c[p].next # 0 PROVE c[p].next \in Read(c)
      <3>1. PICK n \in 0..MAX_PAGES - 1 : p = u[n] /\ p # 0
        BY <1>3
      <3>2. n + 1 \in 0..MAX_PAGES /\ (n + 1) - 1 = n /\ n + 1 # 0
        BY NaipIngestAssumption
      <3>3. u[n + 1] = c[p].next
        BY <1>1, <3>1, <3>2 DEF NextUrl
      <3>4. n + 1 # MAX_PAGES
        BY <1>2, <2>2, <3>3
      <3>5. n + 1 \in 0..MAX_PAGES - 1
        BY <3>2, <3>4, NaipIngestAssumption
      <3> QED BY <1>3, <2>2, <3>3, <3>5
    <2> QED BY <2>1, <2>2 DEF HoldsLinks
  <1>6. Reached(c) \subseteq Read(c)
    BY <1>5, ReadIsPages DEF Reached
  <1>7. ASSUME NEW p \in Read(c), NEW S \in SUBSET DOMAIN c, HoldsLinks(c, S)
        PROVE  p \in S
    BY <1>3, <1>7, WalkStays, NaipIngestAssumption DEF u
  <1> QED BY <1>6, <1>7, ReadIsPages DEF Reached

LEMMA EntriesAreItems ==
  ASSUME NEW c, Catalog(c), NEW pages \in SUBSET DOMAIN c, NEW e \in Usables(c, pages)
  PROVE  ItemAt(c, e).id \in Items
  <1>1. PICK p \in pages : e \in {p} \X DOMAIN c[p].lists
    BY DEF Usables
  <1>2. /\ e[1] = p /\ e[2] \in DOMAIN c[p].lists
        /\ c[p].lists \in Seq(ListedItem)
    BY <1>1 DEF Catalog
  <1>3. c[p].lists[e[2]] \in ListedItem
    BY <1>2
  <1>4. ItemAt(c, e) = c[p].lists[e[2]]
    BY <1>2 DEF ItemAt
  <1> QED BY <1>3, <1>4 DEF ListedItem

\* What a search keeps is what the catalog lists, on all its pages.
THEOREM SearchIsWhole ==
  ASSUME NEW c \in Catalogs
  PROVE  /\ Listed(c) \in SUBSET Items
         /\ SearchEnds(c) => Listed(c) = {ItemAt(c, e).id : e \in ItemsFor(c)}
  <1>1. Catalog(c)
    BY NaipIngestAssumption
  <1>2. Reached(c) \in SUBSET DOMAIN c
    BY DEF Reached
  <1>3. Listed(c) \in SUBSET Items
    BY <1>1, <1>2, EntriesAreItems DEF Listed
  <1> QED BY <1>1, <1>3, SearchReadsAll DEF ItemsFor, Listed

LEMMA FoundIsFinite ==
  ASSUME NEW c \in Catalogs
  PROVE  IsFiniteSet(ItemsFor(c))
  <1>1. Catalog(c)
    BY NaipIngestAssumption
  <1>2. IsFiniteSet(0..MAX_PAGES - 1)
    BY FS_Interval, NaipIngestAssumption
  <1>3. IsFiniteSet({Follow(c)[n] : n \in 0..MAX_PAGES - 1})
    <2> DEFINE f == [n \in 0..MAX_PAGES - 1 |-> Follow(c)[n]]
    <2>1. f \in Surjection(0..MAX_PAGES - 1, {Follow(c)[n] : n \in 0..MAX_PAGES - 1})
      BY DEF Surjection
    <2> HIDE DEF f
    <2> QED BY <1>2, <2>1, FS_Surjection
  <1>4. IsFiniteSet(Read(c))
    BY <1>3, FS_Subset DEF Read
  <1> DEFINE On(p) == {p} \X DOMAIN c[p].lists
             All == {On(p) : p \in Read(c)}
  <1>5. ASSUME NEW p \in Read(c) PROVE IsFiniteSet(On(p))
    <2>1. c[p].lists \in Seq(ListedItem)
      BY <1>1, ReadIsPages DEF Catalog
    <2>2. DOMAIN c[p].lists = 1..Len(c[p].lists) /\ Len(c[p].lists) \in Nat
      BY <2>1
    <2>3. IsFiniteSet(1..Len(c[p].lists))
      <3>1. 1 \in Int /\ Len(c[p].lists) \in Int
        BY <2>2
      <3> QED BY <3>1, FS_Interval
    <2>4. IsFiniteSet({p})
      BY FS_Singleton
    <2> QED BY <2>2, <2>3, <2>4, FS_Product
  <1> HIDE DEF On
  <1>6. IsFiniteSet(All)
    <2> DEFINE f == [p \in Read(c) |-> On(p)]
    <2>1. f \in Surjection(Read(c), All)
      BY DEF Surjection
    <2> HIDE DEF f
    <2> QED BY <1>4, <2>1, FS_Surjection
  <1>7. IsFiniteSet(UNION All)
    BY <1>5, <1>6, FS_UNION
  <1>8. ItemsFor(c) \subseteq UNION All
    BY DEF ItemsFor, Usables, On
  <1> QED BY <1>7, <1>8, FS_Subset

\* How often a search returns an item is a number, and at least once if the item is listed.
LEMMA TimesCount ==
  ASSUME NEW c \in Catalogs
  PROVE  /\ \A i \in Items : Times(c, i) \in Nat
         /\ SearchEnds(c) => \A i \in Listed(c) : Times(c, i) > 0
  <1> DEFINE Of(i) == {e \in ItemsFor(c) : ItemAt(c, e).id = i}
  <1>1. ASSUME NEW i PROVE IsFiniteSet(Of(i)) /\ Times(c, i) = Cardinality(Of(i))
    <2>1. Of(i) \subseteq ItemsFor(c)
      OBVIOUS
    <2> QED BY <2>1, FoundIsFinite, FS_Subset DEF Times
  <1>2. \A i : Times(c, i) \in Nat
    BY <1>1, FS_CardinalityType
  <1>3. ASSUME SearchEnds(c), NEW i \in Listed(c) PROVE Times(c, i) > 0
    <2>1. Of(i) # {}
      BY <1>3, SearchIsWhole
    <2> HIDE DEF Of
    <2>2. Times(c, i) # 0
      BY <1>1, <2>1, FS_EmptySet
    <2> QED BY <1>2, <2>2
  <1> QED BY <1>2, <1>3

--------------------------------------------------------------------------------
(* The year and its jobs.                                                  *)

\* A request reads only a year it may order.
OrdersRead ==
    \A r \in Requests :
        /\ req[r] = "read" => seen[r] \in {"absent", "failed"}
        /\ req[r] # "done" => job[r] = "absent"

\* One job works at a time, and the year is not at rest under it.
OneJob ==
    /\ \A r, q \in Requests : job[r] \in Working /\ job[q] \in Working => r = q
    /\ \A r \in Requests : job[r] \in Working => year \in {"queued", "processing"}

\* The copies that are there, with those a job still has to make, are no more than one
\* search returned.
PlanIsMissing ==
    /\ \A i \in Items : tiles[i] <= most[i]
    /\ \A r \in Requests : job[r] = "copying" =>
          \A i \in Items : todo[r][i] > 0 => tiles[i] + todo[r][i] <= most[i]

\* A job copies, or finds copied, all that its search should have found.
WantedIsPlanned ==
    \A r \in Requests :
        /\ job[r] = "copying" =>
              wanted[r] # {} /\ \A i \in wanted[r] : todo[r][i] > 0 \/ tiles[i] > 0
        /\ job[r] = "ended" => \A i \in wanted[r] : tiles[i] > 0

NInv ==
    /\ TypeOK
    /\ OrdersRead
    /\ OneJob
    /\ PlanIsMissing
    /\ WantedIsPlanned
    /\ ReadyIsComplete

LEMMA InitNInv == Init => NInv
  BY NaipIngestAssumption
  DEF Init, NInv, TypeOK, OrdersRead, OneJob, PlanIsMissing, WantedIsPlanned, ReadyIsComplete,
      YearStatuses, Working

LEMMA NextNInv == OneWorker /\ NInv /\ [Next]_vars => NInv'
  <1> SUFFICES ASSUME OneWorker, NInv, [Next]_vars PROVE NInv' OBVIOUS
  <1> USE NaipIngestAssumption
      DEF NInv, TypeOK, OrdersRead, OneJob, PlanIsMissing, WantedIsPlanned, ReadyIsComplete,
      YearStatuses, Working, service, searched
  <1>1. CASE CatalogChanges
    BY <1>1 DEF CatalogChanges
  <1>2. ASSUME NEW r \in Requests, OrderRead(r) PROVE NInv'
    BY <1>2 DEF OrderRead, MayOrder
  <1>3. ASSUME NEW r \in Requests, OrderCommit(r) PROVE NInv'
    <2>1. CASE seen[r] = "absent" /\ year # "absent"
      BY <1>3, <2>1 DEF OrderCommit
    <2>2. CASE ~(seen[r] = "absent" /\ year # "absent")
      <3>1. /\ UNCHANGED <<tiles, todo, wanted, most, catalog, changes, stops,
                            faults>>
            /\ req[r] = "read" /\ year' = "queued"
            /\ req' = [req EXCEPT ![r] = "done"] /\ seen' = seen
            /\ job' = [job EXCEPT ![r] = "queued"] /\ job[r] = "absent"
        BY <1>3, <2>2 DEF OrderCommit, KeepReadyTiles
      <3>2. \A q \in Requests : job'[q] = "queued" \/ job'[q] = job[q]
        BY <3>1
      <3>3. TypeOK'
        <4>1. /\ req' \in [Requests -> {"idle", "read", "done"}]
              /\ job' \in [Requests -> Working \cup {"absent", "queued", "ended", "failed",
                                                        "dead"}]
          BY <3>1
        <4> QED BY <3>1, <4>1
      <3>6. OrdersRead'
        BY <3>1
      <3>4. OneJob'
        BY <3>1, <3>2
      <3>5. PlanIsMissing' /\ WantedIsPlanned' /\ ReadyIsComplete'
        BY <3>1, <3>2
      <3> QED BY <3>3, <3>4, <3>5, <3>6
    <2> QED BY <2>1, <2>2
  <1>4. ASSUME NEW r \in Requests, JobRead(r) PROVE NInv'
    BY <1>4 DEF JobRead, MayCopy
  <1>5. ASSUME NEW r \in Requests, JobOpen(r) PROVE NInv'
    BY <1>5 DEF JobOpen
  <1>6. ASSUME NEW r \in Requests, Plan(r) PROVE NInv'
    <2>1. /\ Listed(catalog) \in SUBSET Items /\ Listed(catalog) # {}
          /\ \A i \in Items : Times(catalog, i) \in Nat
          /\ \A i \in Listed(catalog) : Times(catalog, i) > 0
      <3>1. catalog \in Catalogs /\ SearchEnds(catalog) /\ ItemsFor(catalog) # {}
        BY <1>6 DEF Plan
      <3>2. /\ Listed(catalog) \in SUBSET Items
            /\ Listed(catalog) = {ItemAt(catalog, e).id : e \in ItemsFor(catalog)}
        BY <3>1, SearchIsWhole
      <3>3. /\ \A i \in Items : Times(catalog, i) \in Nat
            /\ \A i \in Listed(catalog) : Times(catalog, i) > 0
        BY <3>1, TimesCount
      <3> QED BY <3>1, <3>2, <3>3
    <2>2. /\ todo' = [todo EXCEPT ![r] = NotDone(catalog)]
          /\ NotDone(catalog) \in [Items -> Nat]
          /\ \A i \in Items : /\ tiles[i] = 0 => NotDone(catalog)[i] = Times(catalog, i)
                              /\ tiles[i] # 0 => NotDone(catalog)[i] = 0
      BY <1>6, <2>1 DEF Plan, NotDone
    <2>3. /\ most' \in [Items -> Nat]
          /\ \A i \in Items : most'[i] >= most[i] /\ most'[i] >= Times(catalog, i)
      BY <1>6, <2>1 DEF Plan
    <2>4. TypeOK' /\ OrdersRead' /\ OneJob' /\ ReadyIsComplete'
      BY <1>6, <2>1, <2>2, <2>3 DEF Plan
    <2>5. /\ tiles' = tiles /\ job'[r] = "copying"
          /\ todo'[r] = NotDone(catalog) /\ wanted'[r] = Listed(catalog)
          /\ \A q \in Requests : q # r => /\ job'[q] = job[q] /\ todo'[q] = todo[q]
                                         /\ wanted'[q] = wanted[q]
      BY <1>6, <2>2 DEF Plan
    <2>6. ASSUME NEW i \in Items
          PROVE  /\ tiles[i] \in Nat /\ Times(catalog, i) \in Nat /\ most'[i] \in Nat
                 /\ \/ tiles[i] = 0 /\ NotDone(catalog)[i] = Times(catalog, i)
                    \/ tiles[i] > 0 /\ NotDone(catalog)[i] = 0
      <3>1. tiles[i] \in Nat /\ Times(catalog, i) \in Nat /\ most'[i] \in Nat
        BY <2>1, <2>3
      <3>2. NotDone(catalog)[i] = IF tiles[i] = 0 THEN Times(catalog, i) ELSE 0
        BY DEF NotDone
      <3> QED BY <3>1, <3>2
    <2>7. WantedIsPlanned'
      <3>1. ASSUME NEW i \in Listed(catalog) PROVE NotDone(catalog)[i] > 0 \/ tiles[i] > 0
        BY <2>1, <2>6, <3>1
      <3> QED BY <2>1, <2>5, <3>1
    <2>8. PlanIsMissing'
      <3>1. ASSUME NEW i \in Items, NotDone(catalog)[i] > 0
            PROVE  tiles[i] + NotDone(catalog)[i] <= most'[i]
        BY <2>3, <2>6, <3>1
      <3>2. \A i \in Items : tiles[i] <= most'[i]
        BY <2>3
      <3>3. \A q \in Requests : job'[q] = "copying" => q = r
        BY <1>6, <2>5 DEF Plan
      <3> QED BY <2>5, <3>1, <3>2, <3>3
    <2> QED BY <2>4, <2>7, <2>8
  <1>7. ASSUME NEW r \in Requests, NEW i \in Items, CopyTile(r, i) PROVE NInv'
    <2>1. /\ todo[r][i] > 0 /\ job[r] = "copying"
          /\ \A q \in Requests : job[q] = "copying" => q = r
          /\ UNCHANGED <<job, most, wanted, year>>
      BY <1>7 DEF CopyTile
    <2>2. /\ todo' \in [Requests -> [Items -> Nat]] /\ todo'[r][i] = todo[r][i] - 1
          /\ \A j \in Items : j # i => todo'[r][j] = todo[r][j]
      BY <1>7 DEF CopyTile
    <2>3. /\ tiles' \in [Items -> Nat] /\ tiles'[i] = tiles[i] + 1
          /\ \A j \in Items : j # i => tiles'[j] = tiles[j]
      BY <1>7 DEF CopyTile
    <2>4. TypeOK' /\ OrdersRead' /\ OneJob'
      BY <1>7, <2>2, <2>3 DEF CopyTile
    <2>5. \A j \in Items : todo'[r][j] > 0 => tiles'[j] + todo'[r][j] <= most[j]
      <3>1. tiles[i] + todo[r][i] <= most[i]
        BY <2>1
      <3> QED BY <2>1, <2>2, <2>3, <3>1
    <2>6. \A j \in Items : tiles'[j] <= most[j]
      <3>1. tiles[i] + todo[r][i] <= most[i]
        BY <2>1
      <3> QED BY <2>1, <2>3, <3>1
    <2>7. PlanIsMissing'
      BY <2>1, <2>5, <2>6
    <2>8. \A j \in Items : tiles'[j] >= tiles[j]
      BY <2>3
    <2>9. \A j \in Items : todo[r][j] > 0 \/ tiles[j] > 0 => todo'[r][j] > 0 \/ tiles'[j] > 0
      BY <2>2, <2>3
    <2>10. /\ \A j \in Items : tiles[j] > 0 => tiles'[j] > 0
           /\ \A q \in Requests : wanted[q] \in SUBSET Items
      BY <2>3, <2>8
    <2>11. ReadyIsComplete'
      BY <2>1, <2>10
    <2>12. WantedIsPlanned'
      BY <2>1, <2>9, <2>10
    <2> QED BY <2>4, <2>7, <2>11, <2>12
  <1>8. ASSUME NEW r \in Requests, Finish(r) PROVE NInv'
    BY <1>8 DEF Finish, AllCopied
  <1>9. ASSUME NEW r \in Requests, Fail(r) PROVE NInv'
    BY <1>9 DEF Fail, Failed
  <1>10. ASSUME NEW r \in Requests, Interrupt(r) PROVE NInv'
    BY <1>10 DEF Interrupt
  <1>11. ASSUME NEW r \in Requests, Die(r) PROVE NInv'
    BY <1>11 DEF Die
  <1>12. CASE UNCHANGED vars
    BY <1>12 DEF vars
  <1> QED BY <1>1, <1>2, <1>3, <1>4, <1>5, <1>6, <1>7, <1>8, <1>9, <1>10, <1>11, <1>12
          DEF Next, JobStep

THEOREM NaipInvariant == OneWorker => (Spec => []NInv)
  <1> SUFFICES ASSUME OneWorker PROVE Spec => []NInv OBVIOUS
  <1> QED BY InitNInv, NextNInv, PTL DEF Spec

\* A tile is stored no more often than one search returned it, however often the job was
\* resumed or the year ordered again (ingest.py:158-170).
THEOREM TilesOnce == OneWorker => (Spec => []NoDuplicateTiles)
  <1>1. NInv => NoDuplicateTiles
    BY DEF NInv, PlanIsMissing, NoDuplicateTiles
  <1> SUFFICES ASSUME OneWorker PROVE Spec => []NoDuplicateTiles OBVIOUS
  <1> QED BY <1>1, NaipInvariant, PTL

\* A ready year has every tile that its search should have found.
THEOREM ReadyComplete == OneWorker => (Spec => []ReadyIsComplete)
  <1>1. NInv => ReadyIsComplete
    BY DEF NInv
  <1> SUFFICES ASSUME OneWorker PROVE Spec => []ReadyIsComplete OBVIOUS
  <1> QED BY <1>1, NaipInvariant, PTL

\* Only a late retry takes a ready year back.
THEOREM ReadyLeft == OneWorker => (Spec => ReadyLeftOnlyLate)
  <1>1. NInv /\ [Next]_vars =>
          [year = "ready" /\ year' # "ready" =>
              \E r \in Requests : /\ req[r] = "read" /\ req'[r] = "done"
                                  /\ seen[r] = "failed"]_vars
    <2> SUFFICES ASSUME NInv, Next, year = "ready", year' # "ready"
                 PROVE  \E r \in Requests : /\ req[r] = "read" /\ req'[r] = "done"
                                            /\ seen[r] = "failed"
      BY DEF vars
    <2> USE DEF NInv, TypeOK, OrdersRead, OneJob, Working, service, searched
    <2>1. ASSUME NEW r \in Requests, JobStep(r) PROVE FALSE
      BY <2>1 DEF JobStep, JobRead, JobOpen, Plan, CopyTile, Finish, Fail
    <2>2. PICK r \in Requests : OrderCommit(r)
      BY <2>1 DEF Next, CatalogChanges, OrderRead, Interrupt, Die
    <2> QED BY <2>2 DEF OrderCommit
  <1> SUFFICES ASSUME OneWorker PROVE Spec => ReadyLeftOnlyLate OBVIOUS
  <1> QED BY <1>1, NaipInvariant, PTL DEF Spec, ReadyLeftOnlyLate

LEMMA BehindYears == Spec => [](TypeOK /\ OrdersRead /\ NoYearLeftBehind)
  <1> DEFINE I == TypeOK /\ OrdersRead /\ NoYearLeftBehind
  <1>1. Init => I
    BY InitNInv DEF NInv, Init, NoYearLeftBehind
  <1>2. I /\ [Next]_vars => I'
    <2> SUFFICES ASSUME I, [Next]_vars PROVE I' OBVIOUS
    <2> USE NaipIngestAssumption
        DEF TypeOK, OrdersRead, NoYearLeftBehind, YearStatuses, Working, service, searched
    <2>1. CASE CatalogChanges
      BY <2>1 DEF CatalogChanges
    <2>2. ASSUME NEW r \in Requests, OrderRead(r) PROVE I'
      BY <2>2 DEF OrderRead, MayOrder
    <2>3. ASSUME NEW r \in Requests, OrderCommit(r) PROVE I'
      BY <2>3 DEF OrderCommit, KeepReadyTiles
    <2>4. ASSUME NEW r \in Requests, JobRead(r) PROVE I'
      BY <2>4 DEF JobRead, MayCopy
    <2>5. ASSUME NEW r \in Requests, JobOpen(r) PROVE I'
      BY <2>5 DEF JobOpen
    <2>6. ASSUME NEW r \in Requests, Plan(r) PROVE I'
      <3>1. /\ Listed(catalog) \in SUBSET Items
            /\ \A i \in Items : Times(catalog, i) \in Nat
        BY SearchIsWhole, TimesCount
      <3>2. NotDone(catalog) \in [Items -> Nat]
        BY <3>1 DEF NotDone
      <3> QED BY <2>6, <3>1, <3>2 DEF Plan
    <2>7. ASSUME NEW r \in Requests, NEW i \in Items, CopyTile(r, i) PROVE I'
      BY <2>7 DEF CopyTile
    <2>8. ASSUME NEW r \in Requests, Finish(r) PROVE I'
      BY <2>8 DEF Finish
    <2>9. ASSUME NEW r \in Requests, Fail(r) PROVE I'
      BY <2>9 DEF Fail, Failed
    <2>10. ASSUME NEW r \in Requests, Interrupt(r) PROVE I'
      BY <2>10 DEF Interrupt
    <2>11. ASSUME NEW r \in Requests, Die(r) PROVE I'
      BY <2>11 DEF Die
    <2>12. CASE UNCHANGED vars
      BY <2>12 DEF vars
    <2> QED BY <2>1, <2>2, <2>3, <2>4, <2>5, <2>6, <2>7, <2>8, <2>9, <2>10, <2>11, <2>12
            DEF Next, JobStep
  <1> QED BY <1>1, <1>2, PTL DEF Spec

\* A year that is under way has a job that will go on with it, or one whose worker died,
\* with any number of workers (NoYearLeftBehind; ingest_naip, _fail_year).
THEOREM YearHasJob == Spec => []NoYearLeftBehind
  BY BehindYears, PTL

\* The variables keep their types, with any number of workers.
THEOREM NaipTyped == Spec => []TypeOK
  BY BehindYears, PTL
================================================================================
