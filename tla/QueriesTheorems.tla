-------------------------- MODULE QueriesTheorems ---------------------------
(***************************************************************************)
(* What a client reads: proofs that listings read page by page while the   *)
(* ledger goes on are complete and have no lease twice, that the keys the  *)
(* pages are ordered by, the identifiers of pkg/uuid, differ and are in the*)
(* order of creation, and that the queries about withdrawable amounts and  *)
(* remaining time answer what the messages then do.                        *)
(***************************************************************************)
EXTENDS Listing, Uuid, Queries, MeterTheorems

(* The provers get more time than by default. *)
USE SMTT(30), ZenonT(30)

-----------------------------------------------------------------------------
(* Pages *)

(* The number of entries of C before l, in the direction of the query. *)
Ahead(q, C, l) == Cardinality({m \in C : Precedes(q, m, l)})

(* Either direction numbers the leases. *)
Position(q, n) == [l \in 1 .. n |-> IF q.reverse THEN n - l ELSE l]

(* Ahead is the rank in that numbering. *)
LEMMA AheadIsRank ==
  ASSUME NEW q, NEW n \in Nat, NEW C \in SUBSET (1 .. n)
  PROVE  /\ IsFiniteSet(C)
         /\ [l \in C |-> Position(q, n)[l]] \in Positions(C, n)
         /\ \A l, m \in C :
              Precedes(q, l, m) <=> Position(q, n)[l] < Position(q, n)[m]
         /\ \A l \in C : /\ Ahead(q, C, l) = Rank(C, [m \in C |-> Position(q, n)[m]], l)
                         /\ Ahead(q, C, l) \in Nat
<1> DEFINE pos == [l \in C |-> Position(q, n)[l]]
<1>1. IsFiniteSet(C)
  <2>1. IsFiniteSet(1 .. n)
    BY FS_Interval
  <2>2. QED
    BY ZenonT(30), <2>1, FS_Subset
<1>2. \A l \in C : l \in 1 .. n /\ pos[l] = IF q.reverse THEN n - l ELSE l
  BY DEF Position
<1>3. pos \in Positions(C, n)
  <2>1. \A l \in C : pos[l] \in 0 .. n
    BY <1>2
  <2>2. \A l, m \in C : pos[l] = pos[m] => l = m
    BY <1>2
  <2>3. QED
    BY <2>1, <2>2 DEF Positions
<1>4. \A l, m \in C : Precedes(q, l, m) <=> pos[l] < pos[m]
  BY <1>2 DEF Precedes
<1>5. \A l \in C : {m \in C : Precedes(q, m, l)} = Preceding(C, pos, l)
  BY ZenonT(30), <1>4 DEF Preceding
<1>6. \A l \in C : Ahead(q, C, l) = Rank(C, pos, l) /\ Rank(C, pos, l) \in Nat
  BY ZenonT(30), <1>1, <1>5, RankType DEF Ahead, Rank
<1>7. QED
  BY <1>1, <1>3, <1>4, <1>6

(* The entries ahead of an entry grow along the index. *)
LEMMA AheadGrows ==
  ASSUME NEW q, NEW n \in Nat, NEW C \in SUBSET (1 .. n), NEW l \in C, NEW m \in C
  PROVE  Ahead(q, C, l) < Ahead(q, C, m) <=> Precedes(q, l, m)
<1> DEFINE pos == [x \in C |-> Position(q, n)[x]]
<1>1. /\ IsFiniteSet(C) /\ pos \in Positions(C, n)
      /\ \A x \in C : Ahead(q, C, x) = Rank(C, pos, x) /\ Ahead(q, C, x) \in Nat
  BY AheadIsRank
<1>2. \A x, y \in C : Precedes(q, x, y) <=> pos[x] < pos[y]
  BY ZenonT(30), AheadIsRank
<1> HIDE DEF pos
<1>3. pos \in [C -> 0 .. n] /\ \A x, y \in C : pos[x] = pos[y] => x = y
  BY <1>1 DEF Positions
<1>4. \A x, y \in C : pos[x] < pos[y] => Rank(C, pos, x) < Rank(C, pos, y)
  BY ZenonT(30), <1>1, <1>3, RankGrows
<1>5. pos[l] \in Nat /\ pos[m] \in Nat
  BY <1>3
<1>6. CASE pos[l] < pos[m]
  BY <1>1, <1>2, <1>4, <1>6
<1>7. CASE pos[m] < pos[l]
  BY <1>1, <1>2, <1>4, <1>5, <1>7
<1>8. CASE l = m
  BY <1>1, <1>2, <1>5, <1>8
<1>9. QED
  BY <1>3, <1>5, <1>6, <1>7, <1>8

(***************************************************************************)
(* A page has entries of the index only, all of them before the key it     *)
(* comes with, and leaves out no entry between the offset and that key,    *)
(* or, if it comes with none, no entry after the offset.                   *)
(***************************************************************************)
Taken(q, C, skip, P) ==
  /\ P.records \in SUBSET C
  /\ P.nextKey = 0 \/ P.nextKey \in C
  /\ P.nextKey = 0 => \A l \in C : Ahead(q, C, l) >= skip => l \in P.records
  /\ P.nextKey # 0 =>
       /\ \A l \in P.records : Precedes(q, l, P.nextKey)
       /\ \A l \in C : Ahead(q, C, l) >= skip /\ Precedes(q, l, P.nextKey)
                       => l \in P.records

(* Every page is taken that way. *)
LEMMA PageTaken ==
  ASSUME NEW q, q.limit \in Nat, NEW n \in Nat, NEW C \in SUBSET (1 .. n), NEW skip \in Nat
  PROVE  Taken(q, C, skip, Page(q, C, skip))
<1> USE DEF Taken
<1> DEFINE P    == Page(q, C, skip)
           rest == {l \in C : Ahead(q, C, l) = skip + q.limit}
           pos  == [x \in C |-> Position(q, n)[x]]
<1>1. /\ P.records = {l \in C : skip <= Ahead(q, C, l) /\ Ahead(q, C, l) < skip + q.limit}
      /\ P.nextKey = IF rest = {} THEN 0 ELSE CHOOSE l \in rest : TRUE
  BY DEF Page, Ahead
<1> HIDE DEF P
<1>2. \A l \in C : Ahead(q, C, l) \in Nat
  BY ZenonT(30), AheadIsRank
<1>3. CASE rest = {}
  <2>1. /\ IsFiniteSet(C) /\ pos \in Positions(C, n)
        /\ \A l \in C : Ahead(q, C, l) = Rank(C, pos, l)
    BY AheadIsRank
  <2> HIDE DEF pos
  <2>2. skip + q.limit \in Nat /\ \A l \in C : Rank(C, pos, l) # skip + q.limit
    BY <1>3, <2>1
  <2>3. \A l \in C : Rank(C, pos, l) < skip + q.limit
    BY ZenonT(30), <2>1, <2>2, RanksFilled
  <2>4. \A l \in C : Ahead(q, C, l) >= skip => l \in P.records
    BY <1>1, <1>2, <2>1, <2>3
  <2>5. QED
    BY <1>1, <1>3, <2>4 DEF P
<1>4. CASE rest # {}
  <2>1. P.nextKey \in C /\ Ahead(q, C, P.nextKey) = skip + q.limit
    BY <1>1, <1>4
  <2>2. P.nextKey # 0
    BY <2>1
  <2>3. \A l \in C : Ahead(q, C, l) < skip + q.limit <=> Precedes(q, l, P.nextKey)
    BY ZenonT(30), <2>1, AheadGrows
  <2>4. /\ P.records \in SUBSET C
        /\ \A l \in P.records : Precedes(q, l, P.nextKey)
        /\ \A l \in C : Ahead(q, C, l) >= skip /\ Precedes(q, l, P.nextKey) => l \in P.records
    BY ZenonT(30), <1>1, <1>2, <2>3
  <2>5. QED
    BY <2>1, <2>2, <2>4 DEF P
<1>5. QED
  BY <1>3, <1>4

-----------------------------------------------------------------------------
(* The invariant of a client that reads a listing *)

Read == UNION {pages[i] : i \in DOMAIN pages}

PagesDisjoint == \A i, j \in DOMAIN pages : i # j => pages[i] \cap pages[j] = {}

(***************************************************************************)
(* What is known while a listing is read.  Everything before the key that  *)
(* was to be listed all the time has been read, and nothing from the key   *)
(* on; a key is missing in an index by state only, and then it is the last.*)
(***************************************************************************)
Reading(q) ==
  /\ q \in ListingQueries
  /\ steady \subseteq Listed(q)
  /\ lost => nextKey = 0 /\ LeavesIndex(q)
  /\ nextKey # 0 =>
       /\ nextKey \in 1 .. leaseSeq
       /\ ~LeavesIndex(q) => nextKey \in Indexed(q)
       /\ \A l \in Read : Precedes(q, l, nextKey)
       /\ \A l \in steady : Precedes(q, l, nextKey) => l \in Read
  /\ nextKey = 0 /\ ~lost => steady \subseteq Read

ListingInv ==
  /\ MeterInv
  /\ pages \in Seq(SUBSET (1 .. leaseSeq))
  /\ lost \in BOOLEAN
  /\ PagesDisjoint
  /\ query = None => pages = <<>> /\ lost = FALSE
  /\ query # None => Reading(query)

(* The queries read what they list. *)
LEMMA ListedIndexed ==
  ASSUME NEW q
  PROVE  /\ Listed(q) \in SUBSET (1 .. leaseSeq)
         /\ Indexed(q) \in SUBSET (1 .. leaseSeq)
         /\ Answer(q, 0) = Page(q, Listed(q), q.offset)
         /\ \A key : key # 0 =>
              Answer(q, key) =
                Page(q, {l \in FromKey(q, Indexed(q), key) : InFilter(q, l)}, 0)
<1>1. Listed(q) \in SUBSET (1 .. leaseSeq) /\ Indexed(q) \in SUBSET (1 .. leaseSeq)
  BY DEF Listed, Indexed
<1>2. q.by # "sku" => Indexed(q) = Listed(q)
  BY DEF Listed, Indexed
<1>3. FromKey(q, Indexed(q), 0) = Indexed(q)
  <2>1. 0 \notin Indexed(q)
    BY <1>1
  <2>2. QED
    BY <2>1 DEF FromKey
<1>4. Answer(q, 0) = Page(q, Listed(q), q.offset)
  BY <1>2, <1>3 DEF Answer, paginateSKUIndex, PaginateStringIndex, Listed
<1>5. ASSUME NEW key, key # 0
      PROVE  Answer(q, key) =
               Page(q, {l \in FromKey(q, Indexed(q), key) : InFilter(q, l)}, 0)
  <2>1. q.by # "sku" => {l \in FromKey(q, Indexed(q), key) : InFilter(q, l)}
                          = FromKey(q, Indexed(q), key)
    BY <1>5 DEF FromKey, Indexed
  <2>2. QED
    BY <1>5, <2>1 DEF Answer, paginateSKUIndex, PaginateStringIndex
<1>6. QED
  BY <1>1, <1>4, <1>5

(* The first page. *)
LEMMA FirstPageKeeps ==
  ASSUME ListingInv, NEW q \in ListingQueries, FirstPage(q)
  PROVE  ListingInv'
<1> DEFINE C == Listed(q)
           P == Answer(q, 0)
<1>1. /\ leaseSeq \in Nat /\ q.limit \in Nat /\ q.offset \in Nat
      /\ q.by \in {"all", "tenant", "provider", "sku"}
  BY ListingAssumption DEF ListingInv, MeterInv, TypeOK
<1>2. /\ query' = q /\ nextKey' = P.nextKey /\ pages' = <<P.records>>
      /\ steady' = {l \in C : Ahead(q, C, l) >= q.offset} /\ lost' = FALSE
      /\ UNCHANGED vars
  BY DEF FirstPage, AfterOffset, Ahead
<1>3. /\ MeterInv' /\ leaseSeq' = leaseSeq
      /\ Listed(q)' = Listed(q) /\ Indexed(q)' = Indexed(q)
  <2>1. UNCHANGED <<now, params, leaseSeq, leases, accounts, credit, wallet, paid, skuVars>>
    BY <1>2 DEF vars, billingVars
  <2>2. MeterInv'
    BY <1>2, NextMeterInv DEF ListingInv
  <2>3. QED
    BY <2>1, <2>2 DEF Listed, Indexed, InFilter
<1>4. /\ C \in SUBSET (1 .. leaseSeq) /\ C \in SUBSET Indexed(q)
      /\ P = Page(q, C, q.offset)
  BY ZenonT(30), ListedIndexed DEF Listed
<1>5. /\ P.records \in SUBSET C
      /\ P.nextKey = 0 \/ P.nextKey \in C
      /\ P.nextKey = 0 => \A l \in C : Ahead(q, C, l) >= q.offset => l \in P.records
      /\ P.nextKey # 0 =>
           /\ \A l \in P.records : Precedes(q, l, P.nextKey)
           /\ \A l \in C : Ahead(q, C, l) >= q.offset /\ Precedes(q, l, P.nextKey)
                           => l \in P.records
  <2> HIDE DEF C, P
  <2>1. Taken(q, C, q.offset, P)
    BY ZenonT(30), <1>1, <1>4, PageTaken
  <2>2. QED
    BY <2>1 DEF Taken
<1> HIDE DEF C, P
<1>6. DOMAIN pages' = {1} /\ pages'[1] = P.records /\ Read' = P.records
  BY <1>2 DEF Read
<1>7. pages' \in Seq(SUBSET (1 .. leaseSeq)')
  <2>1. P.records \in SUBSET (1 .. leaseSeq)'
    BY ZenonT(30), <1>3, <1>4, <1>5
  <2>2. \A S : \A x \in S : <<x>> \in Seq(S)
    OBVIOUS
  <2>3. <<P.records>> \in Seq(SUBSET (1 .. leaseSeq)')
    BY <2>1, <2>2
  <2>4. QED
    BY <1>2, <2>3
<1>8. PagesDisjoint'
  BY <1>6 DEF PagesDisjoint
<1>9. query' # None
  BY <1>1, <1>2 DEF None
<1>10. Reading(q)'
  <2>1. steady' \subseteq Listed(q)'
    BY <1>2, <1>3 DEF C
  <2>2. nextKey' # 0 =>
          /\ nextKey' \in 1 .. leaseSeq' /\ nextKey' \in Indexed(q)'
          /\ \A l \in Read' : Precedes(q, l, nextKey')
          /\ \A l \in steady' : Precedes(q, l, nextKey') => l \in Read'
    BY ZenonT(30), <1>2, <1>3, <1>4, <1>5, <1>6
  <2>3. nextKey' = 0 => steady' \subseteq Read'
    BY <1>2, <1>5, <1>6
  <2>4. QED
    BY <1>2, <2>1, <2>2, <2>3 DEF Reading, Precedes, LeavesIndex
<1>11. QED
  BY ZenonT(30), <1>2, <1>3, <1>7, <1>8, <1>9, <1>10 DEF ListingInv

(* The pages after it. *)
LEMMA NextPageKeeps ==
  ASSUME ListingInv, NextPage
  PROVE  ListingInv'
<1> DEFINE q == query
           k == nextKey
           C == {l \in FromKey(q, Indexed(q), k) : InFilter(q, l)}
           P == Answer(q, k)
<1>1. /\ q \in ListingQueries /\ q # None /\ k # 0 /\ lost = FALSE
      /\ leaseSeq \in Nat /\ q.limit \in Nat
      /\ Reading(q)
      /\ pages \in Seq(SUBSET (1 .. leaseSeq)) /\ PagesDisjoint
  BY ListingAssumption DEF NextPage, ListingInv, MeterInv, TypeOK, Reading
<1>2. /\ nextKey' = P.nextKey /\ pages' = Append(pages, P.records)
      /\ lost' = (k \notin Indexed(q))
      /\ query' = query /\ steady' = steady /\ UNCHANGED vars
  BY <1>1 DEF NextPage
<1>3. /\ MeterInv' /\ leaseSeq' = leaseSeq
      /\ Listed(q)' = Listed(q) /\ Indexed(q)' = Indexed(q)
  <2>1. UNCHANGED <<now, params, leaseSeq, leases, accounts, credit, wallet, paid, skuVars>>
    BY <1>2 DEF vars, billingVars
  <2>2. MeterInv'
    BY <1>2, NextMeterInv DEF ListingInv
  <2>3. QED
    BY <1>2, <2>1, <2>2 DEF Listed, Indexed, InFilter
<1>4. /\ k \in 1 .. leaseSeq
      /\ steady \subseteq Listed(q)
      /\ ~LeavesIndex(q) => k \in Indexed(q)
      /\ \A l \in Read : l \in 1 .. leaseSeq /\ Precedes(q, l, k)
      /\ \A l \in steady : Precedes(q, l, k) => l \in Read
  BY <1>1 DEF Reading, Read
<1>5. /\ C \in SUBSET (1 .. leaseSeq)
      /\ k \notin Indexed(q) => C = {}
      /\ k \in Indexed(q) => C = {l \in Listed(q) : ~Precedes(q, l, k)}
      /\ P = Page(q, C, 0)
  BY ZenonT(30), <1>1, ListedIndexed DEF FromKey, Listed, Indexed
<1>6. /\ \A l \in C : l \in 1 .. leaseSeq /\ l \in Listed(q) /\ ~Precedes(q, l, k)
      /\ Listed(q) \in SUBSET Indexed(q) /\ Listed(q) \in SUBSET (1 .. leaseSeq)
  BY ZenonT(30), <1>5, ListedIndexed DEF Listed
<1> HIDE DEF C, P
<1>7. /\ P.records \in SUBSET C
      /\ P.nextKey = 0 \/ P.nextKey \in C
      /\ P.nextKey = 0 => \A l \in C : l \in P.records
      /\ P.nextKey # 0 =>
           /\ \A l \in P.records : Precedes(q, l, P.nextKey)
           /\ \A l \in C : Precedes(q, l, P.nextKey) => l \in P.records
  <2>1. \A l \in C : Ahead(q, C, l) >= 0
    <3>1. \A l \in C : Ahead(q, C, l) \in Nat
      BY ZenonT(30), <1>1, <1>5, AheadIsRank
    <3>2. QED
      BY <3>1
  <2> HIDE DEF q
  <2>2. Taken(q, C, 0, P)
    BY ZenonT(30), <1>1, <1>5, PageTaken
  <2>3. QED
    BY <2>1, <2>2 DEF Taken
<1>8. /\ DOMAIN pages = 1 .. Len(pages) /\ Len(pages) \in Nat
      /\ DOMAIN pages' = (1 .. Len(pages)) \cup {Len(pages) + 1}
      /\ \A i \in 1 .. Len(pages) : pages'[i] = pages[i]
      /\ pages'[Len(pages) + 1] = P.records
      /\ pages' \in Seq(SUBSET (1 .. leaseSeq)')
  <2>1. P.records \in SUBSET (1 .. leaseSeq)
    BY <1>5, <1>7
  <2>2. QED
    BY <1>1, <1>2, <1>3, <2>1
<1>9. Read' = Read \cup P.records
  BY <1>8 DEF Read
<1>10. \A l \in P.records : l \notin Read
  BY <1>4, <1>6, <1>7
<1>11. PagesDisjoint'
  <2>1. \A i \in 1 .. Len(pages) : pages[i] \subseteq Read
    BY <1>8 DEF Read
  <2>2. QED
    BY <1>1, <1>8, <1>10, <2>1 DEF PagesDisjoint
<1>12. Reading(q)'
  <2>1. CASE k \notin Indexed(q)
    <3>1. nextKey' = 0
      BY <1>2, <1>5, <1>7, <2>1
    <3>2. QED
      BY ZenonT(30), <1>1, <1>2, <1>3, <1>4, <2>1, <3>1 DEF Reading, LeavesIndex
  <2>2. CASE k \in Indexed(q)
    <3>1. \A l \in steady : l \in C \/ l \in Read
      BY <1>4, <1>5, <2>2
    <3>2. nextKey' = 0 => steady' \subseteq Read'
      BY <1>2, <1>7, <1>9, <3>1
    <3>3. ASSUME nextKey' # 0
          PROVE  /\ nextKey' \in 1 .. leaseSeq' /\ nextKey' \in Indexed(q)'
                 /\ \A l \in Read' : Precedes(q, l, nextKey')
                 /\ \A l \in steady' : Precedes(q, l, nextKey') => l \in Read'
      <4>1. nextKey' \in C
        BY <1>2, <1>7, <3>3
      <4>2. \A l \in Read : Precedes(q, l, nextKey')
        BY <1>4, <1>6, <4>1 DEF Precedes
      <4>3. QED
        BY <1>2, <1>3, <1>6, <1>7, <1>9, <3>1, <3>3, <4>1, <4>2
    <3>4. QED
      BY ZenonT(30), <1>1, <1>2, <1>3, <1>4, <2>2, <3>2, <3>3
      DEF Reading, LeavesIndex, Precedes
  <2>3. QED
    BY <2>1, <2>2
<1>13. QED
  BY <1>1, <1>2, <1>3, <1>8, <1>11, <1>12 DEF ListingInv

(* No step of the ledger changes whose lease it is. *)
LEMMA PartiesStay ==
  ASSUME MeterInv, [Next]_vars
  PROVE  /\ leaseSeq' \in Nat /\ leaseSeq <= leaseSeq'
         /\ \A l \in 1 .. leaseSeq : /\ leases'[l].tenant = leases[l].tenant
                                     /\ leases'[l].provider = leases[l].provider
<1>1. /\ leaseSeq \in Nat
      /\ leaseSeq' = leaseSeq \/ leaseSeq' = leaseSeq + 1
      /\ \A l \in 1 .. leaseSeq : LeaseStep(l) /\ leases[l] \in Lease
  BY LeaseSteps DEF MeterInv, TypeOK
<1>2. ASSUME NEW l \in 1 .. leaseSeq
      PROVE  leases'[l].tenant = leases[l].tenant /\ leases'[l].provider = leases[l].provider
  <2>1. leases[l] \in Lease /\ LeaseStep(l)
    BY <1>1
  <2>2. CASE Untouched(l) \/ Acknowledged(l) \/ Metered(l)
    BY ZenonT(30), <2>1, <2>2 DEF Untouched, Acknowledged, Metered, Lease
  <2>3. ASSUME NEW state, Dropped(l, state)
        PROVE  leases'[l].tenant = leases[l].tenant /\ leases'[l].provider = leases[l].provider
    BY <2>1, <2>3 DEF Dropped, Lease
  <2>4. ASSUME NEW exhausted, Ended(l, exhausted)
        PROVE  leases'[l].tenant = leases[l].tenant /\ leases'[l].provider = leases[l].provider
    BY <2>1, <2>4 DEF Ended, Closed, Lease
  <2>5. QED
    BY <2>1, <2>2, <2>3, <2>4 DEF LeaseStep
<1>3. QED
  BY <1>1, <1>2

(* The ledger between two pages. *)
LEMMA LedgerKeepsListing ==
  ASSUME ListingInv, LedgerStep
  PROVE  ListingInv'
<1> DEFINE q == query
<1>1. /\ UNCHANGED <<query, nextKey, pages, lost>>
      /\ q # None => steady' = steady \cap Listed(q)'
      /\ Next
  BY DEF LedgerStep, FixedCatalogueNext, Next
<1>2. MeterInv /\ MeterInv' /\ leaseSeq \in Nat
  BY <1>1, NextMeterInv DEF ListingInv, MeterInv, TypeOK
<1>3. /\ leaseSeq' \in Nat /\ leaseSeq <= leaseSeq'
      /\ \A l \in 1 .. leaseSeq : /\ leases'[l].tenant = leases[l].tenant
                                  /\ leases'[l].provider = leases[l].provider
  BY <1>1, <1>2, PartiesStay
<1>4. (1 .. leaseSeq) \subseteq (1 .. leaseSeq')
  BY <1>2, <1>3
<1>5. pages' \in Seq(SUBSET (1 .. leaseSeq'))
  BY <1>1, <1>4 DEF ListingInv
<1>6. PagesDisjoint' /\ Read' = Read
  BY <1>1 DEF ListingInv, PagesDisjoint, Read
<1>7. ASSUME q # None PROVE Reading(q)'
  <2>1. Reading(q) /\ steady' = steady \cap Listed(q)'
    BY <1>1, <1>7 DEF ListingInv
  <2>2. ~LeavesIndex(q) /\ nextKey \in Indexed(q) => nextKey \in Indexed(q)'
    BY <1>1, <1>3, <1>4 DEF LeavesIndex, Indexed, InFilter
  <2>3. LeavesIndex(q)' = LeavesIndex(q)
    BY <1>1 DEF LeavesIndex
  <2>4. \A l, m : Precedes(q, l, m)' = Precedes(q, l, m)
    BY <1>1 DEF Precedes
  <2>5. QED
    BY <1>1, <1>4, <1>6, <2>1, <2>2, <2>3, <2>4 DEF Reading, Precedes
<1>8. QED
  BY <1>1, <1>2, <1>5, <1>6, <1>7 DEF ListingInv

(***************************************************************************)
(* For any number of leases, pages and queries: a listing read to its end  *)
(* contains every lease that was in it all the time, none twice, and only  *)
(* an index by state can lose the key between two pages.                   *)
(***************************************************************************)
THEOREM ListingAlwaysComplete == ListingSpec => []ListingComplete
<1>1. ListingInit => ListingInv
  <2> SUFFICES ASSUME ListingInit PROVE ListingInv
    OBVIOUS
  <2>1. MeterInv /\ query = None /\ pages = <<>> /\ lost = FALSE
    BY InitMeterInv DEF ListingInit
  <2>2. PagesDisjoint /\ pages \in Seq(SUBSET (1 .. leaseSeq))
    BY <2>1 DEF PagesDisjoint
  <2>3. QED
    BY ZenonT(30), <2>1, <2>2 DEF ListingInv
<1>2. ListingInv /\ [ListingNext]_<<vars, listingVars>> => ListingInv'
  <2> SUFFICES ASSUME ListingInv, [ListingNext]_<<vars, listingVars>> PROVE ListingInv'
    OBVIOUS
  <2>1. CASE UNCHANGED <<vars, listingVars>>
    <3>1. MeterInv'
      BY <2>1, NextMeterInv DEF ListingInv
    <3>2. UNCHANGED <<leaseSeq, leases, query, nextKey, pages, steady, lost>>
      BY <2>1 DEF vars, billingVars, listingVars
    <3>3. QED
      BY <3>1, <3>2
      DEF ListingInv, PagesDisjoint, Reading, Read, Listed, Indexed, InFilter,
                        LeavesIndex, Precedes
  <2>2. QED
    BY <2>1, FirstPageKeeps, NextPageKeeps, LedgerKeepsListing DEF ListingNext
<1>3. ListingInv => ListingComplete
  <2> SUFFICES ASSUME ListingInv PROVE ListingComplete
    OBVIOUS
  <2>1. PagesDisjoint /\ (query = None => lost = FALSE) /\ (query # None => Reading(query))
    BY DEF ListingInv
  <2>2. QED
    BY <2>1 DEF ListingComplete, PagesDisjoint, Reading, Read
<1>4. QED
  BY <1>1, <1>2, <1>3, PTL DEF ListingSpec

-----------------------------------------------------------------------------
(* Identifiers *)

(***************************************************************************)
(* Sequence numbers less than 4096 apart never give the same identifier,   *)
(* in one block or in two, whatever the hashes: only a module that creates *)
(* more than 4096 entities in a millisecond has to trust the hash.         *)
(***************************************************************************)
THEOREM IdentifiersDiffer ==
  ASSUME NEW ms1 \in Nat, NEW ms2 \in Nat, NEW hash1 \in Nat, NEW hash2 \in Nat,
         NEW m \in Nat, NEW n \in Nat, m < n, n - m < 4096
  PROVE  GenerateUUIDv7WithEntropy(ms1, m, hash1) # GenerateUUIDv7WithEntropy(ms2, n, hash2)
<1>1. m % 4096 # n % 4096
  OBVIOUS
<1>2. QED
  BY <1>1 DEF GenerateUUIDv7WithEntropy

(***************************************************************************)
(* Within the 48 bits, identifiers are in the order of creation: of a      *)
(* later block, or of the same block as long as the sequence does not pass *)
(* a multiple of 4096.  Indexes and listings follow this order.            *)
(***************************************************************************)
THEOREM IdentifiersInOrder ==
  ASSUME NEW ms1 \in Nat, NEW ms2 \in Nat, NEW hash1 \in Nat, NEW hash2 \in Nat,
         NEW m \in Nat, NEW n \in Nat, m < n, ms2 < 281474976710656,
         ms1 < ms2 \/ (ms1 = ms2 /\ m \div 4096 = n \div 4096)
  PROVE  ComesBefore(GenerateUUIDv7WithEntropy(ms1, m, hash1),
                  GenerateUUIDv7WithEntropy(ms2, n, hash2))
<1>1. ms1 % 281474976710656 = ms1 /\ ms2 % 281474976710656 = ms2
  OBVIOUS
<1>2. CASE ms1 < ms2
  BY <1>1, <1>2 DEF GenerateUUIDv7WithEntropy, ComesBefore
<1>3. CASE ms1 = ms2 /\ m \div 4096 = n \div 4096
  <2>1. m % 4096 < n % 4096
    BY <1>3
  <2>2. QED
    BY <1>3, <2>1 DEF GenerateUUIDv7WithEntropy, ComesBefore
<1>4. QED
  BY <1>2, <1>3

-----------------------------------------------------------------------------
(* Queries *)

(* No lease is charged, and the ACTIVE ones are left alone. *)
ActiveLeft ==
  \A l \in 1 .. leaseSeq :
    /\ paid'[l] = paid[l]
    /\ leases[l].state = "ACTIVE" => leases'[l] = leases[l]

(* A step settles a batch, or has nothing to do with ACTIVE leases. *)
LEMMA SettlesOrLeaves ==
  ASSUME MeterInv, [Next]_vars
  PROVE  (\E order : SettlesBatch(order)) \/ ActiveLeft
<1>1. TypeOK
  BY DEF MeterInv
<1>2. ASSUME QuietStep PROVE ActiveLeft
  BY <1>2 DEF QuietStep, ActiveLeft
<1>3. CASE BillingNext
  <2>1. CASE SettlementNext
    BY <1>1, <2>1, SettlementsAreBatches
  <2>2. CASE CreditNext
    BY <1>2, <2>2 DEF CreditNext, FundCredit, BankSend, QuietStep
  <2>3. CASE \E sender \in Accounts, p \in ParamChoices : UpdateParams(sender, p)
    BY <1>2, <2>3 DEF UpdateParams, QuietStep
  <2>4. CASE CreationNext
    BY <2>4, CreationIsCreateStep DEF CreateStep, Untouched, ActiveLeft
  <2>5. CASE PendingNext
    BY ZenonT(30), <2>5, PendingIsAnswerStep
    DEF AnswerStep, Untouched, Acknowledged, Dropped, ActiveLeft
  <2>6. CASE \E dt \in TimeSteps : NextBlock(dt)
    BY ZenonT(30), <2>6 DEF NextBlock, DropPending, ExpiringLeases, Overdue, ActiveLeft
  <2>7. QED
    BY <1>3, <2>1, <2>2, <2>3, <2>4, <2>5, <2>6 DEF BillingNext
<1>4. CASE UNCHANGED billingVars
  BY <1>2, <1>4 DEF billingVars, QuietStep
<1>5. QED
  BY <1>3, <1>4 DEF Next, vars

(* A lease that is not ACTIVE asks for nothing. *)
LEMMA InactiveOwesNothing ==
  ASSUME MeterInv, NEW m \in 1 .. leaseSeq, leases[m].state # "ACTIVE"
  PROVE  Demand(leases[m]) = NoCoins
<1>1. leases[m] \in Lease /\ leases[m].rates \in [Denoms -> Nat]
  BY ZenonT(30) DEF MeterInv, TypeOK, Lease, AllCoins
<1>2. Elapsed(leases[m]) = 0
  <2>1. SettleTime(leases[m]) = leases[m].lastSettledAt
    BY <1>1 DEF SettleTime, MeterInv, SettlementTimes
  <2>2. QED
    BY <1>1, <2>1 DEF Elapsed, Monus, Lease
<1>3. Seconds(Elapsed(leases[m])) = 0 /\ ~AccrualOverflows(leases[m])
  BY <1>2, BillingAssumption DEF AccrualOverflows, Seconds
<1>4. QED
  BY <1>1, <1>3 DEF Demand, CalculateTotalAccruedForLease, Scale, NoCoins

(* A lease that a batch leaves as it is had nothing to pay. *)
LEMMA LeftAloneOwesNothing ==
  ASSUME MeterInv, NEW order, SettlesBatch(order), NEW m \in DOMAIN order,
         LeaseStep(m), leases'[m] = leases[m]
  PROVE  Demand(leases[m]) = NoCoins
<1>1. /\ m \in 1 .. leaseSeq /\ DOMAIN order \subseteq 1 .. leaseSeq
      /\ leases[m] \in Lease /\ TypeOK
  BY DEF SettlesBatch, IsBatch, MeterInv, TypeOK
<1>2. paid'[m] = Plus(paid[m], CalculateTransferAmounts(order, m))
  BY <1>1 DEF SettlesBatch, PerformSettlement
<1>3. CASE leases[m].state # "ACTIVE"
  BY <1>1, <1>3, InactiveOwesNothing
<1>4. CASE leases[m].state = "ACTIVE"
  <2>1. ~ShouldAutoCloseLease(order, m)
    BY ZenonT(30), <1>1, <1>4 DEF SettlesBatch, Closed, Lease
  <2>2. /\ ~AccrualOverflows(leases[m])
        /\ CalculateTransferAmounts(order, m) = CalculateTotalAccruedForLease(leases[m])
        /\ CalculateTransferAmounts(order, m) \in AllCoins
    BY <1>1, <1>4, <2>1, TransferOutcome
  <2>3. Demand(leases[m]) = CalculateTotalAccruedForLease(leases[m])
    BY <2>2 DEF Demand
  <2>4. CASE Untouched(m)
    <3>1. paid[m] \in AllCoins /\ paid[m] = Plus(paid[m], CalculateTransferAmounts(order, m))
      BY <1>1, <1>2, <2>4 DEF Untouched, TypeOK
    <3>2. \A c1, c2 \in AllCoins : c1 = Plus(c1, c2) => c2 = NoCoins
      BY DEF Plus, NoCoins, AllCoins
    <3>3. QED
      BY <2>2, <2>3, <3>1, <3>2
  <2>5. CASE Metered(m)
    <3>1. leases[m].lastSettledAt = now /\ now \in Nat
      BY <1>1, <2>5 DEF Metered, Lease, TypeOK
    <3>2. Seconds(Elapsed(leases[m])) = 0
      BY <1>4, <3>1, BillingAssumption DEF Elapsed, SettleTime, Monus, Seconds
    <3>3. leases[m].rates \in [Denoms -> Nat]
      BY <1>1 DEF Lease, AllCoins
    <3>4. QED
      BY <2>3, <3>2, <3>3 DEF CalculateTotalAccruedForLease, Scale, NoCoins
  <2>6. Untouched(m) \/ Metered(m)
    BY ZenonT(30), <1>1, <1>4 DEF LeaseStep, Acknowledged, Dropped, Ended, Closed, Lease
  <2>7. QED
    BY <2>4, <2>5, <2>6
<1>5. QED
  BY <1>3, <1>4

(* A transfer is at most what the query answers, and exactly that for the  *)
(* only lease of a batch that changes.                                     *)
LEMMA TransferAnswered ==
  ASSUME MeterInv, NEW order, SettlesBatch(order), NEW l \in DOMAIN order,
         \A m \in 1 .. leaseSeq : LeaseStep(m), ~AccrualOverflows(leases[l])
  PROVE  /\ \A d \in Denoms :
              CalculateTransferAmounts(order, l)[d] <= WithdrawableAmount(l)[d]
         /\ (\A m \in 1 .. leaseSeq \ {l} : leases'[m] = leases[m]) =>
              CalculateTransferAmounts(order, l) = WithdrawableAmount(l)
<1> DEFINE accrued == CalculateTotalAccruedForLease(leases[l])
           held    == credit[leases[l].tenant]
           taken   == Demands(Before(order, l))
<1>1. /\ TypeOK /\ l \in 1 .. leaseSeq /\ DOMAIN order \subseteq 1 .. leaseSeq
      /\ leases[l].tenant \in Tenants
  BY ZenonT(30) DEF SettlesBatch, IsBatch, MeterInv, TypeOK, Lease
<1>2. Before(order, l) \in SUBSET (1 .. leaseSeq)
  BY <1>1 DEF Before
<1>3. accrued \in AllCoins /\ held \in AllCoins /\ taken \in AllCoins
  BY <1>1, <1>2, LeaseAmounts, LeaseSums DEF TypeOK
<1>4. /\ CalculateTransferAmounts(order, l) = LeastOf(accrued, Minus(held, taken))
      /\ WithdrawableAmount(l) = LeastOf(accrued, held)
  BY DEF CalculateTransferAmounts, Demand, BalanceFor, WithdrawableAmount,
         CalculateWithdrawableForLease
<1> HIDE DEF accrued, held, taken
<1>5. \A d \in Denoms : LeastOf(accrued, Minus(held, taken))[d] <= LeastOf(accrued, held)[d]
  BY <1>3 DEF LeastOf, Least, Minus, Monus, AllCoins
<1>6. ASSUME \A m \in 1 .. leaseSeq \ {l} : leases'[m] = leases[m]
      PROVE  Minus(held, taken) = held
  <2> DEFINE B == Before(order, l)
             D == [m \in B |-> Demand(leases[m])]
  <2>1. ASSUME NEW m \in B PROVE D[m] = NoCoins
    <3>1. m \in DOMAIN order /\ m # l /\ m \in 1 .. leaseSeq
      <4>1. order[l] \in Nat
        BY DEF SettlesBatch, IsBatch, Positions
      <4>2. QED
        BY <1>1, <4>1 DEF Before
    <3>2. QED
      BY <1>1, <1>6, <3>1, LeftAloneOwesNothing
  <2>2. IsFiniteSet(B) /\ NoCoins \in AllCoins /\ {} \in SUBSET B
    BY <1>1, <1>2, LeaseSetsFinite DEF NoCoins, AllCoins
  <2>3. taken = SumCoins(B, D)
    BY DEF taken, Demands
  <2> HIDE DEF B, D
  <2>4. SumCoins(B, D) = SumCoins({}, D)
    BY <2>1, <2>2, SumCoinsSupport
  <2>5. taken = NoCoins
    BY <2>3, <2>4, SumCoinsEmpty
  <2>6. QED
    BY <1>3, <2>5 DEF Minus, Monus, NoCoins, AllCoins
<1>7. QED
  BY <1>4, <1>5, <1>6

(***************************************************************************)
(* For any batch of any size: what WithdrawableAmount answers is an upper  *)
(* bound of what the next settlement of the lease pays, and is what it     *)
(* pays if no other lease changes with it.                                 *)
(***************************************************************************)
THEOREM WithdrawableAlwaysPaid == Spec => WithdrawableIsPaid
<1> DEFINE Answered ==
      \A l \in 1 .. leaseSeq :
        ~AccrualOverflows(leases[l]) =>
          /\ \A d \in Denoms : paid'[l][d] <= paid[l][d] + WithdrawableAmount(l)[d]
          /\ leases[l].state = "ACTIVE" /\ leases'[l] # leases[l]
                 /\ (\A m \in 1 .. leaseSeq \ {l} : leases'[m] = leases[m])
               => paid'[l] = Plus(paid[l], WithdrawableAmount(l))
<1>1. ASSUME MeterInv, [Next]_vars PROVE Answered
  <2> SUFFICES ASSUME NEW l \in 1 .. leaseSeq, ~AccrualOverflows(leases[l])
               PROVE  /\ \A d \in Denoms : paid'[l][d] <= paid[l][d] + WithdrawableAmount(l)[d]
                      /\ leases[l].state = "ACTIVE" /\ leases'[l] # leases[l]
                             /\ (\A m \in 1 .. leaseSeq \ {l} : leases'[m] = leases[m])
                           => paid'[l] = Plus(paid[l], WithdrawableAmount(l))
    OBVIOUS
  <2>1. /\ TypeOK /\ leases[l].tenant \in Tenants
        /\ paid[l] \in AllCoins /\ credit[leases[l].tenant] \in AllCoins
    BY ZenonT(30), <1>1 DEF MeterInv, TypeOK, Lease
  <2>2. WithdrawableAmount(l) \in AllCoins
    BY <2>1, LeaseAmounts, CoinOps DEF WithdrawableAmount, CalculateWithdrawableForLease
  <2>3. CASE paid'[l] = paid[l] /\ (leases[l].state = "ACTIVE" => leases'[l] = leases[l])
    <3>1. \A d \in Denoms : paid'[l][d] <= paid[l][d] + WithdrawableAmount(l)[d]
      BY <2>1, <2>2, <2>3 DEF AllCoins
    <3>2. QED
      BY ZenonT(30), <2>3, <3>1
  <2>4. CASE \E order : SettlesBatch(order)
    <3>1. PICK order : SettlesBatch(order)
      BY <2>4
    <3>2. CASE l \notin DOMAIN order
      <4>1. paid'[l] = paid[l] /\ leases'[l] = leases[l]
        BY <3>1, <3>2 DEF SettlesBatch, PerformSettlement
      <4>2. QED
        BY ZenonT(30), <2>3, <4>1
    <3>3. CASE l \in DOMAIN order
      <4> DEFINE x == CalculateTransferAmounts(order, l)
      <4>1. paid'[l] = Plus(paid[l], x)
        BY <3>1, <3>3 DEF SettlesBatch, PerformSettlement
      <4>2. x \in AllCoins
        BY <2>1, <3>1, <3>3, TransferType DEF SettlesBatch, IsBatch
      <4>3. /\ \A d \in Denoms : x[d] <= WithdrawableAmount(l)[d]
            /\ (\A m \in 1 .. leaseSeq \ {l} : leases'[m] = leases[m]) =>
                 x = WithdrawableAmount(l)
        BY <1>1, <3>1, <3>3, LeaseSteps, TransferAnswered
      <4> HIDE DEF x
      <4>4. \A d \in Denoms : paid'[l][d] <= paid[l][d] + WithdrawableAmount(l)[d]
        BY <2>1, <2>2, <4>1, <4>2, <4>3 DEF Plus, AllCoins
      <4>5. QED
        BY <4>1, <4>3, <4>4
    <3>4. QED
      BY ZenonT(30), <3>2, <3>3
  <2>5. QED
    BY <1>1, <2>3, <2>4, SettlesOrLeaves DEF ActiveLeft
<1>2. MeterInv /\ [Next]_vars => [Answered]_vars
  BY <1>1
<1>3. QED
  BY <1>2, InitMeterInv, NextMeterInv, PTL DEF Spec, WithdrawableIsPaid

(* Whole quotients. *)
LEMMA QuotientBounds ==
  ASSUME NEW a \in Nat, NEW b \in Nat, b > 0
  PROVE  /\ a \div b \in Nat
         /\ b * (a \div b) <= a
         /\ a < b * ((a \div b) + 1)
OBVIOUS

(* Multiplication keeps the order. *)
LEMMA TimesMonotone ==
  ASSUME NEW a \in Nat, NEW b \in Nat, NEW c \in Nat, a <= b
  PROVE  c * a <= c * b
<1>1. PICK k \in Nat : b = a + k
  <2>1. b - a \in Nat /\ b = a + (b - a)
    OBVIOUS
  <2>2. QED
    BY <2>1
<1>2. c * b = c * a + c * k /\ c * k \in Nat /\ c * a \in Nat
  BY <1>1
<1>3. QED
  BY <1>2

(***************************************************************************)
(* What Lasting computes: with less time than that there is a second's     *)
(* worth of credit left in every denomination that is charged; with more,  *)
(* one of them does not suffice.                                           *)
(***************************************************************************)
LEMMA LastingBounds ==
  ASSUME NEW c \in AllCoins, NEW rates \in AllCoins, NEW n \in Nat
  PROVE  /\ n < Lasting(c, rates) =>
              \A d \in Denoms : rates[d] > 0 => rates[d] * (n + 1) <= c[d]
         /\ n > Lasting(c, rates) /\ (\E d \in Denoms : rates[d] > 0) =>
              \E d \in Denoms : rates[d] > 0 /\ rates[d] * n > c[d]
<1> DEFINE S == {c[d] \div rates[d] : d \in {x \in Denoms : rates[x] > 0}}
           m == Lasting(c, rates)
<1>1. \A d \in Denoms : c[d] \in Nat /\ rates[d] \in Nat
  BY DEF AllCoins
<1>2. ASSUME NEW d \in Denoms, rates[d] > 0
      PROVE  /\ c[d] \div rates[d] \in Nat /\ c[d] \div rates[d] \in S
             /\ rates[d] * (c[d] \div rates[d]) <= c[d]
             /\ c[d] < rates[d] * ((c[d] \div rates[d]) + 1)
  BY <1>1, <1>2, QuotientBounds
<1>3. S \in SUBSET Nat
  BY <1>2
<1>4. CASE S = {}
  <2>1. m = 0 /\ \A d \in Denoms : ~(rates[d] > 0)
    BY <1>4 DEF Lasting
  <2>2. QED
    BY <2>1
<1>5. CASE S # {}
  <2>1. m = CHOOSE x \in S : \A y \in S : x <= y
    BY ZenonT(30), <1>5 DEF Lasting
  <2>2. \E x \in S : \A y \in S : x <= y
    <3> HIDE DEF S
    <3>1. QED
      BY <1>3, <1>5, LeastExists
  <2>3. m \in S /\ m \in Nat /\ \A y \in S : m <= y
    <3> HIDE DEF S, m
    <3>1. QED
      BY ZenonT(30), <1>3, <2>1, <2>2
  <2>4. ASSUME n < m, NEW d \in Denoms, rates[d] > 0
        PROVE  rates[d] * (n + 1) <= c[d]
    <3> DEFINE q == c[d] \div rates[d]
    <3>1. q \in Nat /\ q \in S /\ rates[d] * q <= c[d] /\ rates[d] \in Nat /\ c[d] \in Nat
      BY <1>1, <1>2, <2>4
    <3> HIDE DEF q, S, m
    <3>2. n + 1 <= q /\ n + 1 \in Nat
      BY <2>3, <2>4, <3>1
    <3>3. rates[d] * (n + 1) <= rates[d] * q
      BY <3>1, <3>2, TimesMonotone
    <3>4. rates[d] * (n + 1) \in Nat /\ rates[d] * q \in Nat
      BY <3>1, <3>2
    <3>5. QED
      BY <3>1, <3>3, <3>4
  <2>5. ASSUME n > m PROVE \E d \in Denoms : rates[d] > 0 /\ rates[d] * n > c[d]
    <3>1. PICK d \in Denoms : rates[d] > 0 /\ m = c[d] \div rates[d]
      BY <2>3
    <3>2. c[d] < rates[d] * (m + 1) /\ rates[d] \in Nat /\ c[d] \in Nat
      BY <1>1, <1>2, <3>1
    <3> HIDE DEF S, m
    <3>3. m + 1 <= n /\ m + 1 \in Nat
      BY <2>3, <2>5
    <3>4. rates[d] * (m + 1) <= rates[d] * n
      BY <3>2, <3>3, TimesMonotone
    <3>5. rates[d] * (m + 1) \in Nat /\ rates[d] * n \in Nat
      BY <3>2, <3>3
    <3>6. rates[d] * n > c[d]
      BY <3>2, <3>4, <3>5
    <3>7. QED
      BY <3>1, <3>6
  <2>6. QED
    BY <2>4, <2>5
<1>6. QED
  BY <1>4, <1>5

-----------------------------------------------------------------------------
(* Estimates *)

(* All active leases of t were last settled when `first` was. *)
SettledTogether(t, first) ==
  /\ first \in InState(t, "ACTIVE")
  /\ \A l \in InState(t, "ACTIVE") : leases[l].lastSettledAt = leases[first].lastSettledAt
  /\ ~AccrualOverflows(leases[first])

RatesOf(t) ==
  SumCoins(InState(t, "ACTIVE"), [l \in InState(t, "ACTIVE") |-> leases[l].rates])

(* They ask for their rates, for one number of seconds. *)
LEMMA TogetherDemand ==
  ASSUME MeterInv, NEW t \in Tenants, NEW first, SettledTogether(t, first),
         NEW l \in InState(t, "ACTIVE")
  PROVE  /\ Elapsed(leases[l]) = Elapsed(leases[first])
         /\ Seconds(Elapsed(leases[first])) \in Nat
         /\ ~AccrualOverflows(leases[l])
         /\ leases[l].rates \in AllCoins
         /\ CalculateTotalAccruedForLease(leases[l])
              = Scale(leases[l].rates, Seconds(Elapsed(leases[first])))
         /\ Demand(leases[l]) = Scale(leases[l].rates, Seconds(Elapsed(leases[first])))
<1>1. /\ l \in 1 .. leaseSeq /\ leases[l].state = "ACTIVE" /\ leases[l].rates \in AllCoins
      /\ first \in 1 .. leaseSeq /\ leases[first].state = "ACTIVE"
      /\ leases[l].lastSettledAt = leases[first].lastSettledAt
  BY ZenonT(30) DEF SettledTogether, InState, LeasesOf, MeterInv, TypeOK, Lease
<1>2. Elapsed(leases[l]) = Elapsed(leases[first])
  BY <1>1 DEF Elapsed, SettleTime
<1>3. Elapsed(leases[first]) \in Nat
  BY <1>1, LeaseAmounts DEF MeterInv
<1>4. QED
  BY <1>1, <1>2, <1>3, SecondsType
     DEF SettledTogether, AccrualOverflows, CalculateTotalAccruedForLease, Demand

(* What a batch asks for before it comes to l, and what l asks for, is     *)
(* within what all active leases of the tenant ask for.                    *)
LEMMA DemandsWithinRates ==
  ASSUME MeterInv, NEW t \in Tenants, NEW first, SettledTogether(t, first),
         NEW l \in InState(t, "ACTIVE"), NEW B \in SUBSET LeasesOf(t), l \notin B,
         NEW d \in Denoms
  PROVE  /\ RatesOf(t) \in AllCoins /\ Demands(B) \in AllCoins
         /\ leases[l].rates[d] <= RatesOf(t)[d]
         /\ Demands(B)[d] + leases[l].rates[d] * Seconds(Elapsed(leases[first]))
              <= RatesOf(t)[d] * Seconds(Elapsed(leases[first]))
<1> DEFINE A == InState(t, "ACTIVE")
           s == Seconds(Elapsed(leases[first]))
           F == [m \in A |-> leases[m].rates]
           H == [m \in A |-> Scale(leases[m].rates, s)]
           D == [m \in B |-> Demand(leases[m])]
           C == B \cap A
<1>1. /\ TypeOK /\ A \in SUBSET (1 .. leaseSeq) /\ B \in SUBSET (1 .. leaseSeq)
      /\ C \in SUBSET A /\ C \in SUBSET B /\ l \in A /\ l \notin C
      /\ \A m \in B \ C : leases[m].state # "ACTIVE"
  BY ZenonT(30) DEF MeterInv, InState, LeasesOf
<1>2. IsFiniteSet(A) /\ IsFiniteSet(B) /\ IsFiniteSet(C)
  BY <1>1, LeaseSetsFinite
<1>3. s \in Nat /\ \A m \in A : /\ Demand(leases[m]) = Scale(leases[m].rates, s)
                                /\ leases[m].rates \in AllCoins
  BY TogetherDemand
<1> HIDE DEF s
<1>4. \A m \in A : F[m] \in AllCoins /\ H[m] = Scale(F[m], s) /\ H[m] \in AllCoins
  BY ZenonT(30), <1>3, CoinOps
<1>5. \A m \in C : D[m] = H[m]
  BY ZenonT(30), <1>3
<1>6. \A m \in B : D[m] \in AllCoins
  BY <1>1, LeaseAmounts
<1>7. \A m \in B \ C : D[m] = NoCoins
  BY ZenonT(30), <1>1, InactiveOwesNothing
<1>8. /\ Demands(B) = SumCoins(B, D) /\ RatesOf(t) = SumCoins(A, F)
      /\ H[l] = Scale(leases[l].rates, s) /\ F[l] = leases[l].rates
  BY DEF Demands, RatesOf
<1> HIDE DEF A, F, H, D, C
<1>9. SumCoins(B, D) = SumCoins(C, D) /\ SumCoins(C, D) = SumCoins(C, H)
  BY <1>1, <1>2, <1>5, <1>6, <1>7, SumCoinsSupport, SumCoinsCong
<1>10. SumCoins(A, H)[d] = SumCoins(A, F)[d] * s
  BY <1>2, <1>3, <1>4, SumCoinsScale
<1>11. SumCoins(C \cup {l}, H) = Plus(SumCoins(C, H), H[l])
  <2>1. \A m \in C \cup {l} : H[m] \in AllCoins
    BY <1>1, <1>4
  <2>2. QED
    BY ZenonT(30), <1>1, <1>2, <2>1, SumCoinsAdd
<1>12. SumCoins(C \cup {l}, H)[d] <= SumCoins(A, H)[d]
  <2>1. C \cup {l} \in SUBSET A /\ \A m \in A : H[m] \in AllCoins
    BY <1>1, <1>4
  <2>2. QED
    BY ZenonT(30), <1>2, <2>1, SumCoinsRemove
<1>13. SumCoins({l}, F)[d] <= SumCoins(A, F)[d] /\ SumCoins({l}, F) = F[l]
  <2>1. {l} \in SUBSET A /\ (\A m \in A : F[m] \in AllCoins) /\ F[l] \in AllCoins
        /\ IsFiniteSet({l})
    BY ZenonT(30), <1>1, <1>4, FS_Singleton
  <2>2. SumCoins({l}, F)[d] <= SumCoins(A, F)[d]
    BY ZenonT(30), <1>2, <2>1, SumCoinsRemove
  <2>3. SumCoins({l}, F) = F[l]
    BY <2>1, SumCoinsOne
  <2>4. QED
    BY <2>2, <2>3
<1>14. SumCoins(A, F) \in AllCoins /\ SumCoins(B, D) \in AllCoins
  BY ZenonT(30), <1>2, <1>4, <1>6, SumCoinsType
<1>15. Plus(SumCoins(C, H), H[l])[d] = SumCoins(B, D)[d] + leases[l].rates[d] * s
  BY ZenonT(30), <1>8, <1>9 DEF Plus, Scale
<1>16. QED
  BY ZenonT(30), <1>8, <1>10, <1>11, <1>12, <1>13, <1>14, <1>15 DEF s

(***************************************************************************)
(* Before the estimated time has passed, no batch finds one of the leases  *)
(* exhausted.                                                              *)
(***************************************************************************)
LEMMA NotExhaustedEarly ==
  ASSUME MeterInv, NEW t \in Tenants, NEW first, SettledTogether(t, first),
         Seconds(Elapsed(leases[first])) < Lasting(credit[t], RatesOf(t)),
         NEW order, IsBatch(order), NEW l \in InState(t, "ACTIVE"), l \in DOMAIN order
  PROVE  ~ShouldAutoCloseLease(order, l)
<1> DEFINE s == Seconds(Elapsed(leases[first]))
           c == credit[t]
           R == RatesOf(t)
           r == leases[l].rates
           D == Demands(Before(order, l))
<1>1. /\ TypeOK /\ leases[l].tenant = t /\ c \in AllCoins /\ s \in Nat /\ r \in AllCoins
      /\ Elapsed(leases[l]) \in Nat
      /\ CalculateTotalAccruedForLease(leases[l]) = Scale(r, s)
      /\ ~AccrualOverflows(leases[l])
  BY ZenonT(30), TogetherDemand, LeaseAmounts DEF MeterInv, TypeOK, InState, LeasesOf
<1>2. Before(order, l) \in SUBSET LeasesOf(t) /\ l \notin Before(order, l)
  <2>1. order[l] \in Nat
    BY DEF IsBatch, Positions
  <2>2. QED
    BY <1>1, <2>1 DEF Before, LeasesOf, IsBatch
<1>3. ASSUME NEW d \in Denoms
      PROVE  /\ R \in AllCoins /\ D \in AllCoins /\ r[d] <= R[d]
             /\ D[d] + r[d] * s <= R[d] * s
  BY ZenonT(30), <1>2, DemandsWithinRates
<1>4. BalanceFor(order, l) = Minus(c, D)
  BY ZenonT(30), <1>1 DEF BalanceFor
<1>5. s < Lasting(c, R)
  OBVIOUS
<1> HIDE DEF s, c, R, r, D
<1>6. ASSUME NEW d \in Denoms, r[d] > 0
      PROVE  Minus(c, D)[d] > r[d] * s /\ Minus(c, D)[d] > 0
  <2>1. /\ c[d] \in Nat /\ r[d] \in Nat /\ R[d] \in Nat /\ D[d] \in Nat
        /\ r[d] * s \in Nat /\ R[d] * s \in Nat /\ R[d] > 0
    BY <1>1, <1>3, <1>6 DEF AllCoins
  <2>2. R[d] * (s + 1) <= c[d]
    BY ZenonT(30), <1>1, <1>3, <1>5, <2>1, LastingBounds
  <2>3. R[d] * (s + 1) = R[d] * s + R[d]
    <3>1. \A a, b \in Nat : a * (b + 1) = a * b + a
      OBVIOUS
    <3>2. QED
      BY ZenonT(30), <1>1, <2>1, <3>1
  <2>4. c[d] - D[d] > r[d] * s /\ c[d] > D[d]
    BY <1>3, <2>1, <2>2, <2>3
  <2>5. Minus(c, D)[d] = c[d] - D[d]
    BY ZenonT(30), <2>1, <2>4 DEF Minus, Monus
  <2>6. QED
    BY <2>1, <2>4, <2>5
<1>7. ASSUME NEW d \in Denoms, Scale(r, s)[d] > 0
      PROVE  ~(Scale(r, s)[d] >= Minus(c, D)[d])
  <2>1. Scale(r, s)[d] = r[d] * s /\ r[d] \in Nat
    BY ZenonT(30), <1>1 DEF Scale, AllCoins
  <2>2. r[d] > 0
    BY <1>1, <1>7, <2>1
  <2>3. Minus(c, D)[d] > r[d] * s /\ Minus(c, D)[d] \in Nat /\ r[d] * s \in Nat
    BY <1>1, <1>3, <1>6, <2>1, <2>2 DEF Minus, Monus, AllCoins
  <2>4. QED
    BY <2>1, <2>3
<1>8. CASE Elapsed(leases[l]) > 0
  BY ZenonT(30), <1>1, <1>4, <1>7, <1>8 DEF ShouldAutoCloseLease
<1>9. CASE ~(Elapsed(leases[l]) > 0)
  <2>1. \A d \in Denoms : ~(leases[l].rates[d] > 0 /\ BalanceFor(order, l)[d] = 0)
    BY <1>4, <1>6 DEF r
  <2>2. QED
    BY ZenonT(30), <1>9, <2>1 DEF ShouldAutoCloseLease
<1>10. QED
  BY ZenonT(30), <1>8, <1>9

(***************************************************************************)
(* A batch with all of them, after that time, finds one exhausted: the     *)
(* credit does not pay for all.                                            *)
(***************************************************************************)
LEMMA ExhaustedLate ==
  ASSUME MeterInv, NEW t \in Tenants, NEW first, SettledTogether(t, first),
         \E d \in Denoms : leases[first].rates[d] > 0,
         Seconds(Elapsed(leases[first])) > Lasting(credit[t], RatesOf(t)),
         NEW order, IsBatch(order), InState(t, "ACTIVE") \subseteq DOMAIN order
  PROVE  \E l \in InState(t, "ACTIVE") : ShouldAutoCloseLease(order, l)
<1> DEFINE A == InState(t, "ACTIVE")
           O == OfTenant(order, t)
           X == Transfers(order)
           s == Seconds(Elapsed(leases[first]))
           F == [m \in A |-> leases[m].rates]
           R == RatesOf(t)
<1> SUFFICES ASSUME \A l \in A : ~ShouldAutoCloseLease(order, l) PROVE FALSE
  OBVIOUS
<1>1. /\ TypeOK /\ A \in SUBSET (1 .. leaseSeq) /\ O \in SUBSET (1 .. leaseSeq)
      /\ A \in SUBSET O /\ credit[t] \in AllCoins /\ first \in A
      /\ DOMAIN order \subseteq 1 .. leaseSeq /\ O \subseteq DOMAIN order
      /\ \A l \in A : leases[l].state = "ACTIVE"
  BY ZenonT(30)
  DEF MeterInv, InState, LeasesOf, OfTenant, IsBatch, TypeOK, SettledTogether
<1>2. IsFiniteSet(A) /\ IsFiniteSet(O)
  BY ZenonT(30), <1>1, LeaseSetsFinite
<1>3. \A l \in O : X[l] = CalculateTransferAmounts(order, l) /\ X[l] \in AllCoins
  BY ZenonT(30), <1>1, TransferType DEF Transfers
<1>4. s \in Nat /\ \A l \in A : F[l] \in AllCoins /\ X[l] = Scale(F[l], s)
  <2>1. \A l \in A : CalculateTransferAmounts(order, l)
                       = CalculateTotalAccruedForLease(leases[l])
    BY ZenonT(30), <1>1, TransferOutcome
  <2>2. QED
    BY ZenonT(30), <1>1, <1>3, <2>1, TogetherDemand
<1>5. R = SumCoins(A, F) /\ F[first] = leases[first].rates /\ s > Lasting(credit[t], R)
  BY ZenonT(30), <1>1 DEF RatesOf
<1>6. SumCoins(O, X) \in AllCoins
      /\ \A d \in Denoms : SumCoins(O, X)[d] <= credit[t][d]
  <2>1. /\ SumCoins(O, X) \in AllCoins /\ Minus(credit[t], Demands(O)) \in AllCoins
        /\ credit[t] = Plus(Minus(credit[t], Demands(O)), SumCoins(O, X))
    BY ZenonT(30), <1>1, TenantPays
  <2>2. \A c1, c2 \in AllCoins : \A d \in Denoms : c2[d] <= Plus(c1, c2)[d]
    BY DEF Plus, AllCoins
  <2>3. QED
    BY ZenonT(30), <2>1, <2>2
<1> HIDE DEF A, O, X, s, F, R
<1>7. SumCoins(A, F) \in AllCoins /\ SumCoins(A, X) \in AllCoins
  BY ZenonT(30), <1>1, <1>2, <1>3, <1>4, SumCoinsType
<1>8. PICK e \in Denoms : leases[first].rates[e] > 0
  BY ZenonT(30)
<1>9. R[e] > 0
  <2>1. {first} \in SUBSET A /\ IsFiniteSet({first}) /\ first \in {first}
        /\ F[first] \in AllCoins
    BY ZenonT(30), <1>1, <1>4, FS_Singleton
  <2>2. SumCoins({first}, F)[e] <= SumCoins(A, F)[e]
    BY ZenonT(30), <1>2, <1>4, <2>1, SumCoinsRemove
  <2>3. SumCoins({first}, F) = F[first]
    BY ZenonT(30), <2>1, SumCoinsOne
  <2>4. F[first][e] \in Nat /\ SumCoins(A, F)[e] \in Nat
    BY ZenonT(30), <1>7, <2>1 DEF AllCoins
  <2>5. QED
    BY <1>5, <1>8, <2>2, <2>3, <2>4
<1>10. PICK d \in Denoms : R[d] > 0 /\ R[d] * s > credit[t][d]
  <2>1. R \in AllCoins
    BY ZenonT(30), <1>5, <1>7
  <2>2. QED
    BY ZenonT(30), <1>1, <1>4, <1>5, <1>9, <2>1, LastingBounds
<1>11. SumCoins(A, X)[d] = SumCoins(A, F)[d] * s
  BY <1>2, <1>4, SumCoinsScale
<1>12. SumCoins(A, X)[d] <= SumCoins(O, X)[d]
  BY ZenonT(30), <1>1, <1>2, <1>3, SumCoinsRemove
<1>13. /\ SumCoins(A, X)[d] \in Nat /\ SumCoins(O, X)[d] \in Nat /\ credit[t][d] \in Nat
       /\ SumCoins(O, X)[d] <= credit[t][d]
  BY ZenonT(30), <1>1, <1>6, <1>7 DEF AllCoins
<1>14. SumCoins(A, X)[d] > credit[t][d]
  BY ZenonT(30), <1>5, <1>10, <1>11
<1>15. QED
  BY <1>12, <1>13, <1>14

(* Every lease is charged in some denomination. *)
PositiveRates == \A l \in 1 .. leaseSeq : \E d \in Denoms : leases[l].rates[d] > 0

EstimateInv == MeterInv /\ OnlyClosedExhausted /\ PositiveRates

(* The rates of the items of a lease are positive because prices are. *)
LEMMA RatesPositive ==
  ASSUME TypeOK, NEW n \in Nat, n > 0, NEW items \in [1 .. n -> Item]
  PROVE  \E d \in Denoms : TotalRatesPerSecond(items)[d] > 0
<1> DEFINE k == skus[items[1].sku]
           d == k.denom
           f == [i \in 1 .. n |-> ItemRate(items[i], d)]
<1>1. 1 \in 1 .. n /\ {1} \in SUBSET (1 .. n)
  OBVIOUS
<1>2. ASSUME NEW i \in 1 .. n
      PROVE  /\ items[i].sku \in 1 .. skuSeq
             /\ items[i].quantity \in Nat /\ items[i].quantity > 0
             /\ skus[items[i].sku] \in SKU(providerSeq)
             /\ RatePerSecond(skus[items[i].sku]) \in Nat
             /\ RatePerSecond(skus[items[i].sku]) > 0
  <2>1. /\ items[i].sku \in 1 .. skuSeq
        /\ items[i].quantity \in Nat /\ items[i].quantity > 0
    <3>1. items[i] \in Item
      OBVIOUS
    <3>2. items[i].sku \in 1 .. skuSeq /\ items[i].quantity \in Nat \ {0}
      BY ZenonT(30), <3>1, BillingAssumption DEF Item
    <3>3. QED
      BY <3>2
  <2>2. /\ skus[items[i].sku] \in SKU(providerSeq)
        /\ ValidatePriceAndUnit(skus[items[i].sku].amount, skus[items[i].sku].unit)
    BY <2>1 DEF TypeOK, SkuTypeOK
  <2>3. skus[items[i].sku].amount \in Nat
    BY <2>2 DEF SKU
  <2>4. RatePerSecond(skus[items[i].sku]) \in Nat
    BY <2>3 DEF RatePerSecond, CalculatePricePerSecond, divisorForUnit
  <2>5. RatePerSecond(skus[items[i].sku]) # 0
    BY ZenonT(30), <2>2 DEF RatePerSecond, CalculatePricePerSecond, ValidatePriceAndUnit
  <2>6. QED
    BY <2>1, <2>2, <2>4, <2>5
<1>3. d \in Denoms
  BY <1>1, <1>2 DEF SKU
<1>4. \A i \in 1 .. n : f[i] \in Nat
  BY <1>2 DEF ItemRate
<1>5. f[1] > 0
  <2>1. f[1] = RatePerSecond(k) * items[1].quantity
    BY <1>1 DEF ItemRate
  <2>2. \A a, b \in Nat : a > 0 /\ b > 0 => a * b > 0
    OBVIOUS
  <2>3. QED
    BY <1>1, <1>2, <2>1, <2>2
<1>6. TotalRatesPerSecond(items)[d] = SumOver(1 .. n, f)
  BY <1>3 DEF TotalRatesPerSecond
<1>7. IsFiniteSet(1 .. n)
  BY FS_Interval
<1> HIDE DEF f
<1>8. SumOver({1}, f) <= SumOver(1 .. n, f) /\ SumOver({1}, f) = f[1]
  BY ZenonT(30), <1>1, <1>4, <1>7, SumRemove, SumSingle
<1>9. SumOver(1 .. n, f) \in Nat /\ f[1] \in Nat
  BY <1>1, <1>4, <1>7, SumType
<1>10. QED
  BY <1>3, <1>5, <1>6, <1>8, <1>9

(* The invariant of the estimates is kept. *)
LEMMA NextEstimateInv == EstimateInv /\ [Next]_vars => EstimateInv'
<1> SUFFICES ASSUME EstimateInv, [Next]_vars PROVE EstimateInv'
  OBVIOUS
<1>1. MeterInv /\ MeterInv' /\ TypeOK
  BY NextMeterInv DEF EstimateInv, MeterInv
<1>2. \A l \in 1 .. leaseSeq : LeaseStep(l) /\ leases[l] \in Lease
  BY <1>1, LeaseSteps DEF TypeOK
<1>3. ASSUME NEW l \in 1 .. leaseSeq
      PROVE  /\ leases'[l].exhausted => leases'[l].state = "CLOSED"
             /\ leases'[l].rates = leases[l].rates
  <2>1. leases'[l].exhausted => leases'[l].state = "CLOSED"
    BY <1>1, <1>2, ExhaustionKept DEF EstimateInv, OnlyClosedExhausted
  <2>2. leases'[l].rates = leases[l].rates
    <3>1. leases[l] \in Lease /\ LeaseStep(l)
      BY <1>2
    <3>2. CASE Untouched(l) \/ Acknowledged(l) \/ Metered(l)
      BY ZenonT(30), <3>1, <3>2 DEF Untouched, Acknowledged, Metered, Lease
    <3>3. ASSUME NEW state, Dropped(l, state) PROVE leases'[l].rates = leases[l].rates
      BY <3>1, <3>3 DEF Dropped, Lease
    <3>4. ASSUME NEW exhausted, Ended(l, exhausted) PROVE leases'[l].rates = leases[l].rates
      BY <3>1, <3>4 DEF Ended, Closed, Lease
    <3>5. QED
      BY <3>1, <3>2, <3>3, <3>4 DEF LeaseStep
  <2>3. QED
    BY <2>1, <2>2
<1>4. CASE leaseSeq' = leaseSeq
  BY <1>1, <1>3, <1>4 DEF EstimateInv, OnlyClosedExhausted, PositiveRates
<1>5. CASE leaseSeq' # leaseSeq
  <2>1. CreationNext
    <3>1. BillingNext
      BY <1>5 DEF Next, vars, billingVars
    <3>2. ~SettlementNext
      BY ZenonT(30), <1>1, <1>5, SettlementsAreBatches DEF SettlesBatch
    <3>3. ~PendingNext
      BY <1>1, <1>5, PendingIsAnswerStep DEF AnswerStep
    <3>4. QED
      BY ZenonT(30), <1>5, <3>1, <3>2, <3>3
         DEF BillingNext, CreditNext, FundCredit, BankSend, UpdateParams, NextBlock
  <2>2. PICK t \in Tenants, p \in 1 .. providerSeq, n \in 1 .. params.maxItems :
          \E items \in [1 .. n -> Item] : createLeaseInternal(t, p, items)
    BY <2>1 DEF CreationNext, CreateLease, CreateLeaseForTenant
  <2>3. PICK items \in [1 .. n -> Item] : createLeaseInternal(t, p, items)
    BY <2>2
  <2>4. PICK y : y = leaseSeq + 1
    OBVIOUS
  <2>5. /\ leaseSeq' = y /\ leaseSeq \in Nat
        /\ leases' = Extend(leases, y, NewLease(t, p, TotalRatesPerSecond(items)))
    BY ZenonT(30), <1>1, <2>3, <2>4 DEF createLeaseInternal, TypeOK
  <2>6. leases'[y].rates = TotalRatesPerSecond(items) /\ leases'[y].exhausted = FALSE
    BY <2>4, <2>5 DEF Extend, NewLease
  <2>7. \E d \in Denoms : leases'[y].rates[d] > 0
    BY <1>1, <2>2, <2>3, <2>6, RatesPositive
  <2>8. 1 .. leaseSeq' = (1 .. leaseSeq) \cup {y}
    BY <2>4, <2>5
  <2>9. OnlyClosedExhausted' /\ PositiveRates'
    BY ZenonT(30), <1>3, <2>6, <2>7, <2>8
    DEF EstimateInv, OnlyClosedExhausted, PositiveRates
  <2>10. QED
    BY <1>1, <2>9 DEF EstimateInv
<1>6. QED
  BY <1>4, <1>5

(***************************************************************************)
(* For any number of leases: while the active leases of a tenant were last *)
(* settled together, CreditEstimate is a bound on both sides.  No batch    *)
(* that settles earlier exhausts one of them, and a batch that closes them *)
(* all later exhausts at least one.                                        *)
(***************************************************************************)
THEOREM EstimateAlwaysHolds == Spec => EstimateHolds
<1> DEFINE Holds(t) ==
      LET A == InState(t, "ACTIVE")
      IN  \A first \in A :
            /\ A = EstimatedLeases(t)
            /\ \A l \in A : leases[l].lastSettledAt = leases[first].lastSettledAt
            /\ ~AccrualOverflows(leases[first])
            => LET elapsed == Seconds(Elapsed(leases[first]))
               IN  /\ elapsed < CreditEstimate(t) =>
                        \A l \in A : ~leases'[l].exhausted
                   /\ /\ elapsed > CreditEstimate(t)
                      /\ \A l \in A : leases'[l].state = "CLOSED"
                      => \E l \in A : leases'[l].exhausted
<1>1. ASSUME EstimateInv, [Next]_vars, NEW t \in Tenants PROVE Holds(t)
  <2> DEFINE A == InState(t, "ACTIVE")
  <2> SUFFICES ASSUME NEW first \in A, A = EstimatedLeases(t), SettledTogether(t, first)
               PROVE  /\ Seconds(Elapsed(leases[first])) < CreditEstimate(t) =>
                           \A l \in A : ~leases'[l].exhausted
                      /\ /\ Seconds(Elapsed(leases[first])) > CreditEstimate(t)
                         /\ \A l \in A : leases'[l].state = "CLOSED"
                         => \E l \in A : leases'[l].exhausted
    BY ZenonT(30) DEF SettledTogether
  <2>1. CreditEstimate(t) = Lasting(credit[t], RatesOf(t))
    BY DEF CreditEstimate, RatesOf
  <2>2. /\ MeterInv
        /\ \A l \in A : /\ l \in 1 .. leaseSeq /\ leases[l].state = "ACTIVE"
                        /\ leases[l] \in Lease /\ ~leases[l].exhausted
                        /\ \E d \in Denoms : leases[l].rates[d] > 0
    BY <1>1 DEF EstimateInv, MeterInv, TypeOK, InState, LeasesOf, OnlyClosedExhausted,
                PositiveRates
  <2> HIDE DEF A
  <2>3. CASE ActiveLeft
    BY <2>2, <2>3 DEF ActiveLeft
  <2>4. CASE \E order : SettlesBatch(order)
    <3>1. PICK order : SettlesBatch(order)
      BY <2>4
    <3>2. IsBatch(order)
      BY <3>1 DEF SettlesBatch
    <3>3. ASSUME Seconds(Elapsed(leases[first])) < CreditEstimate(t), NEW l \in A
          PROVE  ~leases'[l].exhausted
      <4>1. CASE l \notin DOMAIN order
        BY <2>2, <3>1, <4>1 DEF SettlesBatch
      <4>2. CASE l \in DOMAIN order
        <5>1. ~ShouldAutoCloseLease(order, l)
          BY ZenonT(30), <2>1, <2>2, <3>2, <3>3, <4>2, NotExhaustedEarly DEF A
        <5>2. leases'[l] \in {leases[l], Closed(leases[l], FALSE),
                [leases[l] EXCEPT !.lastSettledAt = SettleTime(leases[l])]}
          BY ZenonT(30), <3>1, <4>2, <5>1 DEF SettlesBatch
        <5>3. QED
          BY ZenonT(30), <2>2, <5>2 DEF Closed, Lease
      <4>3. QED
        BY <4>1, <4>2
    <3>4. ASSUME Seconds(Elapsed(leases[first])) > CreditEstimate(t),
                 \A l \in A : leases'[l].state = "CLOSED"
          PROVE  \E l \in A : leases'[l].exhausted
      <4>1. A \subseteq DOMAIN order
        BY <2>2, <3>1, <3>4 DEF SettlesBatch
      <4>2. PICK l \in A : ShouldAutoCloseLease(order, l)
        BY ZenonT(30), <2>1, <2>2, <3>2, <3>4, <4>1, ExhaustedLate DEF A
      <4>3. leases'[l] = Closed(leases[l], TRUE)
        BY ZenonT(30), <3>1, <4>1, <4>2 DEF SettlesBatch
      <4>4. QED
        BY ZenonT(30), <2>2, <4>3 DEF Closed, Lease
    <3>5. QED
      BY <3>3, <3>4
  <2>5. QED
    BY ZenonT(30), <1>1, <2>2, <2>3, <2>4, SettlesOrLeaves
<1>2. EstimateInv /\ [Next]_vars => [\A t \in Tenants : Holds(t)]_vars
  BY ZenonT(30), <1>1
<1>3. Init => EstimateInv
  BY InitMeterInv DEF EstimateInv, Init, BillingInit, OnlyClosedExhausted, PositiveRates
<1>4. QED
  BY <1>2, <1>3, NextEstimateInv, PTL DEF Spec, EstimateHolds
=============================================================================
