------------------------------ MODULE Listing ------------------------------
(***************************************************************************)
(* Paginated listings of leases.  A client asks for page after page, each  *)
(* time with the key the last page came with, while the ledger goes on.    *)
(*                                                                         *)
(* Leases in a state, of all, of a tenant or of a provider, are listed     *)
(* from an index by state, which a lease leaves when its state changes.    *)
(* Leases of a SKU are listed from an index that leases never leave; the   *)
(* state is checked on the records.  Indexes are in the order of creation. *)
(***************************************************************************)
EXTENDS Chain

CONSTANT ListingQueries   \* the listings a client may read: which leases
                          \* (by, of, state) and how (limit, offset, reverse)

VARIABLES
  query,     \* the listing being read, None if there is none
  nextKey,   \* the key the last page came with, 0 for none
  pages,     \* the pages so far, each the set of its leases
  steady,    \* history: leases that were to be listed ever since the first page
  lost       \* history: a page was asked for with a key no longer in the index

ASSUME ListingAssumption ==
  \A q \in ListingQueries :
    q.by \in {"all", "tenant", "provider", "sku"} /\ q.limit \in Nat /\ q.offset \in Nat

listingVars == <<query, nextKey, pages, steady, lost>>

None == [by |-> "none"]

InFilter(q, l) == q.state = "ANY" \/ leases[l].state = q.state

(* The entries a query iterates over.  In the instances one SKU is in every *)
(* lease, and the index of that SKU has them all.                           *)
Indexed(q) ==
  {l \in 1 .. leaseSeq :
     /\ q.by = "tenant" => leases[l].tenant = q.of
     /\ q.by = "provider" => leases[l].provider = q.of
     /\ q.by # "sku" => InFilter(q, l)}

-----------------------------------------------------------------------------
Precedes(q, l, m) == IF q.reverse THEN l > m ELSE l < m

(* Entries are skipped until one equals the key. *)
FromKey(q, I, key) ==
  CASE key = 0   -> I
    [] key \in I -> {l \in I : ~Precedes(q, l, key)}
    [] OTHER     -> {}

(* Mutant: the next page begins one record late. *)
PageSkippingOne(q, C, skip) ==
  LET rank(l) == Cardinality({m \in C : Precedes(q, m, l)})
      rest    == {l \in C : rank(l) = skip + q.limit + 1}
  IN  [records |-> {l \in C : skip <= rank(l) /\ rank(l) < skip + q.limit},
       nextKey |-> IF rest = {} THEN 0 ELSE CHOOSE l \in rest : TRUE]

(* The first records after the offset, and the first one that is left out. *)
Page(q, C, skip) ==
  LET rank(l) == Cardinality({m \in C : Precedes(q, m, l)})
      rest    == {l \in C : rank(l) = skip + q.limit}
  IN  [records |-> {l \in C : skip <= rank(l) /\ rank(l) < skip + q.limit},
       nextKey |-> IF rest = {} THEN 0 ELSE CHOOSE l \in rest : TRUE]

PaginateStringIndex(q, key) ==
  Page(q, FromKey(q, Indexed(q), key), IF key = 0 THEN q.offset ELSE 0)

(* The same loop over the entries of a SKU, with a filter on the records. *)
paginateSKUIndex(q, key) ==
  Page(q, {l \in FromKey(q, Indexed(q), key) : InFilter(q, l)},
       IF key = 0 THEN q.offset ELSE 0)

Answer(q, key) ==
  IF q.by = "sku" THEN paginateSKUIndex(q, key) ELSE PaginateStringIndex(q, key)

-----------------------------------------------------------------------------
Listed(q) == {l \in Indexed(q) : InFilter(q, l)}

(* What the offset leaves of a listing. *)
AfterOffset(q) ==
  {l \in Listed(q) : Cardinality({m \in Listed(q) : Precedes(q, m, l)}) >= q.offset}

FirstPage(q) ==
  /\ query = None
  /\ query' = q
  /\ nextKey' = Answer(q, 0).nextKey
  /\ pages' = <<Answer(q, 0).records>>
  /\ steady' = AfterOffset(q)
  /\ lost' = FALSE
  /\ UNCHANGED vars

NextPage ==
  /\ query # None
  /\ nextKey # 0
  /\ nextKey' = Answer(query, nextKey).nextKey
  /\ pages' = Append(pages, Answer(query, nextKey).records)
  /\ lost' = (lost \/ nextKey \notin Indexed(query))
  /\ UNCHANGED <<vars, query, steady>>

LedgerStep ==
  /\ FixedCatalogueNext
  /\ UNCHANGED <<query, nextKey, pages, lost>>
  /\ steady' = IF query = None THEN steady ELSE steady \cap Listed(query)'

ListingInit ==
  /\ Init
  /\ query = None /\ nextKey = 0 /\ pages = <<>> /\ steady = {} /\ lost = FALSE

ListingNext == (\E q \in ListingQueries : FirstPage(q)) \/ NextPage \/ LedgerStep

ListingSpec == ListingInit /\ [][ListingNext]_<<vars, listingVars>>

-----------------------------------------------------------------------------
(* Does a lease leave the index of the query when it leaves the listing? *)
LeavesIndex(q) == q.by # "sku" /\ q.state # "ANY"

(***************************************************************************)
(* A listing read to its end contains every lease that was in it all the   *)
(* time, and no lease twice, whatever leases are created, answered, closed *)
(* or expired between two pages.  One exception: in an index by state, the *)
(* lease that the key names may have left, and then the next page is empty *)
(* and the last.  An index that leases never leave has no exception.       *)
(***************************************************************************)
ListingComplete ==
  /\ \A i, j \in DOMAIN pages : i # j => pages[i] \cap pages[j] = {}
  /\ query # None /\ nextKey = 0 /\ ~lost =>
       steady \subseteq UNION {pages[i] : i \in DOMAIN pages}
  /\ lost => LeavesIndex(query)
=============================================================================
