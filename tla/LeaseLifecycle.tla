--------------------------- MODULE LeaseLifecycle ---------------------------
(***************************************************************************)
(* What x/billing promises about leases, whatever it does with credit      *)
(* accounts, reservations and batches to keep the promise.                 *)
(*                                                                         *)
(* A lease is an entry of a book.  Its terms are written once.  It leaves  *)
(* PENDING by an answer or by expiring, is metered only while ACTIVE, from *)
(* its acknowledgement to the clock and for whole seconds only, and is     *)
(* never touched again once it has ended.  Metering charges exactly what   *)
(* accrued; only a lease that ends may be charged less, and then the       *)
(* credit is exhausted.                                                    *)
(***************************************************************************)
EXTENDS Coins

CONSTANTS
  Period,   \* ticks that are charged for as one unit of time
  Longest   \* periods after which a meter runs over

VARIABLES
  clock,
  size,     \* number of entries in the book
  book      \* book[l] is [terms, rates, state, metered, ended, charged, exhausted]

Accrued(e) == Scale(e.rates, (clock - e.metered) \div Period)

RunsOver(e) == (clock - e.metered) \div Period > Longest

(* The entry e becomes the entry f. *)
Answered(e, f) ==
  /\ e.state = "PENDING"
  /\ \/ f = [e EXCEPT !.state = "ACTIVE", !.metered = clock]
     \/ f = [e EXCEPT !.state = "REJECTED", !.ended = clock]

Expired(e, f) ==
  e.state = "PENDING" /\ f = [e EXCEPT !.state = "EXPIRED", !.ended = clock]

Metered(e, f) ==
  /\ e.state = "ACTIVE"
  /\ f = [e EXCEPT !.metered = clock, !.charged = Plus(@, Accrued(e))]

Ended(e, f) ==
  /\ e.state = "ACTIVE"
  /\ f = [e EXCEPT !.state = "CLOSED", !.metered = clock, !.ended = clock,
                   !.charged = f.charged, !.exhausted = f.exhausted]
  /\ ~f.exhausted => f.charged = Plus(e.charged, Accrued(e))
  /\ \A d \in Denoms :
       /\ e.charged[d] <= f.charged[d]
       /\ ~RunsOver(e) => f.charged[d] <= e.charged[d] + Accrued(e)[d]

-----------------------------------------------------------------------------
BookInit == size = 0

Open ==
  /\ size' = size + 1
  /\ \A l \in 1 .. size : book'[l] = book[l]
  /\ LET f == book'[size + 1]
     IN  /\ f.state = "PENDING" /\ f.metered = clock
         /\ f.charged = NoCoins /\ ~f.exhausted
  /\ clock' = clock

Answer ==
  /\ size' = size
  /\ \A l \in 1 .. size : book'[l] = book[l] \/ Answered(book[l], book'[l])
  /\ clock' = clock

Settle ==
  /\ size' = size
  /\ \A l \in 1 .. size : \/ book'[l] = book[l]
                          \/ Metered(book[l], book'[l])
                          \/ Ended(book[l], book'[l])
  /\ clock' = clock

Tick ==
  /\ size' = size
  /\ \A l \in 1 .. size : book'[l] = book[l] \/ Expired(book[l], book'[l])
  /\ clock <= clock'

BookNext == Open \/ Answer \/ Settle \/ Tick

BookSpec == BookInit /\ [][BookNext]_<<clock, size, book>>
=============================================================================
