--------------------------- MODULE StationOrders ---------------------------
(***************************************************************************)
(* fetchStationOrders: the best sell and the best buy price of a type at a *)
(* station.  ESI lists the orders of the region in pages, in no order; the *)
(* loop reads both lists page by page and stops a list at its last page,   *)
(* at PageCap, or a few pages after the first order of the station.        *)
(*                                                                         *)
(* A list of pages is a sequence of sets: the station's prices on a page.  *)
(***************************************************************************)
EXTENDS Naturals, Sequences, SequencesExt, FiniteSetsExt

CONSTANTS
    PageCap,      \* PAGE_CAP
    ExtraPages,   \* EXTRA_PAGES_AFTER_HIT
    MaxPages,     \* bound on the pages of a list (x-pages)
    ShortPages,   \* bound on the pages of the shorter list
    Prices        \* bound on prices

ASSUME StationOrdersAssumption ==
    /\ PageCap \in Nat \ {0} /\ ExtraPages \in Nat /\ MaxPages \in Nat \ {0}
    /\ ShortPages \in Nat
    /\ Prices \subseteq Nat \ {0} /\ IsFiniteSet(Prices)

VARIABLES
    soSell, soBuy,    \* the lists of the region; no query has no pages
    soAt,             \* sellPage, buyPage
    soBest,           \* sellMin, buyMax; 0 is null
    soHit             \* sellHitPage, buyHitPage; 0 is null

soVars == <<soSell, soBuy, soAt, soBest, soHit>>

Sides == {"sell", "buy"}
NoPrice == 0
Books == UNION {[1..n -> SUBSET Prices] : n \in 1..MaxPages}
BookOf(side) == IF side = "sell" THEN soSell ELSE soBuy

SoTypeOK ==
    /\ soSell \in Books \cup {<<>>} /\ soBuy \in Books \cup {<<>>}
    /\ soAt \in [Sides -> 1..PageCap + 1]
    /\ soBest \in [Sides -> Prices \cup {NoPrice}]
    /\ soHit \in [Sides -> 0..PageCap]

SoInit ==
    /\ soSell = <<>> /\ soBuy = <<>>
    /\ soAt = [s \in Sides |-> 1]
    /\ soBest = [s \in Sides |-> NoPrice]
    /\ soHit = [s \in Sides |-> 0]
-----------------------------------------------------------------------------
SoQuery ==
    /\ soSell = <<>>
    /\ soSell' \in Books /\ soBuy' \in Books
    /\ Len(soSell') <= ShortPages \/ Len(soBuy') <= ShortPages
    /\ UNCHANGED <<soAt, soBest, soHit>>

\* Seeded bug: a page less after the first order.
ShouldFetchOneLess(side) ==
    /\ soAt[side] <= Len(BookOf(side))
    /\ soAt[side] <= PageCap
    /\ soHit[side] = 0 \/ soAt[side] < soHit[side] + ExtraPages

\* shouldFetchSell, shouldFetchBuy: sellDone follows from what they ask again.
ShouldFetch(side) ==
    /\ soAt[side] <= Len(BookOf(side))
    /\ soAt[side] <= PageCap
    /\ soHit[side] = 0 \/ soAt[side] <= soHit[side] + ExtraPages

Better(side, p, best) == best = NoPrice \/ (IF side = "sell" THEN p < best ELSE p > best)
BestOf(side, ps, best) == FoldSet(LAMBDA p, b : IF Better(side, p, b) THEN p ELSE b, best, ps)

\* One turn of the loop: a page of each list that goes on.
SoPage ==
    /\ soSell # <<>> /\ \E s \in Sides : ShouldFetch(s)
    /\ LET go == {s \in Sides : ShouldFetch(s)}
           page(s) == BookOf(s)[soAt[s]]
       IN /\ soBest' = [s \in Sides |->
                IF s \in go THEN BestOf(s, page(s), soBest[s]) ELSE soBest[s]]
          /\ soHit' = [s \in Sides |->
                IF s \in go /\ soHit[s] = 0 /\ page(s) # {} THEN soAt[s] ELSE soHit[s]]
          /\ soAt' = [s \in Sides |-> IF s \in go THEN soAt[s] + 1 ELSE soAt[s]]
    /\ UNCHANGED <<soSell, soBuy>>

SoEnded == soSell # <<>> /\ \A s \in Sides : ~ShouldFetch(s)
Capped == \E s \in Sides : soAt[s] > PageCap /\ soBest[s] = NoPrice

SoNext == SoQuery \/ SoPage
SoSpec == SoInit /\ [][SoNext]_soVars
-----------------------------------------------------------------------------
\* The pages the answer speaks of: up to ExtraPages after the first with an order.
Hits(book) == {i \in DOMAIN book : book[i] # {}}
Covered(book) ==
    {i \in DOMAIN book : i <= PageCap /\ \A h \in Hits(book) : i <= Min(Hits(book)) + ExtraPages}

(***************************************************************************)
(* The price is the best of the station on all the pages it speaks of,     *)
(* whatever the other list does, and no price without the mark "capped"    *)
(* means that the station has no order at all in that list                 *)
(* (esiMarketCache.js:281).                                                *)
(***************************************************************************)
SoBestPrice ==
    SoEnded => \A s \in Sides :
        LET seen == UNION {BookOf(s)[i] : i \in Covered(BookOf(s))} IN
        /\ soBest[s] = CASE seen = {} -> NoPrice
                         [] seen # {} /\ s = "sell" -> Min(seen)
                         [] OTHER -> Max(seen)
        /\ soBest[s] = NoPrice /\ ~Capped => Hits(BookOf(s)) = {}
=============================================================================
