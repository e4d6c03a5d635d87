---------------------------- MODULE HangarStock ----------------------------
(***************************************************************************)
(* From the list of the corporation's assets to the numbers of the stock   *)
(* page: the walk down from the structure that gives each item its hangar  *)
(* and its container (aggregateHangarStock), the rows that are tracked     *)
(* (isTracked, and the merge by name in syncStructure), and the page that  *)
(* adds the rows of a sample up again.                                     *)
(*                                                                         *)
(* ESI lists the assets in pages; an item that moves while they are read   *)
(* is listed twice.  Every item counts 1.                                  *)
(***************************************************************************)
EXTENDS Naturals, Sequences, FiniteSets, FiniteSetsExt, SequencesExt

CONSTANTS
    Stuff,        \* item_ids, 1..n: what an item lies in has a lower one
    Sags,         \* divisions: the flags CorpSAG1 to 7
    NoSag,        \* none of them
    StuffType,    \* the type of each item
    StuffName,    \* its custom name, or NoName
    Singletons,   \* is_singleton
    Listed2,      \* items that may be listed twice, the second time in the open hangar
    RuleSets,     \* the StockDivisionRules a structure may have
    NoName

ASSUME HangarAssumption ==
    /\ Stuff \subseteq Nat \ {0} /\ IsFiniteSet(Stuff)
    /\ {NoSag, "content", "other"} \cap Sags = {}
    /\ Singletons \subseteq Stuff /\ Listed2 \subseteq Stuff
    /\ \A i \in Stuff \ Singletons : StuffName[i] = NoName

VARIABLES
    hsRows,       \* the assets, {} before they were fetched
    hsFrontier,   \* item, division and parent of what is looked at next
    hsStock,      \* hangar and container of the items of stockByKey
    hsVisited,
    hsRules,      \* the rules of the structure
    hsLog         \* the rows createMany writes

hsVars == <<hsRows, hsFrontier, hsStock, hsVisited, hsRules, hsLog>>

Structure == 0
NoBox == 0
\* Contents of a container (Unlocked, Locked), and all other flags: fitted, cargo, offices.
Flags == Sags \cup {"content", "other"}
AssetRows == [id : Stuff, loc : Stuff \cup {Structure}, flag : Flags]
Places == [sag : Sags, box : Stuff \cup {NoBox}]

HsTypeOK ==
    /\ hsRows \subseteq AssetRows
    /\ hsFrontier \subseteq [row : AssetRows, sag : Sags \cup {NoSag}, parent : Stuff \cup {NoBox}]
    /\ hsVisited \subseteq Stuff
    /\ DOMAIN hsStock \subseteq Stuff /\ \A i \in DOMAIN hsStock : hsStock[i] \in Places
    /\ hsRules \in RuleSets \cup {{}}
    /\ \A r \in hsLog : r.sag \in Sags /\ r.quantity \in 1..Cardinality(Stuff)

HsInit ==
    /\ hsRows = {} /\ hsFrontier = {} /\ hsVisited = {}
    /\ hsStock = <<>>
    /\ hsRules = {} /\ hsLog = {}
-----------------------------------------------------------------------------
(***************************************************************************)
(* aggregateHangarStock.                                                   *)
(***************************************************************************)
IsRoot(row) == row.flag \in Sags
Below(id) == {r \in hsRows : r.loc = id}

\* Every hangar the items can lie in.
Forests == {rows \in kSubset(Cardinality(Stuff), {r \in AssetRows : r.loc < r.id}) :
              \A i \in Stuff : \E r \in rows : r.id = i}
Again == {{}} \cup {{[id |-> i, loc |-> Structure, flag |-> s]} : i \in Listed2, s \in Sags}

HsFetch ==
    /\ hsRows = {}
    /\ \E forest \in Forests : \E again \in Again : hsRows' = forest \cup again
    /\ hsFrontier' = {[row |-> r, sag |-> IF IsRoot(r) THEN r.flag ELSE NoSag, parent |-> NoBox]
                        : r \in {q \in hsRows' : q.loc = Structure}}
    /\ UNCHANGED <<hsStock, hsVisited, hsRules, hsLog>>

\* Seeded bug: what is fitted to a ship is followed too.
FollowedAlways(sag, child) == TRUE

\* Below a hangar only contents are followed, not what is fitted to a ship; on the way to a
\* hangar everything is.
Followed(sag, child) == sag = NoSag \/ IsRoot(child) \/ child.flag = "content"

ContainerOf(e) == IF IsRoot(e.row) THEN NoBox ELSE e.parent

\* One turn of the loop: of two entries of an item the one that comes first counts.
HsLevel ==
    /\ hsFrontier # {}
    /\ \E entries \in SUBSET hsFrontier :
        LET ids == {e.row.id : e \in hsFrontier} \ hsVisited IN
        /\ Cardinality(entries) = Cardinality(ids) /\ {e.row.id : e \in entries} = ids
        /\ hsVisited' = hsVisited \cup ids
        /\ LET counted == {e \in entries : e.sag # NoSag} IN
           hsStock' = [i \in DOMAIN hsStock \cup {e.row.id : e \in counted} |->
                IF i \in DOMAIN hsStock THEN hsStock[i]
                ELSE LET e == CHOOSE f \in counted : f.row.id = i
                     IN [sag |-> e.sag, box |-> ContainerOf(e)]]
        /\ hsFrontier' = UNION {
                {[row |-> c, sag |-> IF IsRoot(c) THEN c.flag ELSE e.sag, parent |-> e.row.id]
                    : c \in {d \in Below(e.row.id) : Followed(e.sag, d)}} : e \in entries}
    /\ UNCHANGED <<hsRows, hsRules, hsLog>>
-----------------------------------------------------------------------------
(***************************************************************************)
(* syncStructure: a row per type, hangar, container and name.              *)
(***************************************************************************)
BoxName(p) == IF p.box = NoBox THEN NoName ELSE StuffName[p.box]

\* isTracked: a hangar unless it is switched off, a container only when it is switched on by
\* its name.  Rules of a whole hangar have no name, and no container is one of those.
Tracked(p, rules) ==
    IF p.box = NoBox
    THEN \A r \in rules : r.sag = p.sag /\ r.box = "" => r.tracked
    ELSE \E r \in rules : r.sag = p.sag /\ r.box = BoxName(p) /\ r.tracked

\* The key of an item in mergedByName: ships of one name are one row again.
KeyOf(i) == <<StuffType[i], hsStock[i].sag, hsStock[i].box, StuffName[i]>>

HsWrite(rules) ==
    /\ hsRows # {} /\ hsFrontier = {} /\ hsLog = {}
    /\ hsRules' = rules
    /\ LET kept == {i \in DOMAIN hsStock : Tracked(hsStock[i], rules)} IN
       /\ kept # {}              \* createMany is not called for nothing
       /\ hsLog' = {[type |-> StuffType[i], sag |-> hsStock[i].sag, box |-> hsStock[i].box,
                     name |-> StuffName[i],
                     quantity |-> Cardinality({j \in kept : KeyOf(j) = KeyOf(i)})] : i \in kept}
    /\ UNCHANGED <<hsRows, hsFrontier, hsStock, hsVisited>>
-----------------------------------------------------------------------------
HsNext ==
    \/ HsFetch \/ HsLevel
    \/ \E rules \in RuleSets : HsWrite(rules)
HsSpec == HsInit /\ [][HsNext]_hsVars
-----------------------------------------------------------------------------
(***************************************************************************)
(* The page: the rows of a sample that match the filter, added up per type *)
(* and name.  A row has the container's name, not its id.                  *)
(***************************************************************************)
Matches(r, sag, box) ==
    (sag = NoSag \/ r.sag = sag) /\ (box = "any" \/ (r.box # NoBox /\ StuffName[r.box] = box))
Stocked(type, name, sag, box) ==
    FoldSet(LAMBDA r, n : n + r.quantity, 0,
        {r \in hsLog : r.type = type /\ r.name = name /\ Matches(r, sag, box)})

(***************************************************************************)
(* Where an item lies, without the walk: a chain of rows from the          *)
(* structure to it gives it the hangar that is nearest to it in the chain, *)
(* and the item before it as its container unless it lies in the hangar    *)
(* itself; chains through something fitted to a ship in a hangar count for *)
(* nothing.                                                                *)
(***************************************************************************)
Chains == {s \in UNION {[1..n -> hsRows] : n \in 1..Cardinality(Stuff)} :
             /\ s[1].loc = Structure
             /\ \A k \in 1..Len(s) - 1 : s[k + 1].loc = s[k].id}
RootsOf(s) == {k \in DOMAIN s : IsRoot(s[k])}
Open(s) == RootsOf(s) # {} /\ \A k \in DOMAIN s : k > Min(RootsOf(s)) => s[k].flag # "other"
ChainsTo(i) == {s \in Chains : s[Len(s)].id = i}
PlacesOf(i) ==
    {[sag |-> s[Max(RootsOf(s))].flag,
      box |-> IF IsRoot(s[Len(s)]) THEN NoBox ELSE s[Len(s) - 1].id]
        : s \in {c \in ChainsTo(i) : Open(c)}}

(***************************************************************************)
(* Every item of a hangar is on the page once, under the hangar and the    *)
(* container it lies in, however deep, and nothing else is: the page of    *)
(* the structure, of a hangar and of a container show the number of the    *)
(* tracked items there (stockSyncScheduler.js:224, stock.js:52).           *)
(***************************************************************************)
HsPageExact ==
    hsLog # {} =>
        /\ \A i \in Stuff :
            IF i \in DOMAIN hsStock
            THEN hsStock[i] \in PlacesOf(i)
            ELSE \E s \in ChainsTo(i) : ~Open(s)
        /\ \A type \in {StuffType[i] : i \in Stuff} : \A name \in {StuffName[i] : i \in Stuff} :
           \A sag \in Sags \cup {NoSag} : \A box \in {"any"} \cup {StuffName[i] : i \in Singletons} :
            Stocked(type, name, sag, box) =
                Cardinality({i \in DOMAIN hsStock :
                    /\ StuffType[i] = type /\ StuffName[i] = name
                    /\ Tracked(hsStock[i], hsRules)
                    /\ Matches([sag |-> hsStock[i].sag, box |-> hsStock[i].box], sag, box)})
=============================================================================
