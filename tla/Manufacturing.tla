---------------------------- MODULE Manufacturing ----------------------------
(***************************************************************************)
(* Bills of materials, work orders and production runs                     *)
(* (capability/manufacturing_bom.go and manufacturing_work_orders.go).     *)
(*                                                                         *)
(* A bill is replaced under a lock on its assembly only and checked for    *)
(* cycles against the bills committed so far.  A run reads the bills       *)
(* first, then locks the items it touches, checks stock and posts, so it   *)
(* may build from a bill that has just been replaced, but never from stock *)
(* that has just gone.  Quantities are in parts of a unit: Scale parts     *)
(* make one.  Cost is left to StockValuation, lots and notes are left out. *)
(***************************************************************************)
EXTENDS Integers, Sequences, FiniteSets, FiniteSetsExt, TLC

CONSTANTS
  Items, Assemblies, Start, Orders, Builders,
  Scrappy,               \* assemblies whose lines carry a scrap allowance
  Bills,                 \* component sets an assembly may be given
  Given,                 \* the lines there are at first: <<assembly, component>>
  Planned, Scale, PctScale, MaxDepth,
  MaxRuns, MaxBills, MaxSold,   \* bounds
  None

VARIABLES bom, defining, bills, order, build, runs, stock, sold, raced

vars == <<bom, defining, bills, order, build, runs, stock, sold, raced>>
billVars == <<bom, defining, bills, raced>>

NoLines == [c \in Items |-> 0]
Lines(cs) == [c \in Items |-> IF c \in cs THEN Scale ELSE 0]
Quantities == {Scale, Scale \div 2}

Init ==
  /\ bom = [a \in Assemblies |-> Lines({c \in Items : <<a, c>> \in Given})]
  /\ defining = [a \in Assemblies |-> None] /\ bills = 0 /\ raced = FALSE
  /\ order = [o \in Orders |-> [status |-> "none", item |-> None, produced |-> 0]]
  /\ build = [b \in Builders |-> None] /\ runs = <<>>
  /\ stock = [i \in Items |-> IF i \in Assemblies THEN 0 ELSE Start] /\ sold = [i \in Items |-> 0]

-----------------------------------------------------------------------------
(* What a bill asks for.                                                   *)

Children(b, i) == IF i \in Assemblies THEN {c \in Items : b[i][c] > 0} ELSE {}

RECURSIVE Refuses(_, _, _)
Refuses(b, i, path) ==
  \/ Cardinality(path) > MaxDepth
  \/ i \in path
  \/ \E c \in Children(b, i) : Refuses(b, c, path \cup {i})

JsRound(n, d) == (2 * n + d) \div (2 * d)
RECURSIVE ExplodeBom(_, _, _)
ExplodeBom(b, i, q) ==
  IF Children(b, i) = {} THEN [j \in Items |-> IF j = i THEN q ELSE 0]
  ELSE [j \in Items |->
         MapThenSumSet(LAMBDA c : ExplodeBom(b, c, JsRound(b[i][c] * q, Scale))[j], Children(b, i))]

(* The allowance of a component is the largest any bill of the             *)
(* organization gives it; it is half a line here.                          *)
ScrapPct(b, c) == IF \E a \in Scrappy : b[a][c] > 0 THEN PctScale \div 2 ELSE 0
ApplyScrap(q, pct) == (q * (PctScale + pct) + PctScale - 1) \div PctScale
ScrapAdjustedRequirements(b, i, q) ==
  [j \in Items |-> LET raw == ExplodeBom(b, i, q)[j] IN IF raw = 0 THEN 0 ELSE ApplyScrap(raw, ScrapPct(b, j))]
HasBom(b, i) == Children(b, i) # {}
CheckAvailability(need) == \A j \in Items : need[j] <= stock[j]

(* The feasibility answer looks at the assembly's own lines alone, and at  *)
(* no allowance.                                                           *)
OwnLines(b, a) == [x \in Assemblies |-> IF x = a THEN b[a] ELSE NoLines]
Feasible(a, q) == HasBom(bom, a) /\ CheckAvailability(ExplodeBom(OwnLines(bom, a), a, q))

-----------------------------------------------------------------------------
(* Bills.  Replacing one locks its assembly FOR UPDATE, and the foreign    *)
(* key of each new line locks the component FOR KEY SHARE.                 *)

Replaced(a, ls) == [bom EXCEPT ![a] = ls]
Shareable(i) == i \in Assemblies => defining[i] = None
Free(i) == Shareable(i) /\ \A a \in Assemblies : defining[a] # None => defining[a][i] = 0
DefineBom(a, ls) ==
  /\ Free(a) /\ bills < MaxBills /\ ls # bom[a] /\ ls # NoLines
  /\ \A c \in Items : ls[c] > 0 => c # a /\ Shareable(c)
  /\ ~Refuses(Replaced(a, ls), a, {})
  /\ defining' = [defining EXCEPT ![a] = ls] /\ bills' = bills + 1
  /\ raced' = (raced \/ \E x \in Assemblies : defining[x] # None)
  /\ UNCHANGED <<bom, order, build, runs, stock, sold>>
CommitBom(a) ==
  /\ defining[a] # None
  /\ bom' = [bom EXCEPT ![a] = defining[a]] /\ defining' = [defining EXCEPT ![a] = None]
  /\ UNCHANGED <<bills, order, build, runs, stock, sold, raced>>
DeleteBom(a) ==
  /\ Free(a) /\ bills < MaxBills /\ HasBom(bom, a)
  /\ bom' = [bom EXCEPT ![a] = NoLines] /\ bills' = bills + 1
  /\ UNCHANGED <<defining, order, build, runs, stock, sold, raced>>

-----------------------------------------------------------------------------
(* Work orders.                                                            *)

Buildable(a) == HasBom(bom, a) /\ ~Refuses(bom, a, {})
Locked(o) == \E b \in Builders : build[b] # None /\ build[b].order = o

CreateWorkOrder(o, a) ==
  /\ order[o].status = "none" /\ Buildable(a)
  /\ order' = [order EXCEPT ![o] = [status |-> "draft", item |-> a, produced |-> 0]]
  /\ UNCHANGED <<billVars, build, runs, stock, sold>>
ReleaseWorkOrder(o) ==
  /\ order[o].status = "draft" /\ Buildable(order[o].item)
  /\ CheckAvailability(ScrapAdjustedRequirements(bom, order[o].item, Planned))
  /\ order' = [order EXCEPT ![o].status = "released"]
  /\ UNCHANGED <<billVars, build, runs, stock, sold>>
CancelWorkOrder(o) ==
  /\ order[o].status \in {"draft", "released"} /\ order[o].produced = 0 /\ ~Locked(o)
  /\ order' = [order EXCEPT ![o].status = "cancelled"]
  /\ UNCHANGED <<billVars, build, runs, stock, sold>>

-----------------------------------------------------------------------------
(* Production.  A completion holds the row of its order from the start.    *)

ReadBom(b, o, a, q) ==
  /\ build[b] = None /\ Len(runs) < MaxRuns /\ Buildable(a)
  /\ build' = [build EXCEPT ![b] = [order |-> o, item |-> a, qty |-> q,
                                    need |-> ScrapAdjustedRequirements(bom, a, q)]]
  /\ UNCHANGED <<billVars, order, runs, stock, sold>>
ProduceFromBom(b, a, q) == ReadBom(b, None, a, q)
Remaining(o) == Planned - order[o].produced
CompleteWorkOrder(b, o, q) ==
  /\ order[o].status = "released" /\ ~Locked(o) /\ q <= Remaining(o)
  /\ ReadBom(b, o, order[o].item, q)

Legs(r) == [i \in Items |-> (IF i = r.item THEN r.qty ELSE 0) - r.need[i]]
ItemsFree(r) == \A i \in Items : i = r.item \/ r.need[i] > 0 => Free(i)
Credited(o, q) ==
  LET produced == order[o].produced + q
  IN  [order[o] EXCEPT !.produced = produced, !.status = IF produced >= Planned THEN "completed" ELSE @]
PostRun(b) ==
  /\ build[b] # None /\ ItemsFree(build[b])
  /\ build' = [build EXCEPT ![b] = None]
  /\ LET r == build[b] IN
     IF CheckAvailability(r.need) /\ Len(runs) < MaxRuns
     THEN /\ stock' = [i \in Items |-> stock[i] + Legs(r)[i]]
          /\ runs' = Append(runs, [order |-> r.order, item |-> r.item, qty |-> r.qty, legs |-> Legs(r), reversed |-> FALSE])
          /\ order' = IF r.order = None THEN order ELSE [order EXCEPT ![r.order] = Credited(r.order, r.qty)]
     ELSE UNCHANGED <<stock, runs, order>>
  /\ UNCHANGED <<billVars, sold>>

Unspent(k) == \A i \in Items : runs[k].legs[i] <= stock[i]
TwiceReversal(k) ==
  /\ Unspent(k) /\ runs' = [runs EXCEPT ![k].reversed = TRUE]
  /\ stock' = [i \in Items |-> stock[i] - runs[k].legs[i]]
  /\ UNCHANGED <<billVars, order, build, sold>>
ReverseProductionRun(k) ==
  /\ ~runs[k].reversed /\ Unspent(k)
  /\ \A i \in Items : runs[k].legs[i] # 0 => Free(i)
  /\ runs' = [runs EXCEPT ![k].reversed = TRUE]
  /\ stock' = [i \in Items |-> stock[i] - runs[k].legs[i]]
  /\ UNCHANGED <<billVars, order, build, sold>>

Sell(i) == /\ stock[i] >= Scale /\ sold[i] < MaxSold * Scale
           /\ stock' = [stock EXCEPT ![i] = @ - Scale] /\ sold' = [sold EXCEPT ![i] = @ + Scale]
           /\ UNCHANGED <<billVars, order, build, runs>>

Next ==
  \/ \E a \in Assemblies : CommitBom(a) \/ DeleteBom(a) \/ \E cs \in Bills : DefineBom(a, Lines(cs))
  \/ \E o \in Orders : ReleaseWorkOrder(o) \/ CancelWorkOrder(o) \/ \E a \in Assemblies : CreateWorkOrder(o, a)
  \/ \E b \in Builders : \/ PostRun(b)
                         \/ \E q \in Quantities : \/ \E a \in Assemblies : ProduceFromBom(b, a, q)
                                                  \/ \E o \in Orders : CompleteWorkOrder(b, o, q)
  \/ \E k \in DOMAIN runs : ReverseProductionRun(k)
  \/ \E i \in Items : Sell(i)
Spec == Init /\ [][Next]_vars

-----------------------------------------------------------------------------
LiveRuns == {k \in DOMAIN runs : ~runs[k].reversed}
Opening(i) == IF i \in Assemblies THEN 0 ELSE Start
StockIsExplained ==
  \A i \in Items :
    stock[i] >= 0 /\ stock[i] = Opening(i) - sold[i] + MapThenSumSet(LAMBDA k : runs[k].legs[i], LiveRuns)

RunsOf(o) == {k \in DOMAIN runs : runs[k].order = o}
OrdersCountTheirRuns ==
  \A o \in Orders :
    /\ order[o].produced = MapThenSumSet(LAMBDA k : runs[k].qty, RunsOf(o)) /\ order[o].produced <= Planned
    /\ order[o].status = "completed" <=> order[o].produced = Planned
    /\ order[o].status \in {"none", "draft", "cancelled"} => RunsOf(o) = {}

CyclesNeedARace == (\E a \in Assemblies : Refuses(bom, a, {})) => raced
NothingFromNothing == \A k \in DOMAIN runs : \E i \in Items : runs[k].legs[i] < 0

Flat(a) == Children(bom, a) \cap Assemblies = {} /\ \A c \in Children(bom, a) : ScrapPct(bom, c) = 0
FeasibleIsProducible ==
  \A a \in Assemblies, q \in Quantities :
    Flat(a) /\ Feasible(a, q) => Buildable(a) /\ CheckAvailability(ScrapAdjustedRequirements(bom, a, q))

(* Production keeps the stock ledger explained: stock is what was bought   *)
(* less what was sold plus the legs of the runs not reversed, each run     *)
(* reversed once and only while its goods are there.  A work order counts  *)
(* exactly its own runs, never beyond the plan, and a cancelled one made   *)
(* nothing.  Bills become cyclic only when two are replaced at once, and   *)
(* for a bill without sub-assemblies or allowances the feasibility answer  *)
(* is what production then finds.                                          *)
ProductionIsSound ==
  /\ StockIsExplained /\ OrdersCountTheirRuns /\ CyclesNeedARace
  /\ NothingFromNothing /\ FeasibleIsProducible

=============================================================================
