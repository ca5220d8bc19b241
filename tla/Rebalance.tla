----------------------------- MODULE Rebalance -----------------------------
(***************************************************************************)
(* The rebalance solver of engine/rebalance.py, with the fit of a DIMM     *)
(* (engine/dimm_fit.py): up to three plans for a fleet out of balance, by  *)
(* migrations only, after moving one DIMM, or after buying one.  A         *)
(* behaviour is the making of one plan, a state what the fleet is once the *)
(* plan has been followed so far.                                          *)
(*                                                                         *)
(* Ratios are fractions <<committed, capacity>>.  Ties, which the code     *)
(* breaks by name, go either way.  The fleet is as it was loaded: hosts of *)
(* unknown memory and retired ones are left out.                           *)
(***************************************************************************)
EXTENDS Integers, FiniteSets, SequencesExt

CONSTANTS Hosts, Guests,
          Size,      \* Size[g]: the memory the guest is counted with
          Local,     \* guests with a volume on node-local storage
          MayHost,   \* MayHost[g]: the nodes of the guest's cluster
          Closed,    \* hosts marked no-new-guests
          Lan,       \* pairs of hosts with a LAN-grade path
          Kits,      \* the DIMMs a host may hold, as sequences that ascend
          Standard,  \* the sizes on sale (_STANDARD_DIMM_GB), ascending
          MaxMoves   \* _MAX_MOVES

RebalanceAssumption ==
    /\ Size \in [Guests -> Nat] /\ Local \subseteq Guests /\ Closed \subseteq Hosts
    /\ MayHost \in [Guests -> SUBSET Hosts] /\ Lan \subseteq Hosts \X Hosts
    /\ Kits \subseteq Seq(Nat \ {0}) /\ Standard \in Seq(Nat \ {0}) /\ MaxMoves \in Nat

VARIABLES kind,   \* the plan that is made
          stage,  \* whether its hardware step, its migrations or nothing is next
          dimms,  \* dimms[h]: the DIMMs the host was loaded with
          free,   \* free[h]: whether a slot is free, or "unseen"
          mem,    \* mem[h]: the host's memory
          at,     \* at[g]: the host the guest is on
          moved,  \* guests the plan has moved
          home,   \* history: where the guests were
          peak    \* history: the highest ratio when the migrations began

vars == <<kind, stage, dimms, free, mem, at, moved, home, peak>>

Reserve == 1
PlanKinds == {"current-hardware", "one-dimm-move", "one-part-purchase"}

Capacity(m, h) == IF m[h] > Reserve THEN m[h] - Reserve ELSE 0
Committed(h)   == FoldSet(LAMBDA g, sum : sum + Size[g], 0, {g \in Guests : at[g] = h})

Fraction(committed, capacity) == IF capacity = 0 THEN <<0, 1>> ELSE <<committed, capacity>>
Leq(x, y) == x[1] * y[2] <= y[1] * x[2]
Less(x, y) == ~Leq(y, x)

Ratio(h) == Fraction(Committed(h), Capacity(mem, h))

Constrained(x) == Less(<<3, 4>>, x)                                   \* _TARGET_MAX_RATIO
Apart(x, y) == 5 * (x[1] * y[2] - y[1] * x[2]) > x[2] * y[2]          \* _TARGET_SPREAD
FillCeiling(m, h, load) == 100 * load <= 85 * Capacity(m, h)          \* _DEST_FILL_CEILING

Tightest == {h \in Hosts : \A k \in Hosts : Leq(Ratio(k), Ratio(h))}
Emptiest(hosts) == {h \in hosts : \A k \in hosts : Leq(Ratio(h), Ratio(k))}

(* The source is worth relieving: the loop's condition, and the report's.  *)
Unbalanced(src) == \E k \in Hosts : Apart(Ratio(src), Ratio(k)) \/ Constrained(Ratio(src))

Init ==
    /\ kind \in PlanKinds /\ stage = "hardware"
    /\ dimms \in [Hosts -> Kits] /\ free \in [Hosts -> {"yes", "no", "unseen"}]
    /\ mem = [h \in Hosts |-> FoldSeq(LAMBDA d, sum : d + sum, 0, dimms[h])]
    /\ at \in [Guests -> Hosts] /\ home = at
    /\ {h \in Tightest : Unbalanced(h)} # {}
    /\ moved = {} /\ peak = <<0, 1>>
-----------------------------------------------------------------------------
(* Board.fit(): what a DIMM adds to a host; 0 where it cannot gain.        *)
Net(h, size) ==
    IF free[h] # "no" THEN size
    ELSE IF dimms[h] # <<>> /\ size > Head(dimms[h]) THEN size - Head(dimms[h])
    ELSE 0

Measured == {h \in Hosts : Capacity(mem, h) > 0}

MostLoaded == {h \in Measured : \A k \in Measured : Leq(Ratio(k), Ratio(h))}

Begun(m) ==
    /\ mem' = m /\ stage' = "migrations"
    /\ peak' = CHOOSE x \in {Fraction(Committed(h), Capacity(m, h)) : h \in Hosts} :
                  \A k \in Hosts : Leq(Fraction(Committed(k), Capacity(m, k)), x)
    /\ UNCHANGED <<kind, dimms, free, at, moved, home>>

CurrentHardware == stage = "hardware" /\ kind = "current-hardware" /\ Begun(mem)

(* _plan_dimm_move(): of the emptiest donor that can spare one, the        *)
(* smallest DIMM that helps the tightest host.                             *)
Spares(donor, receiver) ==
    {i \in DOMAIN dimms[donor] : Len(dimms[donor]) >= 2 /\ Net(receiver, dimms[donor][i]) > 0}

MoveDimm ==
    /\ stage = "hardware" /\ kind = "one-dimm-move"
    /\ \E receiver \in MostLoaded :
       LET donors == {h \in Measured \ {receiver} : Spares(h, receiver) # {}} IN
       \E donor \in Emptiest(donors) : \E i \in Spares(donor, receiver) :
          /\ Constrained(Ratio(receiver))
          /\ \A j \in Spares(donor, receiver) : i <= j
          /\ LET net == Net(receiver, dimms[donor][i])
             IN  Begun([mem EXCEPT ![donor] = @ - net, ![receiver] = @ + net])

(* _plan_purchase(): the smallest size that relieves the tightest host, or *)
(* the largest that adds anything.                                         *)
BuyDimm ==
    /\ stage = "hardware" /\ kind = "one-part-purchase"
    /\ \E receiver \in MostLoaded :
       LET with(i)  == [mem EXCEPT ![receiver] = @ + Net(receiver, Standard[i])]
           fits     == {i \in DOMAIN Standard : Net(receiver, Standard[i]) > 0}
           relieves == {i \in fits : /\ Capacity(with(i), receiver) > 0
                                     /\ ~Constrained(<<Committed(receiver), Capacity(with(i), receiver)>>)}
       IN \E i \in fits :
          /\ Constrained(Ratio(receiver))
          /\ IF relieves # {} THEN i \in relieves /\ \A j \in relieves : i <= j
             ELSE \A j \in fits : j <= i
          /\ Begun(with(i))
-----------------------------------------------------------------------------
(* _movable(): physics, and what the operator wants.                       *)
Movable(g, src, dst) ==
    /\ g \notin Local /\ dst \notin Closed /\ dst \in MayHost[g]
    /\ <<src, dst>> \in Lan
    /\ FillCeiling(mem, dst, Committed(dst) + Size[g])

(* Mutant: any move that fits is an improvement.                           *)
ImprovesAlways(g, src, dst) == TRUE

(* The move lowers the higher of the pair's two ratios.                    *)
Improves(g, src, dst) ==
    /\ Less(<<Committed(src) - Size[g], Capacity(mem, src)>>, Ratio(src))
    /\ Less(<<Committed(dst) + Size[g], Capacity(mem, dst)>>, Ratio(src))

MayMove(src, dst) ==
    {g \in Guests \ moved : at[g] = src /\ Movable(g, src, dst) /\ Improves(g, src, dst)}

(* _greedy_moves(): from the tightest host to the emptiest that can take   *)
(* one of its guests, the largest guest it can take.                       *)
Migrate ==
    /\ stage = "migrations" /\ Cardinality(moved) < MaxMoves
    /\ \E src \in Tightest :
       LET takers == {h \in Hosts \ {src} : MayMove(src, h) # {}} IN
       \E dst \in Emptiest(takers) : \E g \in MayMove(src, dst) :
          /\ Unbalanced(src)
          /\ \A other \in MayMove(src, dst) : Size[other] <= Size[g]
          /\ at' = [at EXCEPT ![g] = dst]
          /\ moved' = moved \cup {g}
    /\ UNCHANGED <<kind, stage, dimms, free, mem, home, peak>>

Next == CurrentHardware \/ MoveDimm \/ BuyDimm \/ Migrate

Spec == Init /\ [][Next]_vars
-----------------------------------------------------------------------------
TypeOK ==
    /\ kind \in PlanKinds /\ stage \in {"hardware", "migrations"}
    /\ dimms \in [Hosts -> Kits] /\ free \in [Hosts -> {"yes", "no", "unseen"}]
    /\ mem \in [Hosts -> Nat] /\ at \in [Guests -> Hosts] /\ home \in [Guests -> Hosts]
    /\ moved \subseteq Guests /\ peak \in Nat \X Nat

(* A plan can be followed step by step: at no point of it is a host more   *)
(* loaded than the tightest one was when the migrations began, is one that *)
(* took guests beyond its ceiling, or is a guest where it may not be.      *)
PlanNeverWorsens ==
    stage = "migrations" =>
       /\ \A h \in Hosts : Leq(Ratio(h), peak)
       /\ \A g \in Guests : at[g] # home[g] =>
             /\ g \notin Local /\ at[g] \notin Closed /\ at[g] \in MayHost[g]
             /\ FillCeiling(mem, at[g], Committed(at[g]))
=============================================================================
