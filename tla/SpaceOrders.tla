------------------------------ MODULE SpaceOrders ------------------------------
(***************************************************************************)
(* ZatGo Space: orders for hosted sites that share one pool of memory and  *)
(* disk (zatgo_space/api/v1/space.py).  A hostname is unique over all      *)
(* orders, so an order goes by its hostname.  Nothing is locked between    *)
(* the look at the pool and the insert.                                    *)
(***************************************************************************)
EXTENDS Backend, FiniteSetsExt

CONSTANTS
  Hosts,     \* hostnames
  PlanSize,  \* sizes a Space Plan may have in the pool
  Pool,      \* size of the pool
  Revives    \* a callback may come for an order that has failed

ASSUME SpaceAssumption ==
  /\ PlanSize \subseteq Nat \ {0} /\ IsFiniteSet(PlanSize) /\ PlanSize # {}
  /\ Pool \in Nat /\ Revives \in BOOLEAN
  /\ IsFiniteSet(Hosts) /\ None \notin Hosts

VARIABLE order  \* Space Order of each hostname

spaceVars == <<order>>

\* used: whether the metrics have reported usage.
OrderDoc == [size : PlanSize, used : BOOLEAN,
             status : {"Draft", "Provisioning", "Active", "Failed"}]

ASSUME OrderAssumption == None \notin OrderDoc

SpaceTypeOK == order \in [Hosts -> OrderDoc \cup {None}]

SpaceInit == order = [h \in Hosts |-> None]

\* Faulty: an order counts from the first callback on.
HoldsCalledBack ==
  {h \in Hosts : order[h] # None /\ order[h].status \in {"Provisioning", "Active"}}

\* The orders with a status in POOL_STATUSES, and _allocated_pool.
Holds == {h \in Hosts : order[h] # None /\ order[h].status # "Failed"}
Allocated == SumFunctionOnSet([h \in Holds |-> order[h].size], Holds)

\* create_order up to the insert.  Of the hostname only live orders are looked
\* at here; the insert is refused for a Failed one as well.
LoadOrder(r, h, size) ==
  /\ order[h] # None => order[h].status = "Failed"
  /\ Allocated + size <= Pool
  /\ Load(r, [op |-> "order", h |-> h, size |-> size])
  /\ UNCHANGED order

CreateOrder(r) ==
  /\ call[r].op = "order"
  /\ order[call[r].h] = None
  /\ order' = [order EXCEPT ![call[r].h] =
                 [size |-> call[r].size, used |-> FALSE, status |-> "Draft"]]
  /\ Done(r, {})

\* Both callbacks of the provisioner load the document ...
LoadCallback(r, h, status) ==
  /\ order[h] # None
  /\ ~Revives /\ order[h].status = "Failed" => status = "Failed"
  /\ Load(r, [op |-> "status", h |-> h, doc |-> [order[h] EXCEPT !.status = status]])
  /\ UNCHANGED order

LoadUsage(r, h) ==
  /\ order[h] # None
  /\ Load(r, [op |-> "usage", h |-> h, doc |-> [order[h] EXCEPT !.used = TRUE]])
  /\ UNCHANGED order

\* ... and save all of it.
SaveOrder(r) ==
  /\ call[r].op \in {"status", "usage"}
  /\ Fresh(r, call[r].h)
  /\ order' = [order EXCEPT ![call[r].h] = call[r].doc]
  /\ Done(r, {call[r].h})

GiveUpSpace(r) == call[r] # Idle /\ Done(r, {}) /\ UNCHANGED order

SpaceNext ==
  \E r \in Requests :
    \/ CreateOrder(r) \/ SaveOrder(r) \/ GiveUpSpace(r)
    \/ \E h \in Hosts, size \in PlanSize : LoadOrder(r, h, size)
    \/ \E h \in Hosts, status \in {"Draft", "Provisioning", "Active", "Failed"} :
         LoadCallback(r, h, status)
    \/ \E h \in Hosts : LoadUsage(r, h)

SpaceSpec == BackendInit /\ SpaceInit /\ [][SpaceNext]_<<backendVars, spaceVars>>

-----------------------------------------------------------------------------
(* Properties.                                                             *)

\* The pool is exceeded at most by the orders that other requests let in after
\* the same look at it, if no failed order is revived (create_order).
PoolHolds ==
  ~Revives => Allocated <= Pool + (Cardinality(Requests) - 1) * Max(PlanSize)
=============================================================================
