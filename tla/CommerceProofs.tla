-------------------------- MODULE CommerceProofs ---------------------------
(***************************************************************************)
(* Proofs about the parts of the back office that count pieces, entries and *)
(* pool: SpaceOrders, Returns, Journal and VanRoute, for any documents,    *)
(* quantities and requests.  Sums are those of LedgerProofs.               *)
(***************************************************************************)
EXTENDS LedgerProofs, SpaceOrders, Returns, Journal, VanRoute

-----------------------------------------------------------------------------
(***************************************************************************)
(* SpaceOrders: what the orders hold of the pool and what requests have    *)
(* been let in for stay together within the bound.                         *)
(***************************************************************************)

SpaceCalls ==
  {Idle} \cup [op : {"order"}, h : Hosts, size : PlanSize]
    \cup [op : {"status", "usage"}, h : Hosts, doc : OrderDoc]

\* A callback that would still be saved changes no size and revives nothing.
CallbackFits ==
  \A r \in Requests :
    call[r].op \in {"status", "usage"} /\ Fresh(r, call[r].h) =>
      /\ order[call[r].h] # None
      /\ call[r].doc.size = order[call[r].h].size
      /\ order[call[r].h].status = "Failed" => call[r].doc.status = "Failed"

\* What the requests ask for that have been let in and not created.
Asking == {r \in Requests : call[r].op = "order"}
Asked == SumFunctionOnSet([r \in Asking |-> call[r].size], Asking)

Most == Pool + (Cardinality(Requests) - 1) * Max(PlanSize)

SpaceInv ==
  /\ SpaceTypeOK
  /\ call \in [Requests -> SpaceCalls]
  /\ CallbackFits
  /\ Allocated + Asked <= Most

LEMMA SpaceNumbers ==
  /\ Max(PlanSize) \in Nat /\ \A s \in PlanSize : s \in Nat /\ s <= Max(PlanSize)
  /\ Cardinality(Requests) \in Nat /\ Cardinality(Requests) >= 1 /\ Most \in Nat
<1>1. /\ Max(PlanSize) \in Nat /\ \A s \in PlanSize : s \in Nat /\ s <= Max(PlanSize)
  BY SpaceAssumption, MaxOfSet
<1>2. Cardinality(Requests) \in Nat /\ Cardinality(Requests) # 0
  BY WorkersAssumption, FS_CardinalityType, FS_EmptySet
<1> QED BY <1>1, <1>2, SpaceAssumption DEF Most

LEMMA SpaceCall ==
  ASSUME NEW r, r \in Requests, call \in [Requests -> SpaceCalls]
  PROVE  /\ call[r].op = "order" => call[r].h \in Hosts /\ call[r].size \in PlanSize
         /\ call[r].op \in {"status", "usage"} =>
              call[r].h \in Hosts /\ call[r].doc \in OrderDoc
         /\ call[r] = Idle <=> call[r].op = "none"
         /\ Idle.op = "none"
BY DEF SpaceCalls, Idle

LEMMA AllocatedFacts ==
  ASSUME SpaceTypeOK
  PROVE  /\ IsFiniteSet(Holds) /\ Allocated \in Nat
         /\ \A h \in Holds : order[h] \in OrderDoc /\ order[h].size \in Nat
<1>1. IsFiniteSet(Holds)
  BY SpaceAssumption, FS_Subset DEF Holds
<1>2. \A h \in Holds : order[h] \in OrderDoc /\ order[h].size \in Nat
  BY SpaceAssumption DEF Holds, SpaceTypeOK, OrderDoc
<1> QED BY <1>1, <1>2, SumNat DEF Allocated

LEMMA AskedFacts ==
  ASSUME call \in [Requests -> SpaceCalls]
  PROVE  /\ IsFiniteSet(Asking) /\ Asked \in Nat
         /\ \A r \in Asking : call[r].size \in PlanSize /\ call[r].size \in Nat
<1>1. IsFiniteSet(Asking)
  BY WorkersAssumption, FS_Subset DEF Asking
<1>2. \A r \in Asking : call[r].size \in PlanSize /\ call[r].size \in Nat
  BY SpaceCall, SpaceNumbers DEF Asking
<1> QED BY <1>1, <1>2, SumNat DEF Asked

LEMMA SpaceSums ==
  SpaceTypeOK /\ call \in [Requests -> SpaceCalls] => Allocated \in Nat /\ Asked \in Nat
BY AllocatedFacts, AskedFacts

LEMMA SpaceSumsNext ==
  SpaceTypeOK' /\ (call \in [Requests -> SpaceCalls])' => (Allocated \in Nat /\ Asked \in Nat)'
BY SpaceSums, PTL

\* Requests that ask for nothing come and go.
LEMMA AskedSame ==
  ASSUME call \in [Requests -> SpaceCalls], NEW r \in Requests, NEW c,
         call' = [call EXCEPT ![r] = c], call[r].op # "order", c.op # "order"
  PROVE  Asked' = Asked
<1>1. Asking' = Asking /\ \A q \in Asking : call'[q] = call[q]
  BY DEF Asking
<1> DEFINE f == [q \in Asking |-> call[q].size]
           g == [q \in Asking' |-> call'[q].size]
<1>2. g = f
  BY <1>1
<1> QED BY <1>1, <1>2 DEF Asked

LEMMA AskedMore ==
  ASSUME call \in [Requests -> SpaceCalls], NEW r \in Requests, NEW c,
         call' = [call EXCEPT ![r] = c], call[r] = Idle, c.op = "order", c.size \in PlanSize
  PROVE  Asked' = Asked + c.size /\ Asked <= (Cardinality(Requests) - 1) * Max(PlanSize)
<1> DEFINE f == [q \in Asking |-> call[q].size]
           g == [q \in Asking' |-> call'[q].size]
<1>0. r \notin Asking /\ Asking \subseteq Requests \ {r}
  BY SpaceCall DEF Asking
<1>1. /\ Asking' = Asking \cup {r} /\ call'[r] = c
      /\ \A q \in Asking : call'[q] = call[q]
  BY <1>0 DEF Asking
<1>2. IsFiniteSet(Asking) /\ \A q \in Asking : f[q] \in Nat /\ g[q] = f[q]
  BY <1>1, AskedFacts
<1>3. g[r] = c.size /\ c.size \in Nat
  BY <1>1, SpaceNumbers
<1> HIDE DEF f, g
<1>4. SumFunctionOnSet(g, Asking \cup {r}) = SumFunctionOnSet(g, Asking) + g[r]
  BY <1>0, <1>2, <1>3, SumAdd
<1>5. SumFunctionOnSet(g, Asking) = SumFunctionOnSet(f, Asking)
  BY <1>2, SumSame
<1>6. Asked' = Asked + c.size
  BY <1>1, <1>3, <1>4, <1>5 DEF Asked, f, g
<1>7. \A q \in Asking : f[q] <= Max(PlanSize)
  BY AskedFacts, SpaceNumbers DEF f
<1>8. Asked <= Cardinality(Asking) * Max(PlanSize)
  BY <1>2, <1>7, SumBound, SpaceNumbers DEF Asked, f
<1>9. Cardinality(Asking) <= Cardinality(Requests) - 1 /\ Cardinality(Asking) \in Nat
  <2>1. IsFiniteSet(Requests \ {r}) /\ Cardinality(Requests \ {r}) = Cardinality(Requests) - 1
    BY WorkersAssumption, FS_RemoveElement
  <2> QED BY <1>0, <1>2, <2>1, FS_Subset, FS_CardinalityType
<1>10. \A a, b, m \in Nat : a <= b => a * m <= b * m
  OBVIOUS
<1>11. PICK b \in Nat : b = Cardinality(Requests) - 1
  BY SpaceNumbers
<1>12. Cardinality(Asking) * Max(PlanSize) <= b * Max(PlanSize)
  BY <1>9, <1>10, <1>11, SpaceNumbers
<1>13. Asked \in Nat /\ Cardinality(Asking) * Max(PlanSize) \in Nat /\ b * Max(PlanSize) \in Nat
  BY <1>9, <1>11, AskedFacts, SpaceNumbers
<1>14. Asked <= b * Max(PlanSize)
  BY <1>8, <1>12, <1>13
<1> QED BY <1>6, <1>11, <1>14

LEMMA AskedLess ==
  ASSUME call \in [Requests -> SpaceCalls], NEW r \in Requests, NEW c,
         call' = [call EXCEPT ![r] = c], call[r].op = "order", c.op # "order"
  PROVE  Asked = Asked' + call[r].size
<1> DEFINE f == [q \in Asking |-> call[q].size]
           g == [q \in Asking' |-> call'[q].size]
<1>1. /\ Asking' = Asking \ {r} /\ r \in Asking
      /\ \A q \in Asking \ {r} : call'[q] = call[q]
  BY DEF Asking
<1>2. IsFiniteSet(Asking) /\ \A q \in Asking : f[q] \in Nat
  BY AskedFacts
<1>3. \A q \in Asking \ {r} : g[q] = f[q]
  BY <1>1
<1>4. f[r] = call[r].size
  BY <1>1
<1> HIDE DEF f, g
<1>5. SumFunctionOnSet(f, Asking) = SumFunctionOnSet(f, Asking \ {r}) + f[r]
  BY <1>1, <1>2, SumSplit
<1>6. SumFunctionOnSet(g, Asking \ {r}) = SumFunctionOnSet(f, Asking \ {r})
  BY <1>2, <1>3, FS_RemoveElement, SumSame
<1> QED BY <1>1, <1>4, <1>5, <1>6 DEF Asked, f, g

-----------------------------------------------------------------------------
(* The pool.                                                               *)

LEMMA AllocatedSame ==
  ASSUME order' = order PROVE Allocated' = Allocated
BY DEF Allocated, Holds

\* A document is created or saved.
LEMMA AllocatedChanges ==
  ASSUME SpaceTypeOK, NEW h \in Hosts, NEW d \in OrderDoc,
         order' = [order EXCEPT ![h] = d],
         \/ order[h] = None /\ d.status # "Failed"
         \/ /\ order[h] # None /\ d.size = order[h].size
            /\ order[h].status = "Failed" => d.status = "Failed"
  PROVE  /\ SpaceTypeOK'
         /\ order[h] = None => Allocated' = Allocated + d.size
         /\ order[h] # None => Allocated' <= Allocated
<1> DEFINE f == [k \in Holds |-> order[k].size]
           g == [k \in Holds' |-> order'[k].size]
<1>0. d.size \in Nat /\ d # None
  BY SpaceAssumption, OrderAssumption DEF OrderDoc
<1>1. order'[h] = d /\ \A k \in Hosts \ {h} : order'[k] = order[k]
  BY DEF SpaceTypeOK
<1>2. SpaceTypeOK'
  BY DEF SpaceTypeOK
<1>3. IsFiniteSet(Holds) /\ Allocated \in Nat /\ \A k \in Holds : f[k] \in Nat
  BY AllocatedFacts
<1>4. Allocated = SumFunctionOnSet(f, Holds) /\ Allocated' = SumFunctionOnSet(g, Holds')
  BY DEF Allocated
<1>5. CASE order[h] = None
  <2>1. h \notin Holds /\ Holds' = Holds \cup {h}
    BY <1>0, <1>1, <1>5 DEF Holds
  <2>2. g[h] = d.size /\ \A k \in Holds : g[k] = f[k]
    BY <1>1, <2>1 DEF Holds
  <2> HIDE DEF f, g
  <2>3. SumFunctionOnSet(g, Holds \cup {h}) = SumFunctionOnSet(g, Holds) + g[h]
    BY <1>0, <1>3, <2>1, <2>2, SumAdd
  <2>4. SumFunctionOnSet(g, Holds) = SumFunctionOnSet(f, Holds)
    BY <1>3, <2>2, SumSame
  <2> QED BY <1>2, <1>4, <1>5, <2>1, <2>2, <2>3, <2>4
<1>6. CASE order[h] # None
  <2>1. Holds' \subseteq Holds
    BY <1>0, <1>1, <1>6 DEF Holds
  <2>2. \A k \in Holds' : g[k] = f[k] /\ f[k] \in Nat
    BY <1>1, <1>3, <1>6, <2>1 DEF Holds
  <2> HIDE DEF f, g
  <2>3. \A k \in Holds' : g[k] \in Nat /\ g[k] <= f[k]
    BY <2>2
  <2>4. SumFunctionOnSet(g, Holds') <= SumFunctionOnSet(f, Holds)
    BY <1>3, <2>1, <2>3, SumLeq
  <2> QED BY <1>2, <1>4, <1>6, <2>4
<1> QED BY <1>5, <1>6

\* Callbacks of other requests, when r has saved what it names in `saved`.
LEMMA CallbacksStayFit ==
  ASSUME SpaceInv, NEW r \in Requests, NEW saved, NEW c, Commit(r, c, saved),
         \A h \in Hosts : order'[h] = order[h] \/ h \in saved \/ order[h] = None,
         c.op \notin {"status", "usage"}
  PROVE  CallbackFits'
<1> SUFFICES ASSUME NEW q \in Requests, call'[q].op \in {"status", "usage"},
                    call'[q].h \notin stale'[q]
             PROVE  /\ order'[call'[q].h] # None
                    /\ call'[q].doc.size = order'[call'[q].h].size
                    /\ order'[call'[q].h].status = "Failed" => call'[q].doc.status = "Failed"
  BY DEF CallbackFits, Fresh
<1>1. q # r /\ call'[q] = call[q] /\ call[q] # Idle
  BY SpaceCall DEF Commit, SpaceInv
<1>2. call[q].h \in Hosts /\ Fresh(q, call[q].h) /\ call[q].h \notin saved
  BY <1>1, SpaceCall DEF Commit, SpaceInv, Fresh
<1>3. order[call[q].h] # None
  BY <1>1, <1>2 DEF SpaceInv, CallbackFits
<1>4. order'[call[q].h] = order[call[q].h]
  BY <1>2, <1>3
<1> QED BY <1>1, <1>2, <1>4 DEF SpaceInv, CallbackFits

\* A request that loads.
LEMMA LoadKeepsSpace ==
  ASSUME SpaceInv, NEW r \in Requests, NEW c \in SpaceCalls, Load(r, c), order' = order,
         c.op = "order" => Allocated + c.size <= Pool,
         c.op \in {"status", "usage"} =>
           /\ order[c.h] # None /\ c.doc.size = order[c.h].size
           /\ order[c.h].status = "Failed" => c.doc.status = "Failed"
  PROVE  SpaceInv'
<1>1. /\ call[r] = Idle /\ call' = [call EXCEPT ![r] = c] /\ call'[r] = c /\ stale' = stale
      /\ \A q \in Requests \ {r} : call'[q] = call[q]
  BY DEF Load, SpaceInv
<1>2. SpaceTypeOK' /\ call' \in [Requests -> SpaceCalls] /\ Allocated' = Allocated
  BY <1>1, AllocatedSame DEF SpaceInv, SpaceTypeOK
<1>3. CallbackFits'
  BY <1>1 DEF SpaceInv, CallbackFits, Fresh
<1>4. Allocated \in Nat /\ Asked \in Nat /\ Most \in Nat
  BY AllocatedFacts, AskedFacts, SpaceNumbers DEF SpaceInv
<1>5. CASE c.op = "order"
  <2>1. c.size \in PlanSize /\ c.size \in Nat
    BY <1>1, <1>2, <1>5, SpaceCall, SpaceNumbers DEF SpaceCalls, Idle
  <2>2. Asked' = Asked + c.size /\ Asked <= (Cardinality(Requests) - 1) * Max(PlanSize)
    BY <1>1, <1>5, <2>1, AskedMore DEF SpaceInv
  <2>3. PICK m : m = (Cardinality(Requests) - 1) * Max(PlanSize)
    OBVIOUS
  <2>4. m \in Int /\ Most = Pool + m
    BY <2>3, SpaceNumbers DEF Most
  <2>5. Allocated' + Asked' <= Most
    BY <1>2, <1>4, <1>5, <2>1, <2>2, <2>3, <2>4, SpaceAssumption
  <2>6. Most' = Most
    BY DEF Most
  <2> QED BY <1>2, <1>3, <2>5, <2>6 DEF SpaceInv
<1>6. CASE c.op # "order"
  <2>1. Asked' = Asked
    BY <1>1, <1>6, AskedSame, SpaceCall DEF SpaceInv
  <2> QED BY <1>2, <1>3, <2>1 DEF SpaceInv, Most
<1> QED BY <1>5, <1>6

LEMMA FewerFit ==
  ASSUME NEW a \in Nat, NEW b \in Nat, NEW m \in Nat, NEW x \in Nat, a + b <= m, x <= a
  PROVE  x + b <= m
OBVIOUS

\* A request that ends.
LEMMA EndKeepsSpace ==
  ASSUME SpaceInv, NEW r \in Requests, NEW saved, Done(r, saved), SpaceTypeOK',
         \A h \in Hosts : order'[h] = order[h] \/ h \in saved \/ order[h] = None,
         \/ Allocated' <= Allocated
         \/ call[r].op = "order" /\ Allocated' = Allocated + call[r].size
  PROVE  SpaceInv'
<1>1. /\ call' = [call EXCEPT ![r] = Idle] /\ Idle.op = "none" /\ Idle \in SpaceCalls
      /\ call' \in [Requests -> SpaceCalls]
  BY DEF Done, Commit, SpaceInv, Idle, SpaceCalls
<1>2. CallbackFits'
  BY <1>1, CallbacksStayFit DEF Done
<1>3. /\ Allocated \in Nat /\ Asked \in Nat /\ Most \in Nat
      /\ Allocated' \in Nat /\ Asked' \in Nat /\ Allocated + Asked <= Most
  BY <1>1, AllocatedFacts, AskedFacts, SpaceSumsNext, SpaceNumbers DEF SpaceInv
<1>4. Allocated' + Asked' <= Most
  <2>1. CASE call[r].op = "order"
    <3>1. Asked = Asked' + call[r].size /\ call[r].size \in Nat
      BY <1>1, <2>1, AskedLess, SpaceCall, SpaceNumbers DEF SpaceInv
    <3>2. PICK z \in Nat : z = call[r].size
      BY <3>1
    <3>3. PICK x \in Nat, y \in Nat : x = Allocated' /\ y = Asked'
      BY <1>3
    <3>4. PICK a \in Nat, b \in Nat, m \in Nat : a = Allocated /\ b = Asked /\ m = Most
      BY <1>3
    <3>5. a + b <= m /\ b = y + z /\ (x <= a \/ x = a + z)
      BY <1>3, <3>1, <3>2, <3>3, <3>4
    <3>6. x + y <= m
      BY <3>5
    <3> QED BY <3>3, <3>4, <3>6
  <2>2. CASE call[r].op # "order"
    <3>1. Asked' = Asked
      BY <1>1, <2>2, AskedSame DEF SpaceInv
    <3>2. Allocated' <= Allocated
      BY <2>2
    <3> QED BY <1>3, FewerFit, <3>1, <3>2
  <2> QED BY <2>1, <2>2
<1> QED BY <1>1, <1>2, <1>4 DEF SpaceInv, Most

LEMMA InitSpace == BackendInit /\ SpaceInit => SpaceInv
<1> SUFFICES ASSUME BackendInit, SpaceInit PROVE SpaceInv
  OBVIOUS
<1>1. \A r \in Requests : call[r] = Idle /\ call[r].op = "none" /\ Idle \in SpaceCalls
  BY DEF BackendInit, Idle, SpaceCalls
<1>2. Holds = {} /\ Asking = {}
  BY <1>1 DEF SpaceInit, Holds, Asking
<1>3. Allocated = 0 /\ Asked = 0
  BY <1>2, SumEmpty DEF Allocated, Asked
<1>4. SpaceTypeOK /\ call \in [Requests -> SpaceCalls]
  BY <1>1 DEF SpaceInit, SpaceTypeOK, BackendInit
<1>5. CallbackFits
  BY <1>1 DEF CallbackFits
<1> QED BY <1>3, <1>4, <1>5, SpaceNumbers DEF SpaceInv

LEMMA StepKeepsSpace ==
  ASSUME ~Revives, SpaceInv, [SpaceNext]_<<backendVars, spaceVars>>
  PROVE  SpaceInv'
<1>1. CASE UNCHANGED <<backendVars, spaceVars>>
  <2>1. Allocated' = Allocated /\ Asked' = Asked
    BY <1>1 DEF backendVars, spaceVars, Allocated, Holds, Asked, Asking
  <2> QED BY <1>1, <2>1 DEF backendVars, spaceVars, SpaceInv, SpaceTypeOK, CallbackFits,
                            Fresh, Most
<1>2. ASSUME NEW r \in Requests, NEW h \in Hosts, NEW size \in PlanSize, LoadOrder(r, h, size)
      PROVE  SpaceInv'
  <2> DEFINE c == [op |-> "order", h |-> h, size |-> size]
  <2>1. c \in SpaceCalls /\ c.op = "order" /\ c.size = size
    BY DEF SpaceCalls
  <2>2. Load(r, c) /\ order' = order /\ Allocated + size <= Pool
    BY <1>2 DEF LoadOrder
  <2> HIDE DEF c
  <2> QED BY <2>1, <2>2, LoadKeepsSpace
<1>3. ASSUME NEW r \in Requests, NEW h \in Hosts,
             NEW status \in {"Draft", "Provisioning", "Active", "Failed"},
             LoadCallback(r, h, status)
      PROVE  SpaceInv'
  <2> DEFINE d == [order[h] EXCEPT !.status = status]
             c == [op |-> "status", h |-> h, doc |-> d]
  <2>1. order[h] # None /\ order[h] \in OrderDoc
    BY <1>3 DEF LoadCallback, SpaceInv, SpaceTypeOK
  <2>2. d \in OrderDoc /\ d.size = order[h].size /\ d.status = status
    BY <2>1 DEF OrderDoc
  <2>3. Load(r, c) /\ order' = order /\ (order[h].status = "Failed" => status = "Failed")
    BY <1>3 DEF LoadCallback
  <2> HIDE DEF d
  <2>4. c \in SpaceCalls /\ c.op = "status" /\ c.h = h /\ c.doc = d
    BY <2>2 DEF SpaceCalls
  <2> HIDE DEF c
  <2> QED BY <2>1, <2>2, <2>3, <2>4, LoadKeepsSpace
<1>4. ASSUME NEW r \in Requests, NEW h \in Hosts, LoadUsage(r, h)
      PROVE  SpaceInv'
  <2> DEFINE d == [order[h] EXCEPT !.used = TRUE]
             c == [op |-> "usage", h |-> h, doc |-> d]
  <2>1. order[h] # None /\ order[h] \in OrderDoc
    BY <1>4 DEF LoadUsage, SpaceInv, SpaceTypeOK
  <2>2. d \in OrderDoc /\ d.size = order[h].size /\ d.status = order[h].status
    BY <2>1 DEF OrderDoc
  <2>3. Load(r, c) /\ order' = order
    BY <1>4 DEF LoadUsage
  <2> HIDE DEF d
  <2>4. c \in SpaceCalls /\ c.op = "usage" /\ c.h = h /\ c.doc = d
    BY <2>2 DEF SpaceCalls
  <2> HIDE DEF c
  <2> QED BY <2>1, <2>2, <2>3, <2>4, LoadKeepsSpace
<1>5. ASSUME NEW r \in Requests, CreateOrder(r)
      PROVE  SpaceInv'
  <2>1. call[r].op = "order" /\ call[r].h \in Hosts /\ call[r].size \in PlanSize
        /\ order[call[r].h] = None
    BY <1>5, SpaceCall DEF CreateOrder, SpaceInv
  <2>2. PICK d : d = [size |-> call[r].size, used |-> FALSE, status |-> "Draft"]
    OBVIOUS
  <2>3. d \in OrderDoc /\ d.size = call[r].size /\ d.status = "Draft"
    BY <2>1, <2>2 DEF OrderDoc
  <2>4. order' = [order EXCEPT ![call[r].h] = d] /\ Done(r, {})
    BY <1>5, <2>2 DEF CreateOrder
  <2>5. SpaceTypeOK' /\ Allocated' = Allocated + call[r].size
    BY <2>1, <2>3, <2>4, AllocatedChanges DEF SpaceInv
  <2>6. \A h \in Hosts : order'[h] = order[h] \/ order[h] = None
    BY <2>1, <2>4 DEF SpaceInv, SpaceTypeOK
  <2> QED BY <2>1, <2>4, <2>5, <2>6, EndKeepsSpace
<1>6. ASSUME NEW r \in Requests, SaveOrder(r)
      PROVE  SpaceInv'
  <2>1. /\ call[r].op \in {"status", "usage"} /\ Fresh(r, call[r].h)
        /\ call[r].h \in Hosts /\ call[r].doc \in OrderDoc
        /\ order' = [order EXCEPT ![call[r].h] = call[r].doc] /\ Done(r, {call[r].h})
    BY <1>6, SpaceCall DEF SaveOrder, SpaceInv
  <2>2. /\ order[call[r].h] # None
        /\ call[r].doc.size = order[call[r].h].size
        /\ order[call[r].h].status = "Failed" => call[r].doc.status = "Failed"
    BY <2>1 DEF SpaceInv, CallbackFits
  <2>3. SpaceTypeOK' /\ Allocated' <= Allocated
    BY <2>1, <2>2, AllocatedChanges DEF SpaceInv
  <2>4. \A h \in Hosts : order'[h] = order[h] \/ h \in {call[r].h}
    BY <2>1 DEF SpaceInv, SpaceTypeOK
  <2> QED BY <2>1, <2>3, <2>4, EndKeepsSpace
<1>7. ASSUME NEW r \in Requests, GiveUpSpace(r)
      PROVE  SpaceInv'
  <2>1. Done(r, {}) /\ order' = order /\ SpaceTypeOK'
    BY <1>7 DEF GiveUpSpace, SpaceInv, SpaceTypeOK
  <2>2. Allocated' <= Allocated
    BY <2>1, AllocatedSame, AllocatedFacts DEF SpaceInv
  <2> QED BY <2>1, <2>2, EndKeepsSpace
<1> QED BY <1>1, <1>2, <1>3, <1>4, <1>5, <1>6, <1>7 DEF SpaceNext

\* Types, with revived orders, too.
LEMMA SpaceTypes == SpaceSpec => []SpaceTypeOK
<1> DEFINE Typed == SpaceTypeOK /\ call \in [Requests -> SpaceCalls]
<1>1. BackendInit /\ SpaceInit => Typed
  BY DEF BackendInit, SpaceInit, SpaceTypeOK, SpaceCalls
<1>2. Typed /\ [SpaceNext]_<<backendVars, spaceVars>> => Typed'
  <2> SUFFICES ASSUME Typed, [SpaceNext]_<<backendVars, spaceVars>> PROVE Typed'
    OBVIOUS
  <2>1. CASE UNCHANGED <<backendVars, spaceVars>>
    BY <2>1 DEF backendVars, spaceVars, SpaceTypeOK
  <2>2. ASSUME NEW r \in Requests, NEW h \in Hosts, NEW size \in PlanSize,
               LoadOrder(r, h, size)
        PROVE  Typed'
    <3>1. [op |-> "order", h |-> h, size |-> size] \in SpaceCalls
      BY DEF SpaceCalls
    <3> QED BY <2>2, <3>1 DEF LoadOrder, Load, SpaceTypeOK
  <2>3. ASSUME NEW r \in Requests, NEW h \in Hosts,
               NEW status \in {"Draft", "Provisioning", "Active", "Failed"},
               LoadCallback(r, h, status)
        PROVE  Typed'
    <3>1. order[h] \in OrderDoc
      BY <2>3 DEF LoadCallback, SpaceTypeOK
    <3>2. [order[h] EXCEPT !.status = status] \in OrderDoc
      BY <3>1 DEF OrderDoc
    <3>3. [op |-> "status", h |-> h, doc |-> [order[h] EXCEPT !.status = status]] \in SpaceCalls
      BY <3>2 DEF SpaceCalls
    <3> QED BY <2>3, <3>3 DEF LoadCallback, Load, SpaceTypeOK
  <2>4. ASSUME NEW r \in Requests, NEW h \in Hosts, LoadUsage(r, h)
        PROVE  Typed'
    <3>1. order[h] \in OrderDoc
      BY <2>4 DEF LoadUsage, SpaceTypeOK
    <3>2. [order[h] EXCEPT !.used = TRUE] \in OrderDoc
      BY <3>1 DEF OrderDoc
    <3>3. [op |-> "usage", h |-> h, doc |-> [order[h] EXCEPT !.used = TRUE]] \in SpaceCalls
      BY <3>2 DEF SpaceCalls
    <3> QED BY <2>4, <3>3 DEF LoadUsage, Load, SpaceTypeOK
  <2>5. ASSUME NEW r \in Requests, CreateOrder(r) \/ SaveOrder(r) \/ GiveUpSpace(r)
        PROVE  Typed'
    <3>1. call' \in [Requests -> SpaceCalls]
      BY <2>5 DEF CreateOrder, SaveOrder, GiveUpSpace, Done, Commit, SpaceCalls
    <3>2. CASE CreateOrder(r)
      <4>1. call[r].size \in PlanSize /\ call[r].h \in Hosts
        BY <3>2, SpaceCall DEF CreateOrder
      <4>2. [size |-> call[r].size, used |-> FALSE, status |-> "Draft"] \in OrderDoc
        BY <4>1 DEF OrderDoc
      <4> QED BY <3>1, <3>2, <4>1, <4>2 DEF CreateOrder, SpaceTypeOK
    <3>3. CASE SaveOrder(r)
      <4>1. call[r].doc \in OrderDoc /\ call[r].h \in Hosts
        BY <3>3, SpaceCall DEF SaveOrder
      <4> QED BY <3>1, <3>3, <4>1 DEF SaveOrder, SpaceTypeOK
    <3>4. CASE GiveUpSpace(r)
      BY <3>1, <3>4 DEF GiveUpSpace, SpaceTypeOK
    <3> QED BY <2>5, <3>2, <3>3, <3>4
  <2> QED BY <2>1, <2>2, <2>3, <2>4, <2>5 DEF SpaceNext
<1>3. Typed => SpaceTypeOK
  OBVIOUS
<1> QED BY <1>1, <1>2, <1>3, PTL DEF SpaceSpec

LEMMA SpaceInvHolds == SpaceInv => PoolHolds
<1>1. SpaceInv => Allocated \in Nat /\ Asked \in Nat /\ Most \in Nat /\ Allocated + Asked <= Most
  BY AllocatedFacts, AskedFacts, SpaceNumbers DEF SpaceInv
<1> QED BY <1>1 DEF PoolHolds, Most

\* The pool is exceeded at most by the largest plan for every other request,
\* whatever orders are created, fail and are called back for, if no failed order
\* is revived: what is allocated and what has been let in together stay within
\* that (create_order, _allocated_pool).
THEOREM PoolIsBounded == SpaceSpec => []PoolHolds
<1>1. CASE Revives
  BY <1>1, PTL DEF PoolHolds
<1>2. CASE ~Revives
  <2>1. SpaceInv /\ [SpaceNext]_<<backendVars, spaceVars>> => SpaceInv'
    BY <1>2, StepKeepsSpace
  <2> QED BY <2>1, SpaceInvHolds, InitSpace, PTL DEF SpaceSpec
<1> QED BY <1>1, <1>2

-----------------------------------------------------------------------------
(***************************************************************************)
(* Returns: a return takes what is left of the lines, in their order.      *)
(***************************************************************************)

ReturnCalls ==
  {Idle} \cup [op : {"return"}, id : ReturnIds, want : Asks, left : [Lines -> Nat]]

\* A return that would still be posted knows what the lines have left.
LeftFits == \A r \in Requests :
  call[r].op = "return" /\ Fresh(r, "stock") => call[r].left = Left

ReturnsInv ==
  /\ ReturnsTypeOK
  /\ call \in [Requests -> ReturnCalls]
  /\ LeftFits
  /\ \A c \in ReturnIds : credit[c] # None => credit[c].status # "draft"
  /\ ReturnedAsAsked

LEMMA ReturnCall ==
  ASSUME NEW r \in Requests, call \in [Requests -> ReturnCalls]
  PROVE  /\ call[r].op = "return" =>
              /\ call[r].id \in ReturnIds /\ call[r].want \in Asks
              /\ call[r].left \in [Lines -> Nat]
         /\ call[r] = Idle <=> call[r].op = "none"
         /\ call[r] # Idle <=> call[r].op = "return"
         /\ Idle.op = "none" /\ Idle \in ReturnCalls
BY DEF ReturnCalls, Idle

LEMMA LinesFacts ==
  ASSUME NEW i
  PROVE  /\ IsFiniteSet(LinesOf(i)) /\ LinesOf(i) \subseteq Lines
         /\ \A T \in SUBSET LinesOf(i) : IsFiniteSet(T)
BY ReturnsAssumption, FS_Subset DEF LinesOf

-----------------------------------------------------------------------------
(* Taking a quantity from lines.                                           *)

LEMMA TakenOfLine ==
  ASSUME NEW want \in Asks, NEW left \in [Lines -> Nat], NEW l \in Lines
  PROVE  /\ Before(l, left) \in Nat /\ want[ItemOf[l]] \in Nat
         /\ Take(want, left)[l] \in Nat /\ Take(want, left)[l] <= left[l]
         /\ Take(want, left)[l] = 0 \/ Take(want, left)[l] + Before(l, left) <= want[ItemOf[l]]
<1>1. Before(l, left) \in Nat
  BY LinesFacts, SumNat DEF Before, LinesOf
<1>2. want[ItemOf[l]] \in Nat /\ left[l] \in Nat
  BY ReturnsAssumption DEF Asks, Items
<1>3. PICK w \in Nat : w = want[ItemOf[l]]
  BY <1>2
<1>4. PICK b \in Nat : b = Before(l, left)
  BY <1>1
<1>5. PICK m : m = Max({w - b, 0})
  OBVIOUS
<1>6. m = IF w - b >= 0 THEN w - b ELSE 0
  BY <1>5, MaxOfTwo
<1>7. Take(want, left)[l] = Min({left[l], m})
  BY <1>3, <1>4, <1>5 DEF Take
<1>8. Min({left[l], m}) = IF left[l] <= m THEN left[l] ELSE m
  BY <1>2, <1>6, MinOfTwo
<1>9. /\ Min({left[l], m}) \in Nat /\ Min({left[l], m}) <= left[l]
      /\ Min({left[l], m}) = 0 \/ Min({left[l], m}) + b <= w
  BY <1>2, <1>6, <1>8
<1> QED BY <1>1, <1>2, <1>3, <1>4, <1>7, <1>9

\* Of an item never more is taken than was asked for.
LEMMA NoMoreThanAsked ==
  ASSUME NEW want \in Asks, NEW left \in [Lines -> Nat], NEW i \in Items
  PROVE  SumFunctionOnSet(Take(want, left), LinesOf(i)) <= want[i]
<1> DEFINE t == Take(want, left)
           First(T) == \A k \in T : \A j \in LinesOf(i) : j < k => j \in T
           B == {T \in SUBSET LinesOf(i) : First(T) /\ ~(SumFunctionOnSet(t, T) <= want[i])}
<1>1. want[i] \in Nat /\ \A l \in LinesOf(i) : l \in Nat /\ l \in Lines /\ ItemOf[l] = i
  BY ReturnsAssumption DEF Asks, LinesOf
<1>2. \A l \in Lines : /\ t[l] \in Nat /\ t[l] <= left[l]
                       /\ t[l] = 0 \/ t[l] + Before(l, left) <= want[ItemOf[l]]
  BY TakenOfLine
<1> HIDE DEF t
<1>3. ASSUME B # {} PROVE FALSE
  <2>0. B \subseteq SUBSET LinesOf(i)
    OBVIOUS
  <2>1. PICK T \in B : \A x \in T : T \ {x} \notin B
    <3> HIDE DEF B
    <3> QED BY <1>3, <2>0, SmallestSet, LinesFacts
  <2>2. T # {}
    BY <1>1, <2>1, SumEmpty
  <2>3. IsFiniteSet(T) /\ T \subseteq Nat /\ T \subseteq LinesOf(i) /\ First(T)
    BY <1>1, <2>1, LinesFacts
  <2>4. PICK m \in T : \A y \in T : y <= m
    BY <2>2, <2>3, MaxOfSet
  <2> DEFINE U == T \ {m}
  <2>5. U = {k \in LinesOf(i) : k < m}
    <3>0. m \in Nat /\ \A k \in LinesOf(i) : k \in Nat /\ (k < m => k # m)
      <4>1. m \in Nat
        BY <2>3, <2>4, Zenon
      <4>2. \A k \in LinesOf(i) : k \in Nat
        BY <1>1, Zenon
      <4> HIDE DEF B, First
      <4> QED BY <4>1, <4>2
    <3>1. \A k \in LinesOf(i) : k < m => k \in T /\ k # m
      BY <2>3, <2>4, <3>0
    <3>2. \A k \in U : k \in LinesOf(i) /\ k < m
      BY <2>3, <2>4
    <3>3. \A k \in LinesOf(i) : k < m => k \in U
      BY <3>1
    <3> HIDE DEF U
    <3> QED BY <3>2, <3>3
  <2>6. U \in SUBSET LinesOf(i) /\ First(U) /\ IsFiniteSet(U)
    BY <1>1, <2>3, <2>4, <2>5, LinesFacts
  <2>7. SumFunctionOnSet(t, U) <= want[i]
    BY <2>1, <2>4, <2>6
  <2>8. SumFunctionOnSet(t, T) = SumFunctionOnSet(t, U) + t[m]
    BY <1>1, <1>2, <2>3, <2>4, SumSplit
  <2>9. Before(m, left) = SumFunctionOnSet(left, U)
    BY <1>1, <2>3, <2>4, <2>5 DEF Before
  <2>10. \A l \in U : left[l] \in Nat /\ t[l] \in Nat /\ t[l] <= left[l]
    BY <1>1, <1>2, <2>6
  <2>11. SumFunctionOnSet(t, U) <= SumFunctionOnSet(left, U)
    BY <2>6, <2>10, SumLeq
  <2>12. SumFunctionOnSet(t, U) \in Nat /\ SumFunctionOnSet(left, U) \in Nat
    BY <2>6, <2>10, SumNat
  <2>13. t[m] \in Nat /\ (t[m] = 0 \/ t[m] + SumFunctionOnSet(left, U) <= want[i])
    BY <1>1, <1>2, <2>3, <2>4, <2>9
  <2>14. ~(SumFunctionOnSet(t, T) <= want[i])
    BY <2>1
  <2> HIDE DEF U
  <2> QED BY <1>1, <2>7, <2>8, <2>11, <2>12, <2>13, <2>14
<1>4. LinesOf(i) \notin B
  BY <1>3
<1> QED BY <1>4 DEF t

-----------------------------------------------------------------------------
(* What the posted returns took from the lines.                            *)

LEMMA ReturnedFacts ==
  ASSUME ReturnsTypeOK, NEW l \in Lines
  PROVE  /\ IsFiniteSet(PostedReturns) /\ Returned(l) \in Nat
         /\ \A c \in PostedReturns : c \in ReturnIds /\ credit[c].qty[l] \in Nat
<1>1. IsFiniteSet(PostedReturns) /\ PostedReturns \subseteq ReturnIds
  BY ReturnsAssumption, FS_Subset DEF PostedReturns
<1>2. \A c \in PostedReturns : credit[c].qty[l] \in Nat
  BY DEF PostedReturns, ReturnsTypeOK, ReturnDoc
<1>3. \A c \in PostedReturns : [d \in PostedReturns |-> credit[d].qty[l]][c] \in Nat
  BY <1>2
<1> QED BY <1>1, <1>2, <1>3, SumNat DEF Returned

LEMMA ReturnedNat == ReturnsTypeOK => \A l \in Lines : Returned(l) \in Nat
BY ReturnedFacts

LEMMA ReturnedNext == ReturnsTypeOK' => (\A l \in Lines : Returned(l) \in Nat)'
BY ReturnedNat, PTL

LEMMA LeftFacts ==
  ASSUME ReturnsTypeOK, NEW l \in Lines, Returned(l) <= Sold[l]
  PROVE  Left[l] \in Nat /\ Left[l] = Sold[l] - Returned(l)
<1>1. Sold[l] \in Nat /\ Returned(l) \in Nat
  BY ReturnsAssumption, ReturnedFacts
<1>2. Left[l] = Max({Sold[l] - Returned(l), 0})
  BY DEF Left
<1> QED BY <1>1, <1>2, MaxOfTwo

LEMMA LeftSame ==
  ASSUME credit' = credit
  PROVE  /\ Left' = Left /\ \A l \in Lines : Returned(l)' = Returned(l)
BY DEF Left, Returned, PostedReturns

\* A return is posted.
LEMMA ReturnedMore ==
  ASSUME ReturnsTypeOK, NEW c \in ReturnIds, credit[c] = None, NEW d \in ReturnDoc,
         d.status = "posted", credit' = [credit EXCEPT ![c] = d], NEW l \in Lines
  PROVE  Returned(l)' = Returned(l) + d.qty[l]
<1> DEFINE f == [k \in PostedReturns |-> credit[k].qty[l]]
           g == [k \in PostedReturns' |-> credit'[k].qty[l]]
<1>1. credit'[c] = d /\ \A k \in ReturnIds \ {c} : credit'[k] = credit[k]
  BY DEF ReturnsTypeOK
<1>2. c \notin PostedReturns /\ PostedReturns' = PostedReturns \cup {c}
  BY <1>1, ReturnAssumption DEF PostedReturns
<1>3. IsFiniteSet(PostedReturns) /\ \A k \in PostedReturns : f[k] \in Nat /\ g[k] = f[k]
  BY <1>1, <1>2, ReturnedFacts
<1>4. g[c] = d.qty[l] /\ d.qty[l] \in Nat
  BY <1>1, <1>2 DEF ReturnDoc
<1>5. Returned(l) = SumFunctionOnSet(f, PostedReturns)
      /\ Returned(l)' = SumFunctionOnSet(g, PostedReturns')
  BY DEF Returned
<1> HIDE DEF f, g
<1>6. SumFunctionOnSet(g, PostedReturns \cup {c}) = SumFunctionOnSet(g, PostedReturns) + g[c]
  BY <1>2, <1>3, <1>4, SumAdd
<1>7. SumFunctionOnSet(g, PostedReturns) = SumFunctionOnSet(f, PostedReturns)
  BY <1>3, SumSame
<1> QED BY <1>2, <1>4, <1>5, <1>6, <1>7

\* A return is cancelled.
LEMMA ReturnedLess ==
  ASSUME ReturnsTypeOK, NEW c \in PostedReturns,
         credit' = [credit EXCEPT ![c].status = "cancelled"], NEW l \in Lines
  PROVE  Returned(l)' <= Returned(l)
<1> DEFINE f == [k \in PostedReturns |-> credit[k].qty[l]]
           g == [k \in PostedReturns' |-> credit'[k].qty[l]]
<1>1. c \in ReturnIds /\ credit[c] \in ReturnDoc
  BY DEF ReturnsTypeOK, PostedReturns
<1>2. PICK d : d = [credit[c] EXCEPT !.status = "cancelled"]
  OBVIOUS
<1>3. d \in ReturnDoc /\ d.status = "cancelled"
  BY <1>1, <1>2 DEF ReturnDoc
<1>4. credit'[c] = d /\ \A k \in ReturnIds \ {c} : credit'[k] = credit[k]
  BY <1>1, <1>2 DEF ReturnsTypeOK
<1>5. PostedReturns' \subseteq PostedReturns \ {c}
  BY <1>3, <1>4 DEF PostedReturns
<1>6. IsFiniteSet(PostedReturns) /\ \A k \in PostedReturns : f[k] \in Nat
  BY ReturnedFacts
<1>7. \A k \in PostedReturns' : g[k] = f[k] /\ f[k] \in Nat
  BY <1>4, <1>5, <1>6, ReturnedFacts
<1>8. Returned(l) = SumFunctionOnSet(f, PostedReturns)
      /\ Returned(l)' = SumFunctionOnSet(g, PostedReturns')
  BY DEF Returned
<1> HIDE DEF f, g
<1>9. PostedReturns' \subseteq PostedReturns /\ \A k \in PostedReturns' : g[k] \in Nat /\ g[k] <= f[k]
  BY <1>5, <1>7
<1>10. SumFunctionOnSet(g, PostedReturns') <= SumFunctionOnSet(f, PostedReturns)
  BY <1>6, <1>9, SumLeq
<1> QED BY <1>8, <1>10

-----------------------------------------------------------------------------
(* The steps.                                                              *)

\* Steps that post or cancel nothing.
LEMMA QuietReturns ==
  ASSUME ReturnsInv, credit' = credit, answered' \subseteq ReturnIds,
         call' \in [Requests -> ReturnCalls],
         \A c \in answered' \ answered : credit[c] # None /\ credit[c].status # "draft",
         \A r \in Requests :
           call'[r].op = "return" /\ r \in Requests /\ "stock" \notin stale'[r] =>
             \/ call'[r] = call[r] /\ "stock" \notin stale[r]
             \/ call'[r].left = Left
  PROVE  ReturnsInv'
<1>1. ReturnsTypeOK'
  BY DEF ReturnsInv, ReturnsTypeOK
<1>2. LeftFits'
  BY LeftSame DEF LeftFits, ReturnsInv, Fresh
<1>3. ReturnedAsAsked'
  BY LeftSame DEF ReturnedAsAsked, ReturnsInv
<1> QED BY <1>1, <1>2, <1>3 DEF ReturnsInv

LEMMA InitReturns == BackendInit /\ ReturnsInit => ReturnsInv
<1> SUFFICES ASSUME BackendInit, ReturnsInit PROVE ReturnsInv
  OBVIOUS
<1>1. call \in [Requests -> ReturnCalls] /\ \A r \in Requests : call[r].op = "none"
  BY DEF BackendInit, ReturnCalls, Idle
<1>2. ReturnsTypeOK /\ LeftFits
  BY <1>1 DEF ReturnsInit, ReturnsTypeOK, LeftFits
<1>3. PostedReturns = {}
  BY DEF ReturnsInit, PostedReturns
<1>4. \A l \in Lines : Returned(l) <= Sold[l]
  BY <1>3, SumEmpty, ReturnsAssumption DEF Returned
<1>5. ReturnedAsAsked
  BY <1>4 DEF ReturnsInit, ReturnedAsAsked
<1> QED BY <1>1, <1>2, <1>5 DEF ReturnsInv, ReturnsInit

LEMMA LoadKeepsReturns ==
  ASSUME ReturnsInv, NEW r \in Requests, NEW c \in ReturnIds, NEW want \in Asks,
         LoadReturn(r, c, want)
  PROVE  ReturnsInv'
<1>1. PICK e : e = [op |-> "return", id |-> c, want |-> want, left |-> Left]
  OBVIOUS
<1>2. Left \in [Lines -> Nat]
  BY LeftFacts DEF ReturnsInv, ReturnedAsAsked, Left
<1>3. e \in ReturnCalls /\ e.left = Left
  BY <1>1, <1>2 DEF ReturnCalls
<1>4. call' = [call EXCEPT ![r] = e] /\ stale' = stale /\ credit' = credit /\ answered' = answered
  BY <1>1 DEF LoadReturn, Load, returnsVars
<1>5. call' \in [Requests -> ReturnCalls] /\ \A q \in Requests : call'[q] = call[q] \/ call'[q] = e
  BY <1>3, <1>4 DEF ReturnsInv
<1> QED BY <1>3, <1>4, <1>5, QuietReturns DEF ReturnsInv, ReturnsTypeOK

LEMMA EndKeepsReturns ==
  ASSUME ReturnsInv, NEW r \in Requests, Done(r, {}), credit' = credit,
         answered' = answered \/ \E c \in ReturnIds :
            answered' = answered \cup {c} /\ credit[c] # None
  PROVE  ReturnsInv'
<1>1. /\ call' \in [Requests -> ReturnCalls]
      /\ \A q \in Requests : call'[q].op = "return" /\ "stock" \notin stale'[q] =>
           call'[q] = call[q] /\ "stock" \notin stale[q]
  BY ReturnCall DEF ReturnsInv, Done, Commit
<1>2. \A c \in answered' \ answered : credit[c] # None /\ credit[c].status # "draft"
  BY DEF ReturnsInv
<1> QED BY <1>1, <1>2, QuietReturns DEF ReturnsInv, ReturnsTypeOK

\* The return is posted: with a consistent snapshot it takes what is left.
LEMMA PostKeepsReturns ==
  ASSUME SnapshotIsolation, ReturnsInv, NEW r \in Requests, PostReturn(r)
  PROVE  ReturnsInv'
<1>1. PICK c : c = call[r].id
  OBVIOUS
<1>2. PICK want : want = call[r].want
  OBVIOUS
<1>3. PICK left : left = call[r].left
  OBVIOUS
<1>4. PICK d : d = [status |-> "posted", qty |-> Take(want, left), asked |-> want]
  OBVIOUS
<1>5. /\ c \in ReturnIds /\ want \in Asks /\ left \in [Lines -> Nat] /\ left = Left
      /\ credit[c] = None /\ AllPlaced(want, Take(want, left))
      /\ credit' = [credit EXCEPT ![c] = d] /\ answered' = answered \cup {c}
      /\ Done(r, {"stock"})
  BY <1>1, <1>2, <1>3, <1>4, ReturnCall DEF PostReturn, ReturnsInv, LeftFits
<1>6. Take(want, left) \in [Lines -> Nat]
  BY <1>5, TakenOfLine DEF Take
<1>7. d \in ReturnDoc /\ d.status = "posted" /\ d.qty = Take(want, left) /\ d.asked = want
  BY <1>4, <1>5, <1>6 DEF ReturnDoc
<1>8. credit'[c] = d /\ d # None /\ \A k \in ReturnIds \ {c} : credit'[k] = credit[k]
  BY <1>5, <1>7, ReturnAssumption DEF ReturnsInv, ReturnsTypeOK
<1>9. ReturnsTypeOK'
  BY <1>5, <1>7 DEF ReturnsInv, ReturnsTypeOK
<1>10. /\ call' \in [Requests -> ReturnCalls]
       /\ \A q \in Requests : call'[q].op = "return" => "stock" \in stale'[q]
  BY <1>5, ReturnCall DEF ReturnsInv, Done, Commit
<1>11. LeftFits'
  BY <1>10 DEF LeftFits, Fresh
<1>12. \A i \in Items : SumFunctionOnSet(d.qty, LinesOf(i)) = d.asked[i]
  <2> SUFFICES ASSUME NEW i \in Items
               PROVE  SumFunctionOnSet(Take(want, left), LinesOf(i)) = want[i]
    BY <1>7
  <2>1. SumFunctionOnSet(Take(want, left), LinesOf(i)) >= want[i]
    BY <1>5 DEF AllPlaced
  <2>2. SumFunctionOnSet(Take(want, left), LinesOf(i)) <= want[i]
    BY <1>5, NoMoreThanAsked
  <2>3. SumFunctionOnSet(Take(want, left), LinesOf(i)) \in Nat /\ want[i] \in Nat
    BY <1>5, <1>6, LinesFacts, SumNat DEF Asks
  <2> QED BY <2>1, <2>2, <2>3
<1>13. ASSUME NEW l \in Lines PROVE Returned(l)' <= Sold[l]
  <2>1. Returned(l)' = Returned(l) + Take(want, left)[l]
    BY <1>5, <1>7, ReturnedMore DEF ReturnsInv
  <2>2. Take(want, left)[l] \in Nat /\ Take(want, left)[l] <= Left[l]
    BY <1>5, TakenOfLine
  <2>3. Returned(l) \in Nat /\ Sold[l] \in Nat /\ Left[l] = Sold[l] - Returned(l)
    BY LeftFacts, ReturnedFacts, ReturnsAssumption DEF ReturnsInv, ReturnedAsAsked
  <2> QED BY <2>1, <2>2, <2>3
<1>14. \A k \in ReturnIds : credit'[k] # None =>
         /\ credit'[k].status # "draft"
         /\ \A i \in Items : SumFunctionOnSet(credit'[k].qty, LinesOf(i)) = credit'[k].asked[i]
  BY <1>7, <1>8, <1>12 DEF ReturnsInv, ReturnedAsAsked
<1>15. \A k \in answered' : credit'[k] # None /\ credit'[k].status # "draft"
  BY <1>5, <1>7, <1>8 DEF ReturnsInv, ReturnsTypeOK, ReturnedAsAsked
<1>16. ReturnedAsAsked'
  BY <1>13, <1>14, <1>15 DEF ReturnedAsAsked
<1> QED BY <1>9, <1>10, <1>11, <1>14, <1>16 DEF ReturnsInv

LEMMA CancelKeepsReturns ==
  ASSUME ReturnsInv, NEW c \in ReturnIds, CancelReturn(c)
  PROVE  ReturnsInv'
<1>1. c \in PostedReturns /\ credit[c] \in ReturnDoc /\ credit[c] # None
  BY DEF CancelReturn, PostedReturns, ReturnsInv, ReturnsTypeOK
<1>2. PICK d : d = [credit[c] EXCEPT !.status = "cancelled"]
  OBVIOUS
<1>3. d \in ReturnDoc /\ d.status = "cancelled" /\ d.qty = credit[c].qty /\ d.asked = credit[c].asked
  BY <1>1, <1>2 DEF ReturnDoc
<1>4. credit' = [credit EXCEPT ![c] = d] /\ answered' = answered /\ call' = call
  BY <1>2 DEF CancelReturn
<1>5. credit'[c] = d /\ \A k \in ReturnIds \ {c} : credit'[k] = credit[k]
  BY <1>4 DEF ReturnsInv, ReturnsTypeOK
<1>6. ReturnsTypeOK' /\ call' \in [Requests -> ReturnCalls]
  BY <1>3, <1>4 DEF ReturnsInv, ReturnsTypeOK
<1>7. \A q \in Requests : call'[q].op = "return" => "stock" \in stale'[q]
  BY <1>4, ReturnCall DEF CancelReturn, ReturnsInv
<1>8. LeftFits'
  BY <1>7 DEF LeftFits, Fresh
<1>9. ASSUME NEW l \in Lines PROVE Returned(l)' <= Sold[l]
  <2>1. Returned(l)' <= Returned(l)
    BY <1>1, ReturnedLess DEF ReturnsInv, CancelReturn
  <2>2. Returned(l) \in Nat /\ Sold[l] \in Nat /\ Returned(l) <= Sold[l]
    BY ReturnedFacts, ReturnsAssumption DEF ReturnsInv, ReturnedAsAsked
  <2>3. Returned(l)' \in Nat
    BY <1>6, ReturnedNext
  <2> QED BY <2>1, <2>2, <2>3
<1>10. \A k \in ReturnIds : credit'[k] # None =>
         /\ credit'[k].status # "draft"
         /\ \A i \in Items : SumFunctionOnSet(credit'[k].qty, LinesOf(i)) = credit'[k].asked[i]
  BY <1>1, <1>3, <1>5 DEF ReturnsInv, ReturnedAsAsked
<1>11. \A k \in answered' : credit'[k] # None /\ credit'[k].status # "draft"
  BY <1>3, <1>4, <1>5, ReturnAssumption DEF ReturnsInv, ReturnsTypeOK, ReturnedAsAsked
<1>12. ReturnedAsAsked'
  BY <1>9, <1>10, <1>11 DEF ReturnedAsAsked
<1> QED BY <1>6, <1>8, <1>10, <1>12 DEF ReturnsInv

LEMMA StepKeepsReturns ==
  ASSUME SnapshotIsolation, ReturnsInv, [ReturnsNext]_<<backendVars, returnsVars>>
  PROVE  ReturnsInv'
<1>1. CASE UNCHANGED <<backendVars, returnsVars>>
  BY <1>1, QuietReturns DEF backendVars, returnsVars, ReturnsInv, ReturnsTypeOK
<1>2. ASSUME NEW r \in Requests, NEW c \in ReturnIds, NEW want \in Asks,
             OfficeReturn(r, c, want) \/ VanReturn(r, c, want)
      PROVE  ReturnsInv'
  BY <1>2, LoadKeepsReturns DEF OfficeReturn, VanReturn
<1>3. ASSUME NEW r \in Requests, LoseReturn(r) \/ RefuseReturn(r)
      PROVE  ReturnsInv'
  BY <1>3, EndKeepsReturns, ReturnCall DEF LoseReturn, RefuseReturn, returnsVars, ReturnsInv
<1>4. ASSUME NEW c \in ReturnIds, AnswerReplay(c)
      PROVE  ReturnsInv'
  <2>1. /\ call' = call /\ stale' = stale /\ credit' = credit /\ answered' = answered \cup {c}
        /\ credit[c] # None /\ credit[c].status # "draft"
    BY <1>4 DEF AnswerReplay, backendVars, ReturnsInv
  <2> QED BY <2>1, QuietReturns DEF ReturnsInv, ReturnsTypeOK
<1> QED BY <1>1, <1>2, <1>3, <1>4, PostKeepsReturns, CancelKeepsReturns DEF ReturnsNext

\* With a consistent snapshot an "ok" stands for a return that was posted, every
\* return credits of each item what was asked of it however many lines carry the
\* item, and no line is returned beyond what was sold on it
\* (_apply_return_qtys, submit_or_rollback, ERPNext's make_return_doc).
THEOREM ReturnsAreAsAsked ==
  ASSUME SnapshotIsolation PROVE ReturnsSpec => []ReturnedAsAsked
<1>1. ReturnsInv /\ [ReturnsNext]_<<backendVars, returnsVars>> => ReturnsInv'
  BY StepKeepsReturns
<1>2. ReturnsInv => ReturnedAsAsked
  BY DEF ReturnsInv
<1> QED BY <1>1, <1>2, InitReturns, PTL DEF ReturnsSpec

-----------------------------------------------------------------------------
(* Returns implements OneDocument, on any database.                        *)

\* What a return stands for is posted with it.
CreditsInv ==
  /\ ReturnsTypeOK
  /\ call \in [Requests -> ReturnCalls]
  /\ \A c \in ReturnIds : credit[c] # None => credit[c].status # "draft"

LEMMA LeftIsNat == ReturnsTypeOK => Left \in [Lines -> Nat]
<1> SUFFICES ASSUME ReturnsTypeOK, NEW l \in Lines PROVE Left[l] \in Nat
  BY DEF Left
<1>1. PICK x : x = Returned(l)
  OBVIOUS
<1>2. PICK s : s = Sold[l]
  OBVIOUS
<1>3. x \in Nat /\ s \in Nat
  BY <1>1, <1>2, ReturnedNat, ReturnsAssumption
<1>4. Max({s - x, 0}) = IF s - x >= 0 THEN s - x ELSE 0
  BY <1>3, MaxOfTwo
<1>5. Left[l] = Max({s - x, 0})
  BY <1>1, <1>2 DEF Left
<1> QED BY <1>3, <1>4, <1>5

\* The document a request posts.
LEMMA PostedCredit ==
  ASSUME CreditsInv, NEW r \in Requests, PostReturn(r)
  PROVE  \E c \in ReturnIds, d \in ReturnDoc :
           /\ credit[c] = None /\ d.status = "posted"
           /\ credit' = [credit EXCEPT ![c] = d]
           /\ answered' = answered \cup {c}
<1>1. PICK c : c = call[r].id
  OBVIOUS
<1>2. PICK want : want = call[r].want
  OBVIOUS
<1>3. PICK left : left = call[r].left
  OBVIOUS
<1>4. PICK d : d = [status |-> "posted", qty |-> Take(want, left), asked |-> want]
  OBVIOUS
<1>5. /\ c \in ReturnIds /\ want \in Asks /\ left \in [Lines -> Nat]
      /\ credit[c] = None /\ credit' = [credit EXCEPT ![c] = d]
      /\ answered' = answered \cup {c}
  BY <1>1, <1>2, <1>3, <1>4, ReturnCall DEF PostReturn, CreditsInv
<1>6. Take(want, left) \in [Lines -> Nat]
  BY <1>5, TakenOfLine DEF Take
<1>7. d \in ReturnDoc /\ d.status = "posted"
  BY <1>4, <1>5, <1>6 DEF ReturnDoc
<1> QED BY <1>5, <1>7

LEMMA CancelledCredit ==
  ASSUME CreditsInv, NEW c \in ReturnIds, CancelReturn(c)
  PROVE  /\ credit[c] # None
         /\ \E d \in ReturnDoc :
              /\ d.status = "cancelled" /\ d.asked = credit[c].asked
              /\ credit' = [credit EXCEPT ![c] = d]
         /\ answered' = answered /\ call' = call
<1>1. credit[c] \in ReturnDoc /\ credit[c] # None
  BY DEF CancelReturn, PostedReturns, CreditsInv, ReturnsTypeOK
<1>2. PICK d : d = [credit[c] EXCEPT !.status = "cancelled"]
  OBVIOUS
<1>3. d \in ReturnDoc /\ d.status = "cancelled" /\ d.asked = credit[c].asked
  BY <1>1, <1>2 DEF ReturnDoc
<1> QED BY <1>1, <1>2, <1>3 DEF CancelReturn

LEMMA InitCredits == BackendInit /\ ReturnsInit => CreditsInv
BY InitReturns DEF CreditsInv, ReturnsInv

LEMMA StepKeepsCredits ==
  CreditsInv /\ [ReturnsNext]_<<backendVars, returnsVars>> => CreditsInv'
<1> SUFFICES ASSUME CreditsInv, [ReturnsNext]_<<backendVars, returnsVars>>
             PROVE  CreditsInv'
  OBVIOUS
<1>1. /\ credit \in [ReturnIds -> {None} \cup ReturnDoc] /\ answered \subseteq ReturnIds
      /\ call \in [Requests -> ReturnCalls] /\ Idle \in ReturnCalls
  BY DEF CreditsInv, ReturnsTypeOK, ReturnCalls
<1>2. CASE UNCHANGED <<backendVars, returnsVars>>
  BY <1>2 DEF backendVars, returnsVars, CreditsInv, ReturnsTypeOK
<1>3. ASSUME NEW r \in Requests, NEW c \in ReturnIds, NEW want \in Asks,
             OfficeReturn(r, c, want) \/ VanReturn(r, c, want)
      PROVE  CreditsInv'
  <2>1. PICK e : e = [op |-> "return", id |-> c, want |-> want, left |-> Left]
    OBVIOUS
  <2>2. e \in ReturnCalls
    BY <2>1, LeftIsNat DEF ReturnCalls, CreditsInv
  <2>3. call' = [call EXCEPT ![r] = e] /\ credit' = credit /\ answered' = answered
    BY <1>3, <2>1 DEF OfficeReturn, VanReturn, LoadReturn, Load, returnsVars
  <2> QED BY <1>1, <2>2, <2>3 DEF CreditsInv, ReturnsTypeOK
<1>4. ASSUME NEW r \in Requests, PostReturn(r)
      PROVE  CreditsInv'
  <2>1. PICK c \in ReturnIds, d \in ReturnDoc :
          /\ d.status = "posted" /\ credit' = [credit EXCEPT ![c] = d]
          /\ answered' = answered \cup {c}
    BY <1>4, PostedCredit
  <2>2. call' \in [Requests -> ReturnCalls]
    BY <1>1, <1>4 DEF PostReturn, Done, Commit
  <2>3. credit'[c] = d /\ \A x \in ReturnIds \ {c} : credit'[x] = credit[x]
    BY <1>1, <2>1
  <2>4. ReturnsTypeOK'
    BY <1>1, <2>1 DEF ReturnsTypeOK
  <2> QED BY <2>1, <2>2, <2>3, <2>4 DEF CreditsInv
<1>5. ASSUME NEW r \in Requests, LoseReturn(r) \/ RefuseReturn(r)
      PROVE  CreditsInv'
  <2>1. /\ call' = [call EXCEPT ![r] = Idle] /\ credit' = credit
        /\ answered' \subseteq ReturnIds
    BY <1>1, <1>5, ReturnCall DEF LoseReturn, RefuseReturn, Done, Commit, returnsVars
  <2> QED BY <1>1, <2>1 DEF CreditsInv, ReturnsTypeOK
<1>6. ASSUME NEW c \in ReturnIds, AnswerReplay(c)
      PROVE  CreditsInv'
  BY <1>1, <1>6 DEF AnswerReplay, backendVars, CreditsInv, ReturnsTypeOK
<1>7. ASSUME NEW c \in ReturnIds, CancelReturn(c)
      PROVE  CreditsInv'
  <2>1. PICK d \in ReturnDoc : d.status = "cancelled" /\ credit' = [credit EXCEPT ![c] = d]
    BY <1>7, CancelledCredit
  <2>2. answered' = answered /\ call' = call
    BY <1>7, CancelledCredit
  <2>3. credit'[c] = d /\ \A x \in ReturnIds \ {c} : credit'[x] = credit[x]
    BY <1>1, <2>1
  <2>4. ReturnsTypeOK'
    BY <1>1, <2>1, <2>2 DEF ReturnsTypeOK
  <2> QED BY <2>1, <2>2, <2>3, <2>4 DEF CreditsInv
<1> QED BY <1>2, <1>3, <1>4, <1>5, <1>6, <1>7 DEF ReturnsNext

LEMMA ReturnsTypes ==
  /\ BackendInit /\ ReturnsInit => ReturnsTypeOK
  /\ ReturnsSpec => []ReturnsTypeOK
<1>1. CreditsInv => ReturnsTypeOK
  BY DEF CreditsInv
<1> QED BY <1>1, InitCredits, StepKeepsCredits, PTL DEF ReturnsSpec

\* What has been answered is told, to OneDocument.
LEMMA AnsweredIsTold ==
  ASSUME NEW c, answered' = answered \cup {c}
  PROVE  {<<x, x>> : x \in answered'} = {<<x, x>> : x \in answered} \cup {<<c, c>>}
OBVIOUS

\* The three ways in which a step may concern a client id.
LEMMA KeepsCredits ==
  ASSUME NEW c \in ReturnIds,
         \A x \in ReturnIds \ {c} : credit'[x] = credit[x],
         \/ /\ credit[c] = None /\ credit'[c] # None /\ credit'[c].asked \in Asks
            /\ credit'[c].status = "posted" /\ answered' = answered \cup {c}
         \/ /\ credit' = credit /\ credit[c] # None /\ credit[c].asked \in Asks
            /\ credit[c].status # "draft" /\ answered' = answered \cup {c}
         \/ /\ credit[c] # None /\ credit'[c] # None /\ credit'[c].asked = credit[c].asked
            /\ credit[c].status # "draft" /\ credit'[c].status = "cancelled"
            /\ answered' = answered
  PROVE  Credits!PromiseNext
<1> DEFINE made == [x \in ReturnIds |-> IF credit[x] # None THEN {credit[x].asked} ELSE {}]
           done == {x \in ReturnIds : credit[x] # None /\ credit[x].status # "draft"}
           undone == {x \in ReturnIds : credit[x] # None /\ credit[x].status = "cancelled"}
           said == {<<x, x>> : x \in answered}
<1>1. \A x \in ReturnIds \ {c} :
         /\ made'[x] = made[x]
         /\ x \in done' <=> x \in done
         /\ x \in undone' <=> x \in undone
  OBVIOUS
<1>2. CASE /\ credit[c] = None /\ credit'[c] # None /\ credit'[c].asked \in Asks
           /\ credit'[c].status = "posted" /\ answered' = answered \cup {c}
  <2>1. made[c] = {} /\ made' = [made EXCEPT ![c] = {credit'[c].asked}]
    BY <1>1, <1>2
  <2>2. done' = done \cup {c} /\ undone' = undone
    BY <1>1, <1>2
  <2>3. Credits!Make(c)
    BY <1>2, <2>1, <2>2 DEF Credits!Make
  <2>4. c \in done' /\ credit'[c].asked \in made'[c]
    BY <1>2, <2>1, <2>2
  <2>5. said' = said \cup {<<c, c>>}
    BY <1>2, AnsweredIsTold
  <2>6. <<c, credit'[c].asked>> \in ReturnIds \X Asks
    BY <1>2
  <2>7. Credits!Tell(c)
    BY <2>4, <2>5, <2>6 DEF Credits!Tell
  <2>8. Credits!Serve(c)
    BY <2>2, <2>3, <2>7 DEF Credits!Serve
  <2> QED BY <2>8 DEF Credits!PromiseNext
<1>3. CASE /\ credit' = credit /\ credit[c] # None /\ credit[c].asked \in Asks
           /\ credit[c].status # "draft" /\ answered' = answered \cup {c}
  <2>1. made' = made /\ done' = done /\ undone' = undone
    BY <1>3
  <2>2. c \in done' /\ credit[c].asked \in made'[c]
    BY <1>3
  <2>3. said' = said \cup {<<c, c>>}
    BY <1>3, AnsweredIsTold
  <2>4. <<c, credit[c].asked>> \in ReturnIds \X Asks
    BY <1>3
  <2>5. Credits!Tell(c)
    BY <2>2, <2>3, <2>4 DEF Credits!Tell
  <2>6. Credits!Serve(c)
    BY <2>1, <2>5 DEF Credits!Serve
  <2> QED BY <2>6 DEF Credits!PromiseNext
<1>4. CASE /\ credit[c] # None /\ credit'[c] # None /\ credit'[c].asked = credit[c].asked
           /\ credit[c].status # "draft" /\ credit'[c].status = "cancelled"
           /\ answered' = answered
  <2>1. made' = made /\ made[c] # {}
    BY <1>1, <1>4
  <2>2. done' = done /\ undone' = undone \cup {c} /\ said' = said
    BY <1>1, <1>4
  <2>3. Credits!Undo(c)
    BY <2>1, <2>2 DEF Credits!Undo
  <2> QED BY <2>3 DEF Credits!PromiseNext
<1> QED BY <1>2, <1>3, <1>4

LEMMA CreditsStep ==
  CreditsInv /\ [ReturnsNext]_<<backendVars, returnsVars>>
    => [Credits!PromiseNext]_(Credits!promiseVars)
<1> SUFFICES ASSUME CreditsInv, [ReturnsNext]_<<backendVars, returnsVars>>
             PROVE  [Credits!PromiseNext]_(Credits!promiseVars)
  OBVIOUS
<1>1. credit \in [ReturnIds -> {None} \cup ReturnDoc]
  BY DEF CreditsInv, ReturnsTypeOK
<1>2. CASE UNCHANGED returnsVars
  BY <1>2 DEF returnsVars, Credits!promiseVars
<1>3. ASSUME NEW r \in Requests, PostReturn(r)
      PROVE  Credits!PromiseNext
  <2>1. PICK c \in ReturnIds, d \in ReturnDoc :
          /\ credit[c] = None /\ d.status = "posted"
          /\ credit' = [credit EXCEPT ![c] = d] /\ answered' = answered \cup {c}
    BY <1>3, PostedCredit
  <2>2. credit'[c] = d /\ d # None /\ \A x \in ReturnIds \ {c} : credit'[x] = credit[x]
    BY <1>1, <2>1, ReturnAssumption
  <2>3. d.asked \in Asks
    BY DEF ReturnDoc
  <2> QED BY <2>1, <2>2, <2>3, KeepsCredits
<1>4. ASSUME NEW c \in ReturnIds, credit' = credit, credit[c] # None,
             answered' = answered \cup {c}
      PROVE  Credits!PromiseNext
  <2>1. credit[c].asked \in Asks /\ credit[c].status # "draft"
    BY <1>1, <1>4 DEF CreditsInv, ReturnDoc
  <2> QED BY <1>4, <2>1, KeepsCredits
<1>5. ASSUME NEW r \in Requests, LoseReturn(r)
      PROVE  Credits!PromiseNext
  <2>1. call[r].id \in ReturnIds
    BY <1>5, ReturnCall DEF LoseReturn, CreditsInv
  <2> QED BY <1>4, <1>5, <2>1 DEF LoseReturn
<1>6. ASSUME NEW c \in ReturnIds, CancelReturn(c)
      PROVE  Credits!PromiseNext
  <2>1. PICK d \in ReturnDoc : /\ d.status = "cancelled" /\ d.asked = credit[c].asked
                               /\ credit' = [credit EXCEPT ![c] = d]
    BY <1>6, CancelledCredit
  <2>2. credit[c] # None /\ answered' = answered /\ credit[c].status # "draft"
    BY <1>6, CancelledCredit DEF CreditsInv
  <2>3. credit'[c] = d /\ d # None /\ \A x \in ReturnIds \ {c} : credit'[x] = credit[x]
    BY <1>1, <2>1, ReturnAssumption
  <2> QED BY <2>1, <2>2, <2>3, KeepsCredits
<1>7. ASSUME NEW r \in Requests, NEW c \in ReturnIds, NEW want \in Asks,
             OfficeReturn(r, c, want) \/ VanReturn(r, c, want)
      PROVE  UNCHANGED returnsVars
  BY <1>7 DEF OfficeReturn, VanReturn, LoadReturn
<1>8. ASSUME NEW r \in Requests, RefuseReturn(r)
      PROVE  UNCHANGED returnsVars
  BY <1>8 DEF RefuseReturn
<1>9. ASSUME NEW c \in ReturnIds, AnswerReplay(c)
      PROVE  Credits!PromiseNext
  BY <1>4, <1>9 DEF AnswerReplay
<1> QED BY <1>2, <1>3, <1>5, <1>6, <1>7, <1>8, <1>9 DEF ReturnsNext

\* On any database, the client id of a return stands for one return, of what was
\* asked first, and "ok" is said only when it was posted (insert_idempotent,
\* submit_or_rollback).
THEOREM CreditsAreAsPromised == ReturnsSpec => CreditsKeepTheirWord
<1>1. ReturnsInit => Credits!PromiseInit
  BY DEF ReturnsInit, Credits!PromiseInit
<1> QED BY <1>1, InitCredits, StepKeepsCredits, CreditsStep, PTL
        DEF ReturnsSpec, CreditsKeepTheirWord, Credits!PromiseSpec

-----------------------------------------------------------------------------
(***************************************************************************)
(* Journal: a posted entry stands until it is cancelled.                   *)
(***************************************************************************)

JournalCalls ==
  {Idle} \cup [op : {"submit", "cancel", "delete"}, id : Vouchers]
         \cup [op : {"update"}, id : Vouchers, type : VoucherTypes, lines : LineSets]

\* What r loaded, as long as nobody has saved it since.
LoadedAs(r) ==
  call[r] # Idle /\ Fresh(r, call[r].id) =>
    Is(call[r].id, IF call[r].op = "cancel" THEN "posted" ELSE "draft")

JournalInv ==
  /\ JournalTypeOK
  /\ call \in [Requests -> JournalCalls]
  /\ \A r \in Requests : LoadedAs(r)

\* What a step may do to the entry that its request saves: a delete removes a draft
\* only where the database refuses to remove a row that moved.
EntryMoves(v) ==
  \/ ~SnapshotIsolation
  \/ voucher[v] = None
  \/ Is(v, "draft")
  \/ voucher'[v] = [voucher[v] EXCEPT !.status = "cancelled"] /\ Is(v, "posted")

LEMMA JournalCallFacts ==
  ASSUME JournalInv, NEW r \in Requests, call[r] # Idle
  PROVE  call[r].id \in Vouchers
BY DEF JournalInv, JournalCalls

LEMMA InitJournal == BackendInit /\ JournalInit => JournalInv
BY DEF BackendInit, JournalInit, JournalInv, JournalTypeOK, JournalCalls, LoadedAs

\* A request loads an entry.
LEMMA JournalLoads ==
  ASSUME JournalInv, NEW r \in Requests, NEW c \in JournalCalls, Load(r, c),
         voucher' = voucher, c # Idle,
         Is(c.id, IF c.op = "cancel" THEN "posted" ELSE "draft")
  PROVE  JournalInv'
<1>1. call' = [call EXCEPT ![r] = c] /\ stale' = stale
  BY DEF Load
<1>2. \A q \in Requests : LoadedAs(q)'
  BY <1>1 DEF JournalInv, LoadedAs, Fresh, Is
<1> QED BY <1>1, <1>2 DEF JournalInv, JournalTypeOK

\* A request saves, makes or deletes entry v, and goes on with c.
LEMMA JournalSaves ==
  ASSUME JournalInv, NEW r \in Requests, NEW v \in Vouchers, NEW c \in JournalCalls,
         NEW e \in EntryDocs \cup {None}, voucher' = [voucher EXCEPT ![v] = e],
         NEW saved, Commit(r, c, saved), v \in saved \/ voucher[v] = None,
         c # Idle => c.id = v /\ c.op # "cancel" /\ e # None /\ e.status = "draft"
  PROVE  JournalInv'
<1>1. /\ call' = [call EXCEPT ![r] = c]
      /\ stale' = [q \in Requests |->
                     IF q = r \/ call[q] = Idle THEN {} ELSE stale[q] \cup saved]
  BY DEF Commit
<1>2. /\ voucher'[v] = e
      /\ \A u \in Vouchers \ {v} : voucher'[u] = voucher[u]
  BY DEF JournalInv, JournalTypeOK
<1>3. LoadedAs(r)'
  BY <1>1, <1>2 DEF JournalInv, LoadedAs, Fresh, Is
<1>4. ASSUME NEW q \in Requests \ {r} PROVE LoadedAs(q)'
  <2> SUFFICES ASSUME call[q] # Idle, call[q].id \notin stale'[q]
               PROVE  Is(call[q].id, IF call[q].op = "cancel" THEN "posted" ELSE "draft")'
    BY <1>1 DEF JournalInv, LoadedAs, Fresh, Is
  <2>1. call[q].id \in Vouchers /\ call[q].id \notin stale[q] /\ call[q].id \notin saved
    BY <1>1, JournalCallFacts
  <2>2. Is(call[q].id, IF call[q].op = "cancel" THEN "posted" ELSE "draft")
    BY <2>1 DEF JournalInv, LoadedAs, Fresh
  <2>3. call[q].id # v
    BY <2>1, <2>2 DEF Is
  <2> QED BY <1>1, <1>2, <2>1, <2>2, <2>3 DEF Is
<1>5. JournalTypeOK'
  BY DEF JournalInv, JournalTypeOK, EntryDocs
<1> QED BY <1>1, <1>3, <1>4, <1>5 DEF JournalInv

LEMMA CreateKeepsJournal ==
  ASSUME JournalInv, NEW r \in Requests, NEW v \in Vouchers, NEW type \in VoucherTypes,
         NEW lines \in LineSets, CreateEntry(r, v, type, lines)
  PROVE  JournalInv' /\ \A u \in Vouchers : voucher'[u] = voucher[u] \/ EntryMoves(u)
<1>1. Entry("draft", type, lines) \in EntryDocs
  BY DEF Entry, EntryDocs
<1>2. /\ [op |-> "submit", id |-> v] \in JournalCalls
      /\ Entry("draft", type, lines) # None /\ Entry("draft", type, lines).status = "draft"
  BY <1>1, EntryAssumption DEF JournalCalls, Entry
<1>3. JournalInv'
  BY <1>1, <1>2, JournalSaves DEF CreateEntry
<1>4. \A u \in Vouchers : voucher'[u] = voucher[u] \/ EntryMoves(u)
  BY DEF CreateEntry, JournalInv, JournalTypeOK, EntryMoves
<1> QED BY <1>3, <1>4

LEMMA SaveKeepsJournal ==
  ASSUME JournalInv, NEW r \in Requests, SaveEntry(r)
  PROVE  JournalInv' /\ \A u \in Vouchers : voucher'[u] = voucher[u] \/ EntryMoves(u)
<1> DEFINE cl == call[r]
           v == cl.id
<1>1. cl # Idle /\ v \in Vouchers /\ voucher[v] \in EntryDocs
  BY DEF SaveEntry, JournalInv, JournalTypeOK, JournalCalls, EntryDocs, Idle
<1>2. Saved(cl) \in EntryDocs
  <2>1. CASE cl.op = "submit"
    BY <1>1, <2>1 DEF Saved, EntryDocs
  <2>2. CASE cl.op = "cancel"
    BY <1>1, <2>2 DEF Saved, EntryDocs
  <2>3. CASE cl.op = "update"
    BY <2>3 DEF Saved, EntryDocs, Entry, JournalInv, JournalCalls, Idle
  <2> QED BY <2>1, <2>2, <2>3 DEF SaveEntry
<1>3. voucher' = [voucher EXCEPT ![v] = Saved(cl)] /\ Commit(r, Idle, {v}) /\ Fresh(r, v)
  BY DEF SaveEntry, Done
<1>4. JournalInv'
  BY <1>1, <1>2, <1>3, JournalSaves DEF JournalCalls
<1>5. Is(v, IF cl.op = "cancel" THEN "posted" ELSE "draft")
  BY <1>1, <1>3 DEF JournalInv, LoadedAs
<1>6. voucher'[v] = Saved(cl) /\ \A u \in Vouchers \ {v} : voucher'[u] = voucher[u]
  BY <1>1, <1>3 DEF JournalInv, JournalTypeOK
<1>7. EntryMoves(v)
  <2>1. CASE cl.op = "cancel"
    BY <1>5, <1>6, <2>1 DEF EntryMoves, Saved
  <2>2. CASE cl.op # "cancel"
    BY <1>5, <2>2 DEF EntryMoves
  <2> QED BY <2>1, <2>2
<1> QED BY <1>4, <1>6, <1>7

LEMMA DeleteKeepsJournal ==
  ASSUME JournalInv, NEW r \in Requests, DeleteEntry(r)
  PROVE  JournalInv' /\ \A u \in Vouchers : voucher'[u] = voucher[u] \/ EntryMoves(u)
<1> DEFINE v == call[r].id
<1>1. call[r] # Idle /\ v \in Vouchers
  BY JournalCallFacts DEF DeleteEntry, Idle
<1>2. /\ voucher' = [voucher EXCEPT ![v] = None] /\ Commit(r, Idle, {v})
      /\ SnapshotIsolation => Is(v, "draft")
  BY <1>1 DEF DeleteEntry, Done, JournalInv, LoadedAs
<1>3. JournalInv'
  BY <1>1, <1>2, JournalSaves DEF JournalCalls
<1> QED BY <1>2, <1>3 DEF EntryMoves, JournalInv, JournalTypeOK

LEMMA StepKeepsJournal ==
  ASSUME JournalInv, [JournalNext]_<<backendVars, journalVars>>
  PROVE  JournalInv' /\ \A u \in Vouchers : voucher'[u] = voucher[u] \/ EntryMoves(u)
<1>1. ASSUME NEW r \in Requests, NEW v \in Vouchers, NEW side \in {"debit", "credit"},
             NEW amount \in 1..MaxAmount, SplitEntry(r, v, side, amount)
      PROVE  JournalInv' /\ \A u \in Vouchers : voucher'[u] = voucher[u] \/ EntryMoves(u)
  <2> DEFINE against == CHOOSE s \in {"debit", "credit"} : s # side
             lines == [k \in {"cash", "other"} \X {"debit", "credit"} |->
                         IF k \in {<<"cash", side>>, <<"other", against>>} THEN amount ELSE 0]
  <2>1. lines \in LineSets
    BY JournalAssumption DEF LineSets
  <2>2. CreateEntry(r, v, "Bank Entry", lines)
    BY <1>1 DEF SplitEntry
  <2> QED BY <2>1, <2>2, CreateKeepsJournal DEF VoucherTypes
<1>2. ASSUME NEW r \in Requests, NEW v \in Vouchers,
             LoadSubmitEntry(r, v) \/ LoadCancelEntry(r, v) \/ LoadDeleteEntry(r, v)
      PROVE  JournalInv' /\ \A u \in Vouchers : voucher'[u] = voucher[u]
  <2>1. \A op \in {"submit", "cancel", "delete"} :
          /\ [op |-> op, id |-> v] \in JournalCalls
          /\ [op |-> op, id |-> v] # Idle
    BY DEF JournalCalls, Idle
  <2>2. PICK op \in {"submit", "cancel", "delete"} :
          /\ voucher' = voucher /\ Load(r, [op |-> op, id |-> v])
          /\ Is(v, IF op = "cancel" THEN "posted" ELSE "draft")
    BY <1>2 DEF LoadSubmitEntry, LoadCancelEntry, LoadDeleteEntry
  <2> QED BY <2>1, <2>2, JournalLoads
<1>3. ASSUME NEW r \in Requests, NEW v \in Vouchers, NEW type \in VoucherTypes,
             NEW lines \in LineSets, LoadUpdateEntry(r, v, type, lines)
      PROVE  JournalInv' /\ \A u \in Vouchers : voucher'[u] = voucher[u]
  <2> DEFINE c == [op |-> "update", id |-> v, type |-> type, lines |-> lines]
  <2>1. c \in JournalCalls /\ c # Idle
    BY DEF JournalCalls, Idle
  <2> QED BY <1>3, <2>1, JournalLoads DEF LoadUpdateEntry
<1>4. ASSUME NEW r \in Requests, GiveUpJournal(r)
      PROVE  JournalInv' /\ \A u \in Vouchers : voucher'[u] = voucher[u]
  <2>1. /\ call' = [call EXCEPT ![r] = Idle] /\ voucher' = voucher
        /\ \A q \in Requests \ {r} : call[q] # Idle => stale'[q] = stale[q] \cup {}
    BY <1>4 DEF GiveUpJournal, Done, Commit
  <2>2. \A q \in Requests : LoadedAs(q)'
    BY <2>1 DEF JournalInv, LoadedAs, Fresh, Is
  <2> QED BY <2>1, <2>2 DEF JournalInv, JournalTypeOK, JournalCalls
<1>5. CASE UNCHANGED <<backendVars, journalVars>>
  BY <1>5 DEF backendVars, journalVars, JournalInv, JournalTypeOK, LoadedAs, Fresh, Is
<1> QED
  BY <1>1, <1>2, <1>3, <1>4, <1>5, CreateKeepsJournal, SaveKeepsJournal, DeleteKeepsJournal
     DEF JournalNext

\* The inductive invariant: what a request loaded and nobody saved since is still a
\* draft, or, to be cancelled, posted.
THEOREM JournalInvariant == JournalSpec => []JournalInv
BY InitJournal, StepKeepsJournal, PTL DEF JournalSpec

\* On a database with snapshot isolation a posted entry stands as it was posted until
\* it is cancelled, for any entries, amounts and requests.
THEOREM PostedEntriesStand ==
  ASSUME SnapshotIsolation
  PROVE  JournalSpec => PostedEntryStands
<1>1. JournalInv /\ [JournalNext]_<<backendVars, journalVars>> =>
        [\A v \in Vouchers : voucher[v] # None /\ voucher[v].status # "draft" =>
           \/ voucher'[v] = voucher[v]
           \/ Is(v, "posted") /\ voucher'[v] = [voucher[v] EXCEPT !.status = "cancelled"]]_voucher
  BY StepKeepsJournal DEF EntryMoves, Is
<1> QED BY <1>1, JournalInvariant, PTL DEF JournalSpec, PostedEntryStands

-----------------------------------------------------------------------------
(***************************************************************************)
(* VanRoute: a visit that was recorded stands.                             *)
(***************************************************************************)

RouteCalls ==
  {Idle} \cup [op : {"plan", "visit", "edit"}, trip : Stops, row : Rows]

\* A copy that would still be saved has the sale of the stop, and that of an edit
\* its visit, too.
CopyHolds(r) ==
  call[r].op \in {"visit", "edit"} /\ Fresh(r, call[r].trip) =>
    /\ call[r].row.sale = stop[call[r].trip].sale
    /\ call[r].op = "edit" => call[r].row.status = stop[call[r].trip].status

RouteInv ==
  /\ RouteTypeOK
  /\ call \in [Requests -> RouteCalls]
  /\ stale \in [Requests -> SUBSET Stops]
  /\ \A r \in Requests : CopyHolds(r)

LEMMA InitRoute == BackendInit /\ RouteInit => RouteInv
BY DEF BackendInit, RouteInit, RouteInv, RouteTypeOK, RouteCalls, Idle, CopyHolds

\* A commit of r that declares every stop whose visit or sale it changed.
LEMMA RouteCommit ==
  ASSUME RouteInv, RouteTypeOK', NEW r \in Requests, NEW saved \in SUBSET Stops,
         Done(r, saved),
         \A t \in Stops \ saved : stop'[t] = stop[t]
  PROVE  RouteInv'
<1>1. Idle \in RouteCalls /\ Idle.op \notin {"visit", "edit"}
  BY DEF RouteCalls, Idle
<1>2. /\ call' = [call EXCEPT ![r] = Idle]
      /\ stale' = [q \in Requests |->
           IF q = r \/ call[q] = Idle THEN {} ELSE stale[q] \cup saved]
  BY DEF Done, Commit
<1>3. call' \in [Requests -> RouteCalls] /\ stale' \in [Requests -> SUBSET Stops]
  BY <1>1, <1>2 DEF RouteInv
<1>4. ASSUME NEW q \in Requests PROVE CopyHolds(q)'
  <2>1. CASE q = r
    BY <1>1, <1>2, <2>1 DEF RouteInv, CopyHolds
  <2>2. CASE q # r
    <3> SUFFICES ASSUME call[q].op \in {"visit", "edit"}, call[q].trip \notin stale'[q]
                 PROVE  /\ call[q].row.sale = stop'[call[q].trip].sale
                        /\ call[q].op = "edit" =>
                             call[q].row.status = stop'[call[q].trip].status
      BY <1>2, <2>2 DEF RouteInv, CopyHolds, Fresh
    <3>1. call[q].trip \in Stops /\ call[q] # Idle
      BY DEF RouteInv, RouteCalls, Idle
    <3>2. call[q].trip \notin stale[q] /\ call[q].trip \notin saved
      BY <1>2, <2>2, <3>1
    <3> QED BY <3>1, <3>2 DEF RouteInv, CopyHolds, Fresh
  <2> QED BY <2>1, <2>2
<1> QED BY <1>3, <1>4 DEF RouteInv

LEMMA RouteLoads ==
  ASSUME RouteInv, NEW r \in Requests, NEW c \in RouteCalls, Load(r, c), UNCHANGED stop,
         c.op \in {"visit", "edit"} => c.row.sale = stop[c.trip].sale,
         c.op = "edit" => c.row.status = stop[c.trip].status
  PROVE  RouteInv'
<1>1. /\ call' \in [Requests -> RouteCalls] /\ stale' = stale /\ RouteTypeOK'
      /\ call' = [call EXCEPT ![r] = c]
  BY DEF RouteInv, RouteTypeOK, Load
<1>2. ASSUME NEW q \in Requests PROVE CopyHolds(q)'
  <2>1. CASE q = r
    BY <1>1, <2>1 DEF RouteInv, CopyHolds
  <2>2. CASE q # r
    BY <1>1, <2>2 DEF RouteInv, CopyHolds, Fresh
  <2> QED BY <2>1, <2>2
<1> QED BY <1>1, <1>2 DEF RouteInv

\* What r is about to save.
LEMMA RouteCall ==
  ASSUME RouteInv, NEW r \in Requests, call[r].op \in {"plan", "visit", "edit"}
  PROVE  call[r].trip \in Stops /\ call[r].row \in Rows
BY DEF RouteInv, RouteCalls, Idle

LEMMA ReorderedType ==
  ASSUME RouteTypeOK, NEW r \in Requests, NEW some \in SUBSET Stops,
         NEW moved \in [some -> 1..MaxSeq], ReorderTrips(r, moved)
  PROVE  /\ RouteTypeOK'
         /\ \A t \in Planned : stop'[t].status = stop[t].status /\ stop'[t].sale = stop[t].sale
<1>1. \A t \in Planned : stop[t] \in Rows
  BY DEF RouteTypeOK, Planned
<1>2. \A t \in some : t \in Planned /\ moved[t] \in 1..MaxSeq
  BY DEF ReorderTrips
<1>3. \A t \in some : [stop[t] EXCEPT !.seq = moved[t]] \in Rows
  BY <1>1, <1>2 DEF Rows
<1>4. stop' = [t \in Stops |-> IF t \in some THEN [stop[t] EXCEPT !.seq = moved[t]] ELSE stop[t]]
  BY DEF ReorderTrips
<1>5. RouteTypeOK'
  BY <1>3, <1>4 DEF RouteTypeOK
<1>6. ASSUME NEW t \in Planned
      PROVE  stop'[t].status = stop[t].status /\ stop'[t].sale = stop[t].sale
  BY <1>1, <1>4 DEF Rows, Planned
<1> QED BY <1>5, <1>6

LEMMA LinkedType ==
  ASSUME RouteTypeOK, NEW r \in Requests, NEW t \in Stops, NEW s \in Sales, LinkSale(r, t, s)
  PROVE  /\ RouteTypeOK'
         /\ \A u \in Planned : /\ stop'[u].status = stop[u].status
                               /\ stop'[u].sale # stop[u].sale => stop'[u].sale # None
<1>1. stop[t] \in Rows /\ stop' = [stop EXCEPT ![t].sale = s]
  BY DEF RouteTypeOK, Planned, LinkSale
<1>2. [stop[t] EXCEPT !.sale = s] \in Rows /\ stop'[t] = [stop[t] EXCEPT !.sale = s]
  BY <1>1 DEF Rows, RouteTypeOK
<1>3. RouteTypeOK'
  BY <1>1, <1>2 DEF RouteTypeOK
<1>4. ASSUME NEW u \in Planned
      PROVE  /\ stop'[u].status = stop[u].status
             /\ stop'[u].sale # stop[u].sale => stop'[u].sale # None
  <2>1. CASE u = t
    BY <1>1, <1>2, <2>1, RouteAssumption DEF Rows
  <2>2. CASE u # t
    BY <1>1, <2>2 DEF Planned, RouteTypeOK
  <2> QED BY <2>1, <2>2
<1> QED BY <1>3, <1>4

LEMMA StepKeepsRoute ==
  ASSUME SnapshotIsolation, RouteInv, RouteNext
  PROVE  RouteInv'
<1>1. ASSUME NEW r \in Requests, NEW t \in Stops, NEW seq \in 1..MaxSeq, LoadTrip(r, t, seq)
      PROVE  RouteInv'
  <2> DEFINE c == [op |-> "plan", trip |-> t,
                   row |-> [seq |-> seq, status |-> "Planned", sale |-> None]]
  <2>1. c \in RouteCalls /\ c.op = "plan"
    BY DEF RouteCalls, Rows, VisitStatus
  <2>2. Load(r, c) /\ UNCHANGED stop
    BY <1>1 DEF LoadTrip
  <2> QED BY <2>1, <2>2, RouteLoads
<1>2. ASSUME NEW r \in Requests, CreateTrip(r) PROVE RouteInv'
  <2> DEFINE t == call[r].trip
  <2>1. t \in Stops /\ call[r].row \in Rows
    BY <1>2, RouteCall DEF CreateTrip
  <2>2. RouteTypeOK' /\ \A u \in Stops \ ({t} \ Planned) : stop'[u] = stop[u]
    BY <1>2, <2>1 DEF CreateTrip, RouteInv, RouteTypeOK
  <2> QED BY <1>2, <2>1, <2>2, RouteCommit DEF CreateTrip
<1>3. ASSUME NEW r \in Requests, NEW t \in Stops, NEW status \in VisitStatus,
             LoadVisit(r, t, status)
      PROVE  RouteInv'
  <2> DEFINE c == [op |-> "visit", trip |-> t, row |-> [stop[t] EXCEPT !.status = status]]
  <2>1. stop[t] \in Rows
    BY <1>3 DEF LoadVisit, Planned, RouteInv, RouteTypeOK
  <2>2. [stop[t] EXCEPT !.status = status] \in Rows
        /\ [stop[t] EXCEPT !.status = status].sale = stop[t].sale
    BY <2>1 DEF Rows
  <2>3. c \in RouteCalls /\ c.op = "visit" /\ c.row.sale = stop[c.trip].sale
    BY <2>2 DEF RouteCalls
  <2>4. Load(r, c) /\ UNCHANGED stop
    BY <1>3 DEF LoadVisit
  <2> QED BY <2>3, <2>4, RouteLoads
<1>4. ASSUME NEW r \in Requests, NEW t \in Stops, NEW seq \in 1..MaxSeq, LoadEdit(r, t, seq)
      PROVE  RouteInv'
  <2> DEFINE c == [op |-> "edit", trip |-> t, row |-> [stop[t] EXCEPT !.seq = seq]]
  <2>1. stop[t] \in Rows
    BY <1>4 DEF LoadEdit, Planned, RouteInv, RouteTypeOK
  <2>2. /\ [stop[t] EXCEPT !.seq = seq] \in Rows
        /\ [stop[t] EXCEPT !.seq = seq].sale = stop[t].sale
        /\ [stop[t] EXCEPT !.seq = seq].status = stop[t].status
    BY <2>1 DEF Rows
  <2>3. /\ c \in RouteCalls /\ c.op = "edit" /\ c.row.sale = stop[c.trip].sale
        /\ c.row.status = stop[c.trip].status
    BY <2>2 DEF RouteCalls
  <2>4. Load(r, c) /\ UNCHANGED stop
    BY <1>4 DEF LoadEdit
  <2> QED BY <2>3, <2>4, RouteLoads
<1>5. ASSUME NEW r \in Requests, SaveTrip(r) PROVE RouteInv'
  <2> DEFINE t == call[r].trip
  <2>1. t \in Stops /\ call[r].row \in Rows
    BY <1>5, RouteCall DEF SaveTrip
  <2>2. RouteTypeOK' /\ \A u \in Stops \ {t} : stop'[u] = stop[u]
    BY <1>5, <2>1 DEF SaveTrip, RouteInv, RouteTypeOK
  <2> QED BY <1>5, <2>1, <2>2, RouteCommit DEF SaveTrip
<1>6. ASSUME NEW r \in Requests, NEW some \in SUBSET Stops, NEW moved \in [some -> 1..MaxSeq],
             ReorderTrips(r, moved)
      PROVE  RouteInv'
  <2>1. Done(r, some) /\ \A u \in Stops \ some : stop'[u] = stop[u]
    BY <1>6 DEF ReorderTrips
  <2> QED BY <1>6, <2>1, ReorderedType, RouteCommit DEF RouteInv
<1>7. ASSUME NEW r \in Requests, NEW t \in Stops, NEW s \in Sales, LinkSale(r, t, s)
      PROVE  RouteInv'
  <2>1. Done(r, {t}) /\ \A u \in Stops \ {t} : stop'[u] = stop[u]
    BY <1>7 DEF LinkSale, Unseen, RouteInv, RouteTypeOK
  <2> QED BY <1>7, <2>1, LinkedType, RouteCommit DEF RouteInv
<1>8. ASSUME NEW r \in Requests, GiveUpRoute(r) PROVE RouteInv'
  <2>1. RouteTypeOK' /\ \A u \in Stops : stop'[u] = stop[u]
    BY <1>8 DEF GiveUpRoute, RouteInv, RouteTypeOK
  <2> QED BY <1>8, <2>1, RouteCommit DEF GiveUpRoute
<1> QED BY <1>1, <1>2, <1>3, <1>4, <1>5, <1>6, <1>7, <1>8 DEF RouteNext

\* Types, whether the snapshot is consistent or not.
RouteTyped == RouteTypeOK /\ call \in [Requests -> RouteCalls]

LEMMA RouteKeepsTypes == RouteTyped /\ [RouteNext]_<<backendVars, routeVars>> => RouteTyped'
<1> SUFFICES ASSUME RouteTyped, [RouteNext]_<<backendVars, routeVars>> PROVE RouteTyped'
  OBVIOUS
<1>0. /\ RouteTypeOK /\ call \in [Requests -> RouteCalls] /\ Idle \in RouteCalls
      /\ \A t \in Planned : t \in Stops /\ stop[t] \in Rows
      /\ \A r \in Requests : call[r].op \in {"plan", "visit", "edit"} =>
           call[r].trip \in Stops /\ call[r].row \in Rows
  BY DEF RouteTyped, RouteTypeOK, RouteCalls, Planned, Idle
<1>1. ASSUME NEW r \in Requests, NEW op \in {"plan", "visit", "edit"}, NEW t \in Stops,
             NEW w \in Rows, Load(r, [op |-> op, trip |-> t, row |-> w]), UNCHANGED stop
      PROVE  RouteTyped'
  <2>1. [op |-> op, trip |-> t, row |-> w] \in RouteCalls
    BY DEF RouteCalls
  <2> QED BY <1>0, <1>1, <2>1 DEF RouteTyped, RouteTypeOK, Load
<1>2. ASSUME NEW r \in Requests, NEW saved, Done(r, saved), RouteTypeOK' PROVE RouteTyped'
  BY <1>0, <1>2 DEF RouteTyped, Done, Commit
<1>3. ASSUME NEW r \in Requests, NEW t \in Stops, NEW seq \in 1..MaxSeq, LoadTrip(r, t, seq)
      PROVE  RouteTyped'
  <2>1. [seq |-> seq, status |-> "Planned", sale |-> None] \in Rows
    BY DEF Rows, VisitStatus
  <2> QED BY <1>1, <1>3, <2>1 DEF LoadTrip
<1>4. ASSUME NEW r \in Requests, NEW t \in Stops, NEW status \in VisitStatus,
             LoadVisit(r, t, status)
      PROVE  RouteTyped'
  <2>1. [stop[t] EXCEPT !.status = status] \in Rows
    BY <1>0, <1>4 DEF LoadVisit, Rows
  <2> QED BY <1>1, <1>4, <2>1 DEF LoadVisit
<1>5. ASSUME NEW r \in Requests, NEW t \in Stops, NEW seq \in 1..MaxSeq, LoadEdit(r, t, seq)
      PROVE  RouteTyped'
  <2>1. [stop[t] EXCEPT !.seq = seq] \in Rows
    BY <1>0, <1>5 DEF LoadEdit, Rows
  <2> QED BY <1>1, <1>5, <2>1 DEF LoadEdit
<1>6. ASSUME NEW r \in Requests, CreateTrip(r) \/ SaveTrip(r) \/ GiveUpRoute(r)
      PROVE  RouteTyped'
  <2>1. RouteTypeOK'
    BY <1>0, <1>6 DEF CreateTrip, SaveTrip, GiveUpRoute, RouteTypeOK
  <2> QED BY <1>2, <1>6, <2>1 DEF CreateTrip, SaveTrip, GiveUpRoute
<1>7. ASSUME NEW r \in Requests, NEW some \in SUBSET Stops, NEW moved \in [some -> 1..MaxSeq],
             ReorderTrips(r, moved)
      PROVE  RouteTyped'
  <2>1. RouteTypeOK'
    BY <1>0, <1>7, ReorderedType
  <2> QED BY <1>2, <1>7, <2>1 DEF ReorderTrips
<1>8. ASSUME NEW r \in Requests, NEW t \in Stops, NEW s \in Sales, LinkSale(r, t, s)
      PROVE  RouteTyped'
  <2>1. RouteTypeOK'
    BY <1>0, <1>8, LinkedType
  <2> QED BY <1>2, <1>8, <2>1 DEF LinkSale
<1>9. CASE UNCHANGED <<backendVars, routeVars>>
  BY <1>9 DEF backendVars, routeVars, RouteTyped, RouteTypeOK
<1> QED BY <1>3, <1>4, <1>5, <1>6, <1>7, <1>8, <1>9 DEF RouteNext

LEMMA RouteTypes ==
  /\ BackendInit /\ RouteInit => RouteTypeOK
  /\ RouteSpec => []RouteTypeOK
<1>1. BackendInit /\ RouteInit => RouteTyped
  BY InitRoute DEF RouteInv, RouteTyped
<1>2. RouteTyped => RouteTypeOK
  BY DEF RouteTyped
<1> QED BY <1>1, <1>2, RouteKeepsTypes, PTL DEF RouteSpec

\* The effect of one step on stops that are there.
VisitHolds(t) ==
  /\ stop'[t].status # stop[t].status =>
       \E r \in Requests : call[r].op = "visit" /\ call[r].trip = t
                             /\ call'[r] = Idle /\ stop'[t] = call[r].row
  /\ stop[t].sale # None => stop'[t].sale # None

LEMMA VisitsStandStep ==
  ASSUME RouteInv, RouteNext, NEW t \in Planned
  PROVE  VisitHolds(t)
<1>0. t \in Stops
  BY DEF Planned
<1>1. ASSUME NEW r \in Requests, CreateTrip(r) PROVE stop'[t] = stop[t]
  BY <1>1, <1>0 DEF CreateTrip, RouteInv, RouteTypeOK
<1>2. ASSUME NEW r \in Requests, SaveTrip(r) PROVE VisitHolds(t)
  <2> DEFINE u == call[r].trip
  <2>1. u \in Stops
    BY <1>2, RouteCall DEF SaveTrip
  <2>2. stop' = [stop EXCEPT ![u] = call[r].row] /\ call' = [call EXCEPT ![r] = Idle]
    BY <1>2 DEF SaveTrip, Done, Commit
  <2>3. CASE t # u
    BY <1>0, <2>2, <2>3 DEF VisitHolds, RouteInv, RouteTypeOK
  <2>4. CASE t = u
    <3>1. /\ call[r].row.sale = stop[t].sale
          /\ call[r].op = "edit" => call[r].row.status = stop[t].status
      BY <1>2, <2>4 DEF SaveTrip, RouteInv, CopyHolds
    <3>2. stop'[t] = call[r].row /\ call'[r] = Idle /\ call[r].op \in {"visit", "edit"}
      BY <1>0, <1>2, <2>2, <2>4 DEF SaveTrip, RouteInv, RouteTypeOK
    <3> QED BY <2>4, <3>1, <3>2 DEF VisitHolds
  <2> QED BY <2>3, <2>4
<1>3. stop'[t] = stop[t] => VisitHolds(t)
  BY DEF VisitHolds
<1>4. ASSUME NEW r \in Requests, NEW some \in SUBSET Stops, NEW moved \in [some -> 1..MaxSeq],
             ReorderTrips(r, moved)
      PROVE  VisitHolds(t)
  BY <1>4, ReorderedType DEF VisitHolds, RouteInv
<1>5. ASSUME NEW r \in Requests, NEW u \in Stops, NEW s \in Sales, LinkSale(r, u, s)
      PROVE  VisitHolds(t)
  BY <1>5, LinkedType DEF VisitHolds, RouteInv
<1> QED
  BY <1>1, <1>2, <1>3, <1>4, <1>5
     DEF RouteNext, LoadTrip, LoadVisit, LoadEdit, GiveUpRoute

\* The inductive invariant on a database with snapshot isolation: a copy that would
\* still be saved has the sale of its stop, and that of an edit its visit, too.
THEOREM RouteInvariant ==
  ASSUME SnapshotIsolation
  PROVE  RouteSpec => []RouteInv
<1>1. RouteInv /\ [RouteNext]_<<backendVars, routeVars>> => RouteInv'
  <2>1. RouteInv /\ UNCHANGED <<backendVars, routeVars>> => RouteInv'
    BY DEF RouteInv, RouteTypeOK, CopyHolds, Fresh, backendVars, routeVars
  <2> QED BY <2>1, StepKeepsRoute
<1> QED BY <1>1, InitRoute, PTL DEF RouteSpec

\* On a database with snapshot isolation only a visit changes the status of a stop,
\* and no edit, reordering or link made from an older copy takes a check-in or a
\* sale back, for any stops, sales and requests (reorder_trips, create_order).
THEOREM VisitsStand ==
  ASSUME SnapshotIsolation
  PROVE  RouteSpec => VisitStands
<1>1. RouteInv /\ [RouteNext]_<<backendVars, routeVars>> =>
        [\A t \in Planned :
           /\ stop'[t].status # stop[t].status =>
                \E r \in Requests : call[r].op = "visit" /\ call[r].trip = t
                                      /\ call'[r] = Idle /\ stop'[t] = call[r].row
           /\ stop[t].sale # None => stop'[t].sale # None]_<<stop, call>>
  BY VisitsStandStep DEF VisitHolds, backendVars, routeVars
<1> QED BY <1>1, RouteInvariant, PTL DEF RouteSpec, VisitStands
=============================================================================
