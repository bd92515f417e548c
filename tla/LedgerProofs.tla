--------------------------- MODULE LedgerProofs ----------------------------
(***************************************************************************)
(* Proofs about the documents that invoices, payments and the van are made *)
(* of: Ledger and VanSales, for any documents, amounts, users and requests. *)
(* They rest on lemmas about sums over finite sets, which come first.      *)
(***************************************************************************)
EXTENDS Ledger, VanSales, Functions, FiniteSetTheorems, WellFoundedInduction,
  TLAPS

-----------------------------------------------------------------------------
(***************************************************************************)
(* Sums over finite sets.  A recursive function is what its equation says: *)
(* SumFunctionOnSet(f, S) is shown to be the number of pairs of a member of *)
(* S and a unit of what f gives it, and the rest follows from the theorems *)
(* about cardinalities.                                                    *)
(***************************************************************************)

\* The units that a function counts over a set.
Units(f, S) == {u \in S \X Nat : u[2] \in 1..f[u[1]]}

\* Among finite sets there is one that is not a larger set of them.
LEMMA SmallestSet ==
  ASSUME NEW S, IsFiniteSet(S), NEW B, B \subseteq SUBSET S, B # {}
  PROVE  \E T \in B : \A x \in T : T \ {x} \notin B
<1>1. \A T \in B : IsFiniteSet(T) /\ T \subseteq S
  BY FS_Subset
<1>2. B \subseteq FiniteSubsetsOf(S)
  BY <1>1 DEF FiniteSubsetsOf
<1>3. PICK T \in B : \A U \in B : ~(<<U, T>> \in StrictSubsetOrdering(S))
  BY <1>2, FS_StrictSubsetOrderingWellFounded, WFMin
<1>4. \A x \in T : T \ {x} \in B => <<T \ {x}, T>> \in StrictSubsetOrdering(S)
  BY <1>1 DEF StrictSubsetOrdering
<1> QED BY <1>3, <1>4

LEMMA UnitsAdd ==
  ASSUME NEW f, NEW T, NEW x, x \notin T, f[x] \in Nat, IsFiniteSet(Units(f, T))
  PROVE  /\ IsFiniteSet(Units(f, T \cup {x}))
         /\ Cardinality(Units(f, T \cup {x})) = f[x] + Cardinality(Units(f, T))
<1> DEFINE own == {x} \X (1..f[x])
           b == [k \in 1..f[x] |-> <<x, k>>]
<1>1. b \in Bijection(1..f[x], own)
  BY DEF Bijection, Injection, Surjection, IsInjective
<1>2. IsFiniteSet(1..f[x]) /\ Cardinality(1..f[x]) = f[x]
  BY FS_Interval
<1>3. IsFiniteSet(own) /\ Cardinality(own) = f[x]
  BY <1>1, <1>2, FS_Bijection DEF ExistsBijection
<1>4. Units(f, T \cup {x}) = own \cup Units(f, T)
  BY DEF Units
<1>5. own \cap Units(f, T) = {}
  BY DEF Units
<1> HIDE DEF own
<1>6. Cardinality(own \cup Units(f, T)) =
        Cardinality(own) + Cardinality(Units(f, T)) - Cardinality({})
      /\ IsFiniteSet(own \cup Units(f, T))
  BY <1>3, <1>5, FS_Union
<1>7. Cardinality(Units(f, T)) \in Nat /\ Cardinality({}) = 0
  BY FS_CardinalityType, FS_EmptySet
<1>8. PICK c \in Nat : c = Cardinality(Units(f, T))
  BY <1>7
<1>9. f[x] + c - 0 = f[x] + c
  BY <1>8
<1>10. Cardinality(own \cup Units(f, T)) = f[x] + c
  BY <1>3, <1>6, <1>7, <1>8, <1>9
<1> QED BY <1>4, <1>6, <1>8, <1>10

LEMMA UnitsEmpty ==
  ASSUME NEW f
  PROVE  Units(f, {}) = {} /\ IsFiniteSet(Units(f, {})) /\ Cardinality(Units(f, {})) = 0
BY FS_EmptySet DEF Units

LEMMA UnitsFinite ==
  ASSUME NEW S, IsFiniteSet(S), NEW f, \A x \in S : f[x] \in Nat
  PROVE  \A T \in SUBSET S : IsFiniteSet(Units(f, T)) /\ Cardinality(Units(f, T)) \in Nat
<1> DEFINE B == {T \in SUBSET S : ~IsFiniteSet(Units(f, T))}
<1>1. ASSUME B # {} PROVE FALSE
  <2>1. PICK T \in B : \A x \in T : T \ {x} \notin B
    BY <1>1, SmallestSet
  <2>2. T # {}
    BY <2>1, UnitsEmpty
  <2>3. PICK x \in T : TRUE
    BY <2>2
  <2>4. IsFiniteSet(Units(f, T \ {x})) /\ (T \ {x}) \cup {x} = T /\ x \in S
    BY <2>1, <2>3
  <2>5. IsFiniteSet(Units(f, T))
    BY <2>4, UnitsAdd
  <2> QED BY <2>1, <2>5
<1> QED BY <1>1, FS_CardinalityType

\* What the community module's sum is: the number of units.
LEMMA SumIsUnits ==
  ASSUME NEW S, IsFiniteSet(S), NEW f, \A x \in S : f[x] \in Nat
  PROVE  SumFunctionOnSet(f, S) = Cardinality(Units(f, S))
<1> DEFINE Sums(g) ==
      g = [T \in SUBSET S |->
             IF T = {} THEN 0
             ELSE LET x == CHOOSE x \in T : TRUE IN f[x] + g[T \ {x}]]
           sum == CHOOSE g : Sums(g)
           w == [T \in SUBSET S |-> Cardinality(Units(f, T))]
<1>1. SumFunctionOnSet(f, S) = sum[S]
  BY DEF SumFunctionOnSet, FoldFunctionOnSet, MapThenFoldSet
<1>2. Sums(w)
  <2> SUFFICES ASSUME NEW T \in SUBSET S
               PROVE  w[T] = IF T = {} THEN 0
                             ELSE LET x == CHOOSE x \in T : TRUE IN f[x] + w[T \ {x}]
    OBVIOUS
  <2>1. CASE T = {}
    BY <2>1, UnitsEmpty
  <2>2. CASE T # {}
    <3>1. PICK x : x = CHOOSE y \in T : TRUE
      OBVIOUS
    <3>2. x \in T /\ T \ {x} \in SUBSET S /\ (T \ {x}) \cup {x} = T /\ f[x] \in Nat
      BY <2>2, <3>1
    <3>3. Cardinality(Units(f, T)) = f[x] + Cardinality(Units(f, T \ {x}))
      BY <3>2, UnitsAdd, UnitsFinite
    <3> QED BY <2>2, <3>1, <3>2, <3>3
  <2> QED BY <2>1, <2>2
<1> HIDE DEF w
<1>3. Sums(sum)
  BY <1>2
<1> HIDE DEF sum
<1> DEFINE B == {T \in SUBSET S : sum[T] # Cardinality(Units(f, T))}
<1>4. ASSUME B # {} PROVE FALSE
  <2>1. PICK T \in B : \A x \in T : T \ {x} \notin B
    BY <1>4, SmallestSet
  <2>2. T # {}
    BY <1>3, <2>1, UnitsEmpty
  <2>3. PICK x : x = CHOOSE y \in T : TRUE
    OBVIOUS
  <2>4. x \in T /\ T \ {x} \in SUBSET S /\ (T \ {x}) \cup {x} = T /\ f[x] \in Nat
    BY <2>1, <2>2, <2>3
  <2>5. sum[T] = f[x] + sum[T \ {x}]
    BY <1>3, <2>1, <2>2, <2>3
  <2>6. sum[T \ {x}] = Cardinality(Units(f, T \ {x}))
    BY <2>1, <2>4
  <2>7. Cardinality(Units(f, T)) = f[x] + Cardinality(Units(f, T \ {x}))
    BY <2>4, UnitsAdd, UnitsFinite
  <2> QED BY <2>1, <2>5, <2>6, <2>7
<1> QED BY <1>1, <1>4

-----------------------------------------------------------------------------
(* Sums of naturals over a finite set.                                     *)

LEMMA SumEmpty ==
  ASSUME NEW f PROVE SumFunctionOnSet(f, {}) = 0
BY SumIsUnits, UnitsEmpty, FS_EmptySet

LEMMA SumNat ==
  ASSUME NEW S, IsFiniteSet(S), NEW f, \A x \in S : f[x] \in Nat
  PROVE  SumFunctionOnSet(f, S) \in Nat
BY SumIsUnits, UnitsFinite

\* Two functions that agree on the set.
LEMMA SumSame ==
  ASSUME NEW S, IsFiniteSet(S), NEW f, NEW g, \A x \in S : f[x] \in Nat /\ g[x] = f[x]
  PROVE  SumFunctionOnSet(g, S) = SumFunctionOnSet(f, S)
<1>1. Units(g, S) = Units(f, S)
  BY DEF Units
<1> QED BY <1>1, SumIsUnits

LEMMA SumAdd ==
  ASSUME NEW S, IsFiniteSet(S), NEW x, x \notin S,
         NEW f, f[x] \in Nat, \A y \in S : f[y] \in Nat
  PROVE  SumFunctionOnSet(f, S \cup {x}) = SumFunctionOnSet(f, S) + f[x]
<1>1. IsFiniteSet(S \cup {x}) /\ \A y \in S \cup {x} : f[y] \in Nat
  BY FS_AddElement
<1>2. IsFiniteSet(Units(f, S)) /\ Cardinality(Units(f, S)) \in Nat
  BY UnitsFinite
<1>3. Cardinality(Units(f, S \cup {x})) = f[x] + Cardinality(Units(f, S))
  BY <1>2, UnitsAdd
<1> QED BY <1>1, <1>2, <1>3, SumIsUnits

LEMMA SumSplit ==
  ASSUME NEW S, IsFiniteSet(S), NEW x \in S, NEW f, \A y \in S : f[y] \in Nat
  PROVE  SumFunctionOnSet(f, S) = SumFunctionOnSet(f, S \ {x}) + f[x]
<1>1. IsFiniteSet(S \ {x}) /\ (S \ {x}) \cup {x} = S
  BY FS_RemoveElement
<1> QED BY <1>1, SumAdd

\* A larger function, and a larger set.
LEMMA SumLeq ==
  ASSUME NEW S, IsFiniteSet(S), NEW T, T \subseteq S, NEW f, NEW g,
         \A x \in S : g[x] \in Nat, \A x \in T : f[x] \in Nat /\ f[x] <= g[x]
  PROVE  SumFunctionOnSet(f, T) <= SumFunctionOnSet(g, S)
<1>1. Units(f, T) \subseteq Units(g, S)
  BY DEF Units
<1>2. IsFiniteSet(T) /\ IsFiniteSet(Units(g, S))
  BY FS_Subset, UnitsFinite
<1>3. Cardinality(Units(f, T)) <= Cardinality(Units(g, S))
  BY <1>1, <1>2, FS_Subset
<1> QED BY <1>2, <1>3, SumIsUnits

\* Nothing but zeros, and nothing but one number.
LEMMA SumZero ==
  ASSUME NEW S, IsFiniteSet(S), NEW f, \A x \in S : f[x] = 0
  PROVE  SumFunctionOnSet(f, S) = 0
<1>1. Units(f, S) = {}
  BY DEF Units
<1> QED BY <1>1, SumIsUnits, FS_EmptySet

LEMMA SumOne ==
  ASSUME NEW S, IsFiniteSet(S), NEW x \in S, NEW f, f[x] \in Nat,
         \A y \in S \ {x} : f[y] = 0
  PROVE  SumFunctionOnSet(f, S) = f[x]
<1>1. SumFunctionOnSet(f, S) = SumFunctionOnSet(f, S \ {x}) + f[x]
  BY SumSplit
<1>2. SumFunctionOnSet(f, S \ {x}) = 0
  BY FS_RemoveElement, SumZero
<1> QED BY <1>1, <1>2

\* As many times the largest.
LEMMA SumBound ==
  ASSUME NEW S, IsFiniteSet(S), NEW m \in Nat, NEW f,
         \A x \in S : f[x] \in Nat /\ f[x] <= m
  PROVE  SumFunctionOnSet(f, S) <= Cardinality(S) * m
<1>1. IsFiniteSet(1..m) /\ Cardinality(1..m) = m
  BY FS_Interval
<1>2. IsFiniteSet(S \X (1..m)) /\ Cardinality(S \X (1..m)) = Cardinality(S) * m
  BY <1>1, FS_Product
<1>3. Units(f, S) \subseteq S \X (1..m)
  BY DEF Units
<1>4. Cardinality(Units(f, S)) <= Cardinality(S) * m
  BY <1>2, <1>3, FS_Subset
<1> QED BY <1>4, SumIsUnits
-----------------------------------------------------------------------------
(* The largest and the smallest of a finite set of naturals.               *)

LEMMA MaxOfSet ==
  ASSUME NEW S, IsFiniteSet(S), S \subseteq Nat, S # {}
  PROVE  Max(S) \in S /\ \A y \in S : y <= Max(S)
<1> DEFINE B == {T \in SUBSET S : T # {} /\ ~\E m \in T : \A y \in T : m >= y}
<1>1. ASSUME B # {} PROVE FALSE
  <2>1. PICK T \in B : \A x \in T : T \ {x} \notin B
    BY <1>1, SmallestSet
  <2>2. PICK x \in T : TRUE
    BY <2>1
  <2>3. CASE T \ {x} = {}
    BY <2>1, <2>2, <2>3
  <2>4. CASE T \ {x} # {}
    <3>1. PICK m \in T \ {x} : \A y \in T \ {x} : m >= y
      BY <2>1, <2>4
    <3>2. m \in Nat /\ x \in Nat
      BY <2>1, <2>2, <3>1
    <3>3. CASE m >= x
      BY <2>1, <3>1, <3>3
    <3>4. CASE x > m
      <4>1. \A y \in T : x >= y
        BY <2>1, <3>1, <3>2, <3>4
      <4> QED BY <2>1, <4>1
    <3> QED BY <3>2, <3>3, <3>4
  <2> QED BY <2>3, <2>4
<1>2. \E m \in S : \A y \in S : m >= y
  BY <1>1
<1> QED BY <1>2 DEF Max

LEMMA MaxOfTwo ==
  ASSUME NEW a \in Int, NEW b \in Int
  PROVE  Max({a, b}) = IF a >= b THEN a ELSE b
BY DEF Max

LEMMA MinOfTwo ==
  ASSUME NEW a \in Int, NEW b \in Int
  PROVE  Min({a, b}) = IF a <= b THEN a ELSE b
BY DEF Min

-----------------------------------------------------------------------------
(***************************************************************************)
(* Ledger: what a request allocates is outstanding, and what it has looked *)
(* at holds, as long as the documents are as it read them.                 *)
(***************************************************************************)

DraftDoc == [status : {"Draft"}, refs : [Invoices -> 0..Total], free : Nat]

LedgerCalls ==
  {Idle} \cup [op : {"pay", "collect"}, p : Payments, doc : DraftDoc]
    \cup [op : {"submit"}, p : Payments, fits : BOOLEAN]
    \cup [op : {"edit payment", "delete payment", "cancel payment"}, p : Payments]
    \cup [op : {"post", "cancel", "edit", "delete"}, i : Invoices]

\* What a request has looked at still holds of the documents that are fresh.
PaymentIsDraft(r) ==
  call[r].op \in {"submit", "delete payment"} /\ Fresh(r, call[r].p) =>
    payment[call[r].p] # None /\ payment[call[r].p].status = "Draft"

PaymentIsPosted(r) ==
  call[r].op = "cancel payment" /\ Fresh(r, call[r].p) => Posted(call[r].p)

InvoiceIsDraft(r) ==
  call[r].op \in {"post", "delete"} /\ Fresh(r, call[r].i) => invoice[call[r].i] = "Draft"

InvoiceIsPosted(r) ==
  call[r].op = "cancel" /\ Fresh(r, call[r].i) => invoice[call[r].i] = "Posted"

SubmitFits(r) ==
  call[r].op = "submit" /\ call[r].fits /\ Fresh(r, call[r].p) =>
    \A i \in Invoices : Fresh(r, i) /\ payment[call[r].p].refs[i] > 0 =>
      payment[call[r].p].refs[i] <= Outstanding(i)

CollectFits(r) ==
  call[r].op = "collect" =>
    \A i \in Invoices : Fresh(r, i) /\ call[r].doc.refs[i] > 0 =>
      call[r].doc.refs[i] <= Outstanding(i)

CallFits(r) ==
  /\ PaymentIsDraft(r) /\ PaymentIsPosted(r) /\ InvoiceIsDraft(r) /\ InvoiceIsPosted(r)
  /\ SubmitFits(r) /\ CollectFits(r)

LedgerInv ==
  /\ LedgerTypeOK
  /\ call \in [Requests -> LedgerCalls]
  /\ \A r \in Requests : CallFits(r)
  /\ NeverOverpaid

LEMMA LedgerCall ==
  ASSUME NEW r \in Requests, call \in [Requests -> LedgerCalls]
  PROVE  /\ call[r].op \in {"pay", "collect"} => call[r].p \in Payments /\ call[r].doc \in DraftDoc
         /\ call[r].op = "submit" => call[r].p \in Payments /\ call[r].fits \in BOOLEAN
         /\ call[r].op \in {"edit payment", "delete payment", "cancel payment"} =>
              call[r].p \in Payments
         /\ call[r].op \in {"post", "cancel", "edit", "delete"} => call[r].i \in Invoices
         /\ call[r] = Idle <=> call[r].op = "none"
         /\ Idle.op = "none" /\ Idle \in LedgerCalls
<1>1. call[r] \in LedgerCalls /\ Idle.op = "none" /\ Idle \in LedgerCalls
  BY DEF LedgerCalls, Idle
<1>2. CASE call[r] = Idle
  BY <1>1, <1>2
<1>3. CASE call[r] \in [op : {"pay", "collect"}, p : Payments, doc : DraftDoc]
  BY <1>1, <1>3
<1>4. CASE call[r] \in [op : {"submit"}, p : Payments, fits : BOOLEAN]
  BY <1>1, <1>4
<1>5. CASE call[r] \in [op : {"edit payment", "delete payment", "cancel payment"}, p : Payments]
  BY <1>1, <1>5
<1>6. CASE call[r] \in [op : {"post", "cancel", "edit", "delete"}, i : Invoices]
  BY <1>1, <1>6
<1> QED BY <1>1, <1>2, <1>3, <1>4, <1>5, <1>6 DEF LedgerCalls

LEMMA DocFacts ==
  ASSUME NEW d \in PaymentDoc
  PROVE  /\ d # None /\ d.refs \in [Invoices -> 0..Total] /\ d.free \in Nat
         /\ \A i \in Invoices : d.refs[i] \in Nat /\ d.refs[i] <= Total
BY PaymentAssumption, LedgerAssumption DEF PaymentDoc

LEMMA DraftDocFacts == DraftDoc \subseteq PaymentDoc /\ \A d \in DraftDoc : d.status = "Draft"
BY DEF DraftDoc, PaymentDoc

-----------------------------------------------------------------------------
(* What is paid on an invoice.                                             *)

LEMMA PaidFacts ==
  ASSUME LedgerTypeOK, NEW i \in Invoices
  PROVE  /\ IsFiniteSet(PostedPayments) /\ Paid(i) \in Nat
         /\ \A p \in PostedPayments :
              p \in Payments /\ payment[p] \in PaymentDoc /\ payment[p].refs[i] \in Nat
<1>1. IsFiniteSet(PostedPayments) /\ PostedPayments \subseteq Payments
  BY LedgerAssumption, FS_Subset DEF PostedPayments
<1>2. \A p \in PostedPayments : payment[p] \in PaymentDoc /\ payment[p].refs[i] \in Nat
  BY DocFacts DEF PostedPayments, LedgerTypeOK, Posted
<1>3. \A p \in PostedPayments : [q \in PostedPayments |-> payment[q].refs[i]][p] \in Nat
  BY <1>2
<1> QED BY <1>1, <1>2, <1>3, SumNat DEF Paid

LEMMA PaidNat == LedgerTypeOK => \A i \in Invoices : Paid(i) \in Nat
BY PaidFacts

LEMMA PaidNext == LedgerTypeOK' => (\A i \in Invoices : Paid(i) \in Nat)'
BY PaidNat, PTL

\* No payment settles more of the invoice than before.
LEMMA PaidLess ==
  ASSUME LedgerTypeOK, NEW i \in Invoices,
         \A p \in Payments : Posted(p)' =>
           Posted(p) /\ payment'[p].refs[i] \in Nat /\ payment'[p].refs[i] <= payment[p].refs[i]
  PROVE  Paid(i)' <= Paid(i)
<1> DEFINE f == [p \in PostedPayments |-> payment[p].refs[i]]
           g == [p \in PostedPayments' |-> payment'[p].refs[i]]
<1>1. IsFiniteSet(PostedPayments) /\ \A p \in PostedPayments : f[p] \in Nat
  BY PaidFacts
<1>2. PostedPayments' \subseteq PostedPayments
  BY DEF PostedPayments
<1>3. \A p \in PostedPayments' : g[p] \in Nat /\ g[p] <= f[p]
  BY <1>2 DEF PostedPayments
<1>4. Paid(i) = SumFunctionOnSet(f, PostedPayments)
      /\ Paid(i)' = SumFunctionOnSet(g, PostedPayments')
  BY DEF Paid
<1> HIDE DEF f, g
<1>5. SumFunctionOnSet(g, PostedPayments') <= SumFunctionOnSet(f, PostedPayments)
  BY <1>1, <1>2, <1>3, SumLeq
<1> QED BY <1>4, <1>5

\* A payment is posted.
LEMMA PaidMore ==
  ASSUME LedgerTypeOK, NEW i \in Invoices, NEW p \in Payments, ~Posted(p),
         NEW d \in PaymentDoc, d.status = "Posted", payment' = [payment EXCEPT ![p] = d]
  PROVE  Paid(i)' = Paid(i) + d.refs[i]
<1> DEFINE f == [q \in PostedPayments |-> payment[q].refs[i]]
           g == [q \in PostedPayments' |-> payment'[q].refs[i]]
<1>1. payment'[p] = d /\ \A q \in Payments \ {p} : payment'[q] = payment[q]
  BY DEF LedgerTypeOK
<1>2. p \notin PostedPayments /\ PostedPayments' = PostedPayments \cup {p}
  BY <1>1, DocFacts DEF PostedPayments, Posted
<1>3. IsFiniteSet(PostedPayments) /\ \A q \in PostedPayments : f[q] \in Nat /\ g[q] = f[q]
  BY <1>1, <1>2, PaidFacts
<1>4. g[p] = d.refs[i] /\ d.refs[i] \in Nat
  BY <1>1, <1>2, DocFacts
<1>5. Paid(i) = SumFunctionOnSet(f, PostedPayments)
      /\ Paid(i)' = SumFunctionOnSet(g, PostedPayments')
  BY DEF Paid
<1> HIDE DEF f, g
<1>6. SumFunctionOnSet(g, PostedPayments \cup {p}) = SumFunctionOnSet(g, PostedPayments) + g[p]
  BY <1>2, <1>3, <1>4, SumAdd
<1>7. SumFunctionOnSet(g, PostedPayments) = SumFunctionOnSet(f, PostedPayments)
  BY <1>3, SumSame
<1> QED BY <1>2, <1>4, <1>5, <1>6, <1>7

\* No posted payment settles it.
LEMMA PaidNothing ==
  ASSUME LedgerTypeOK, NEW i \in Invoices, \A p \in Payments : ~(Posted(p) /\ Settles(p, i))
  PROVE  Paid(i) = 0
<1>1. ASSUME NEW p \in PostedPayments PROVE payment[p].refs[i] = 0
  <2>1. p \in Payments /\ Posted(p) /\ payment[p] # None
    BY DEF PostedPayments, Posted
  <2>2. payment[p].refs[i] \in Nat /\ ~(payment[p].refs[i] > 0)
    BY <2>1, PaidFacts DEF Settles
  <2> QED BY <2>2
<1>2. \A p \in PostedPayments : [q \in PostedPayments |-> payment[q].refs[i]][p] = 0
  BY <1>1
<1> QED BY <1>2, PaidFacts, SumZero DEF Paid

LEMMA OutstandingFacts ==
  ASSUME LedgerTypeOK, NEW i \in Invoices
  PROVE  /\ Outstanding(i) \in Int /\ Outstanding(i) <= Total
         /\ Outstanding(i) > 0 => invoice[i] = "Posted"
BY PaidFacts, LedgerAssumption DEF Outstanding

LEMMA OutstandingInt == LedgerTypeOK => \A i \in Invoices : Outstanding(i) \in Int
BY OutstandingFacts

LEMMA OutstandingNext == LedgerTypeOK' => (\A i \in Invoices : Outstanding(i) \in Int)'
BY OutstandingInt, PTL

LEMMA OutstandingSame ==
  ASSUME UNCHANGED <<invoice, payment>>
  PROVE  \A i \in Invoices : Outstanding(i)' = Outstanding(i)
BY DEF Outstanding, Paid, PostedPayments, Posted

-----------------------------------------------------------------------------
(* What is spread over open invoices.                                      *)

LEMMA SpreadFits ==
  ASSUME LedgerTypeOK, NEW amount \in Nat, NEW chosen, NEW asked \in [chosen -> 1..Total],
         DOMAIN asked \subseteq Open
  PROVE  /\ Spread(amount, asked) \in DraftDoc
         /\ \A i \in Invoices : Spread(amount, asked).refs[i] > 0 =>
              Spread(amount, asked).refs[i] <= Outstanding(i)
<1> DEFINE open == DOMAIN asked
           owed == [i \in open |-> Min({asked[i], Outstanding(i)})]
           left(before) == Max({amount - SumFunctionOnSet(owed, before), 0})
           refs == [i \in Invoices |->
             IF i \in open THEN Min({owed[i], left({j \in open : j < i})}) ELSE 0]
<1>1. \A i \in open : /\ i \in Invoices /\ owed[i] <= Outstanding(i)
                      /\ owed[i] \in Nat /\ owed[i] <= Total
  <2> SUFFICES ASSUME NEW i \in open
               PROVE  /\ i \in Invoices /\ owed[i] <= Outstanding(i)
                      /\ owed[i] \in Nat /\ owed[i] <= Total
    OBVIOUS
  <2>1. i \in Invoices /\ asked[i] \in 1..Total
    BY DEF Open
  <2>2. PICK a \in Int : a = asked[i] /\ 1 <= a /\ a <= Total
    BY <2>1, LedgerAssumption
  <2>3. PICK b \in Int : b = Outstanding(i) /\ b > 0
    BY <2>1, OutstandingFacts DEF Open
  <2>4. owed[i] = IF a <= b THEN a ELSE b
    BY <2>2, <2>3, MinOfTwo
  <2>5. owed[i] \in Nat /\ owed[i] <= a /\ owed[i] <= b
    BY <2>2, <2>3, <2>4
  <2> HIDE DEF owed
  <2> QED BY <2>1, <2>2, <2>3, <2>5, LedgerAssumption
<1>2. IsFiniteSet(open)
  BY <1>1, LedgerAssumption, FS_Subset
<1>3. Spread(amount, asked) = [status |-> "Draft", free |-> left(open), refs |-> refs]
  BY DEF Spread
<1> HIDE DEF owed, open
<1>4. \A T \in SUBSET open : left(T) \in Nat
  <2> SUFFICES ASSUME NEW T \in SUBSET open PROVE left(T) \in Nat
    OBVIOUS
  <2>1. SumFunctionOnSet(owed, T) \in Nat
    BY <1>1, <1>2, FS_Subset, SumNat
  <2>2. PICK s \in Nat : s = SumFunctionOnSet(owed, T)
    BY <2>1
  <2>3. left(T) = IF amount - s >= 0 THEN amount - s ELSE 0
    BY <2>2, MaxOfTwo
  <2> QED BY <2>2, <2>3
<1> HIDE DEF left
<1>5. \A i \in Invoices : refs[i] \in 0..Total /\ (refs[i] > 0 => refs[i] <= Outstanding(i))
  <2> SUFFICES ASSUME NEW i \in Invoices
               PROVE  refs[i] \in 0..Total /\ (refs[i] > 0 => refs[i] <= Outstanding(i))
    OBVIOUS
  <2>1. CASE i \notin open
    BY <2>1, LedgerAssumption
  <2>2. CASE i \in open
    <3>1. PICK b \in Nat : b = left({j \in open : j < i})
      BY <1>4
    <3>2. refs[i] = Min({owed[i], b})
      BY <2>2, <3>1
    <3>3. refs[i] = IF owed[i] <= b THEN owed[i] ELSE b
      BY <1>1, <2>2, <3>2, MinOfTwo
    <3> HIDE DEF refs
    <3>4. refs[i] \in Nat /\ refs[i] <= owed[i]
      BY <1>1, <2>2, <3>3
    <3> QED BY <1>1, <2>2, <3>4, OutstandingInt, LedgerAssumption
  <2> QED BY <2>1, <2>2
<1>6. refs \in [Invoices -> 0..Total] /\ left(open) \in Nat
  BY <1>4, <1>5
<1> HIDE DEF refs
<1> QED BY <1>3, <1>5, <1>6 DEF DraftDoc

-----------------------------------------------------------------------------
(* What requests have looked at, when another one commits.                 *)

LEMMA CallsStayFit ==
  ASSUME LedgerInv, LedgerTypeOK', NEW r \in Requests, NEW c, NEW saved, Commit(r, c, saved),
         \A p \in Payments : p \in saved \/ payment'[p] = payment[p] \/ payment[p] = None,
         \A i \in Invoices : i \in saved \/ invoice'[i] = invoice[i],
         \A i \in Invoices : i \in saved \/ Outstanding(i) <= Outstanding(i)',
         NEW q \in Requests, q # r
  PROVE  CallFits(q)'
<1>1. CASE call[q].op = "none"
  BY <1>1, LedgerCall DEF LedgerInv, Commit, CallFits, PaymentIsDraft, PaymentIsPosted,
     InvoiceIsDraft, InvoiceIsPosted, SubmitFits, CollectFits
<1>2. CASE call[q].op # "none"
  <2>1. call'[q] = call[q] /\ stale'[q] = stale[q] \cup saved
    BY <1>2, LedgerCall DEF LedgerInv, Commit
  <2>2. CallFits(q)
    BY DEF LedgerInv
  <2>3. PaymentIsDraft(q)' /\ PaymentIsPosted(q)'
    BY <2>1, <2>2, LedgerCall DEF LedgerInv, CallFits, PaymentIsDraft, PaymentIsPosted, Posted, Fresh
  <2>4. InvoiceIsDraft(q)' /\ InvoiceIsPosted(q)'
    <3>1. call[q].op \in {"post", "delete", "cancel"} => call[q].i \in Invoices
      BY LedgerCall DEF LedgerInv
    <3> QED BY <2>1, <2>2, <3>1 DEF LedgerInv, CallFits, InvoiceIsDraft, InvoiceIsPosted, Fresh
  <2>5. \A i \in Invoices : Outstanding(i) \in Int /\ Outstanding(i)' \in Int
    BY OutstandingFacts, OutstandingNext DEF LedgerInv
  <2>6. SubmitFits(q)'
    <3> SUFFICES ASSUME call[q].op = "submit", call[q].fits, call[q].p \notin stale'[q],
                        NEW i \in Invoices, i \notin stale'[q], payment'[call[q].p].refs[i] > 0
                 PROVE  payment'[call[q].p].refs[i] <= Outstanding(i)'
      BY <2>1 DEF SubmitFits, Fresh
    <3>1. PICK p : p = call[q].p
      OBVIOUS
    <3>2. p \in Payments /\ payment[p] # None /\ p \notin saved /\ i \notin saved
          /\ p \notin stale[q] /\ i \notin stale[q]
      BY <2>1, <2>2, <3>1, LedgerCall DEF LedgerInv, CallFits, PaymentIsDraft, Fresh
    <3>3. payment'[p] = payment[p] /\ Outstanding(i) <= Outstanding(i)'
      BY <3>2
    <3>4. payment[p].refs[i] > 0 => payment[p].refs[i] <= Outstanding(i)
      BY <2>2, <3>1, <3>2 DEF CallFits, SubmitFits, Fresh
    <3>5. payment[p].refs[i] \in Nat
      BY <3>2, DocFacts DEF LedgerInv, LedgerTypeOK
    <3> QED BY <2>5, <3>1, <3>3, <3>4, <3>5
  <2>7. CollectFits(q)'
    <3> SUFFICES ASSUME call[q].op = "collect", NEW i \in Invoices, i \notin stale'[q],
                        call[q].doc.refs[i] > 0
                 PROVE  call[q].doc.refs[i] <= Outstanding(i)'
      BY <2>1 DEF CollectFits, Fresh
    <3>1. PICK d : d = call[q].doc
      OBVIOUS
    <3>2. d \in PaymentDoc /\ i \notin saved /\ i \notin stale[q]
      BY <2>1, <3>1, LedgerCall, DraftDocFacts DEF LedgerInv
    <3>3. d.refs[i] <= Outstanding(i)
      BY <2>2, <3>1, <3>2 DEF CallFits, CollectFits, Fresh
    <3>4. d.refs[i] \in Nat
      BY <3>2, DocFacts
    <3> QED BY <2>5, <3>1, <3>2, <3>3, <3>4
  <2> QED BY <2>3, <2>4, <2>6, <2>7 DEF CallFits
<1> QED BY <1>1, <1>2

LEMMA CommitKeeps ==
  ASSUME LedgerInv, LedgerTypeOK', NeverOverpaid', NEW r \in Requests, NEW c \in LedgerCalls,
         NEW saved, Commit(r, c, saved), CallFits(r)',
         \A p \in Payments : p \in saved \/ payment'[p] = payment[p] \/ payment[p] = None,
         \A i \in Invoices : i \in saved \/ invoice'[i] = invoice[i],
         \A i \in Invoices : i \in saved \/ Outstanding(i) <= Outstanding(i)'
  PROVE  LedgerInv'
<1>1. call' \in [Requests -> LedgerCalls]
  BY DEF LedgerInv, Commit
<1>2. \A q \in Requests : CallFits(q)'
  BY CallsStayFit
<1> QED BY <1>1, <1>2 DEF LedgerInv

LEMMA EndKeeps ==
  ASSUME LedgerInv, LedgerTypeOK', NeverOverpaid', NEW r \in Requests, NEW saved, Done(r, saved),
         \A p \in Payments : p \in saved \/ payment'[p] = payment[p] \/ payment[p] = None,
         \A i \in Invoices : i \in saved \/ invoice'[i] = invoice[i],
         \A i \in Invoices : i \in saved \/ Outstanding(i) <= Outstanding(i)'
  PROVE  LedgerInv'
<1>1. call'[r].op = "none" /\ Idle \in LedgerCalls
  BY LedgerCall DEF LedgerInv, Done, Commit
<1>2. CallFits(r)'
  BY <1>1 DEF CallFits, PaymentIsDraft, PaymentIsPosted, InvoiceIsDraft, InvoiceIsPosted,
     SubmitFits, CollectFits
<1> QED BY <1>1, <1>2, CommitKeeps DEF Done

\* A request loads: the others see no change.
LEMMA LoadKeeps ==
  ASSUME LedgerInv, NEW r \in Requests, NEW c \in LedgerCalls, Load(r, c),
         UNCHANGED <<invoice, payment>>, CallFits(r)'
  PROVE  LedgerInv'
<1>1. /\ call' \in [Requests -> LedgerCalls] /\ stale' = stale
      /\ \A q \in Requests \ {r} : call'[q] = call[q]
  BY DEF LedgerInv, Load
<1>2. LedgerTypeOK' /\ NeverOverpaid'
  BY OutstandingSame DEF LedgerInv, LedgerTypeOK, NeverOverpaid, Posted, Settles
<1>3. \A q \in Requests : CallFits(q)'
  <2> SUFFICES ASSUME NEW q \in Requests, q # r PROVE CallFits(q)'
    OBVIOUS
  <2>1. call'[q] = call[q] /\ CallFits(q)
    BY <1>1 DEF LedgerInv
  <2> QED BY <1>1, <2>1, OutstandingSame DEF CallFits, PaymentIsDraft, PaymentIsPosted,
     InvoiceIsDraft, InvoiceIsPosted, SubmitFits, CollectFits, Posted, Fresh
<1> QED BY <1>1, <1>2, <1>3 DEF LedgerInv

\* A step in which no payment settles more than before, and no invoice is posted.
LEMMA NoMorePaid ==
  ASSUME LedgerInv, LedgerTypeOK',
         \A p \in Payments : Posted(p)' =>
           Posted(p) /\ \A i \in Invoices : payment'[p].refs[i] <= payment[p].refs[i],
         \A i \in Invoices : invoice'[i] = "Posted" => invoice[i] = "Posted",
         \A i \in Invoices : invoice[i] = "Posted" =>
           \/ invoice'[i] = "Posted"
           \/ \A p \in Payments : Posted(p)' => payment'[p].refs[i] = 0
  PROVE  /\ NeverOverpaid'
         /\ \A i \in Invoices : invoice'[i] = invoice[i] => Outstanding(i) <= Outstanding(i)'
<1>1. ASSUME NEW p \in Payments, Posted(p)', NEW i \in Invoices
      PROVE  /\ payment'[p].refs[i] \in Nat /\ payment[p].refs[i] \in Nat
             /\ payment'[p].refs[i] <= payment[p].refs[i]
  <2>1. payment'[p] \in PaymentDoc /\ payment[p] \in PaymentDoc
    BY <1>1 DEF LedgerInv, LedgerTypeOK, Posted
  <2> QED BY <1>1, <2>1, DocFacts
<1>2. ASSUME NEW i \in Invoices
      PROVE  Paid(i) \in Nat /\ Paid(i)' \in Nat /\ Paid(i)' <= Paid(i)
  BY <1>1, PaidFacts, PaidNext, PaidLess DEF LedgerInv
<1>3. ASSUME NEW i \in Invoices
      PROVE  Outstanding(i)' >= 0 /\ (invoice'[i] = invoice[i] => Outstanding(i) <= Outstanding(i)')
  <2>1. Outstanding(i) >= 0 /\ Total \in Nat
    BY LedgerAssumption DEF LedgerInv, NeverOverpaid
  <2>2. CASE invoice'[i] = "Posted"
    <3>1. invoice[i] = "Posted" /\ Outstanding(i) = Total - Paid(i)
      BY <2>2 DEF Outstanding
    <3>2. Outstanding(i)' = Total - Paid(i)'
      BY <2>2 DEF Outstanding
    <3> QED BY <1>2, <2>1, <3>1, <3>2
  <2>3. CASE invoice'[i] # "Posted"
    <3>1. Outstanding(i)' = 0 /\ (invoice'[i] = invoice[i] => Outstanding(i) = 0)
      BY <2>3 DEF Outstanding
    <3> QED BY <2>1, <3>1
  <2> QED BY <2>2, <2>3
<1>4. ASSUME NEW i \in Invoices, invoice'[i] # "Posted", NEW p \in Payments, Posted(p)', Settles(p, i)'
      PROVE  FALSE
  <2>1. payment'[p].refs[i] > 0 /\ Posted(p) /\ payment[p] # None
    BY <1>4 DEF Settles, Posted
  <2>2. payment'[p].refs[i] # 0
    BY <2>1, <1>1, <1>4
  <2>3. invoice[i] # "Posted"
    BY <1>4, <2>2
  <2>4. payment[p].refs[i] > 0
    BY <2>1, <1>1, <1>4
  <2> QED BY <2>1, <2>3, <2>4 DEF LedgerInv, NeverOverpaid, Settles
<1> QED BY <1>3, <1>4 DEF NeverOverpaid

\* A payment is posted for no more than is outstanding.
LEMMA OneMorePaid ==
  ASSUME LedgerInv, LedgerTypeOK', NEW p \in Payments, ~Posted(p),
         NEW d \in PaymentDoc, d.status = "Posted", payment' = [payment EXCEPT ![p] = d],
         invoice' = invoice,
         \A i \in Invoices : d.refs[i] > 0 => d.refs[i] <= Outstanding(i)
  PROVE  /\ NeverOverpaid'
         /\ \A i \in Invoices : d.refs[i] > 0 \/ Outstanding(i) <= Outstanding(i)'
<1>1. payment'[p] = d /\ \A q \in Payments \ {p} : payment'[q] = payment[q]
  BY DEF LedgerInv, LedgerTypeOK
<1>2. ASSUME NEW i \in Invoices
      PROVE  /\ Outstanding(i)' >= 0
             /\ d.refs[i] > 0 => invoice[i] = "Posted"
             /\ d.refs[i] > 0 \/ Outstanding(i) <= Outstanding(i)'
  <2>1. /\ Paid(i) \in Nat /\ d.refs[i] \in Nat /\ Outstanding(i) \in Int /\ Outstanding(i) >= 0
        /\ Total \in Nat /\ (Outstanding(i) > 0 => invoice[i] = "Posted")
    BY PaidFacts, DocFacts, OutstandingFacts, LedgerAssumption DEF LedgerInv, NeverOverpaid
  <2>2. Paid(i)' = Paid(i) + d.refs[i]
    BY PaidMore DEF LedgerInv
  <2>3. CASE invoice[i] = "Posted"
    <3>1. Outstanding(i)' = Total - Paid(i)' /\ Outstanding(i) = Total - Paid(i)
      BY <2>3 DEF Outstanding
    <3> QED BY <2>1, <2>2, <2>3, <3>1
  <2>4. CASE invoice[i] # "Posted"
    <3>1. Outstanding(i)' = 0 /\ Outstanding(i) = 0
      BY <2>4 DEF Outstanding
    <3> QED BY <2>1, <2>4, <3>1
  <2> QED BY <2>3, <2>4
<1>3. ASSUME NEW i \in Invoices, invoice'[i] # "Posted", NEW q \in Payments, Posted(q)', Settles(q, i)'
      PROVE  FALSE
  <2>1. CASE q = p
    BY <1>1, <1>2, <1>3, <2>1 DEF Settles
  <2>2. CASE q # p
    BY <1>1, <1>3, <2>2 DEF Settles, Posted, LedgerInv, NeverOverpaid
  <2> QED BY <2>1, <2>2
<1> QED BY <1>2, <1>3 DEF NeverOverpaid

-----------------------------------------------------------------------------
(* What a step may do to a posted payment.                                 *)

Kept(p) ==
  /\ payment'[p] # None /\ Amount(payment'[p]) = Amount(payment[p])
  /\ payment'[p].status = "Cancelled" =>
       \/ \E r \in Requests : call[r].op = "cancel payment" /\ call[r].p = p
       \/ \E i \in Invoices : invoice'[i] # invoice[i] /\ payment[p].refs[i] = Amount(payment[p])

LEMMA KeptUntouched ==
  ASSUME NEW p, Posted(p), payment'[p] = payment[p]
  PROVE  Kept(p)
BY DEF Kept, Posted, Amount

LEMMA KeptNewStatus ==
  ASSUME LedgerTypeOK, NEW p \in Payments, Posted(p), NEW s \in {"Posted", "Cancelled"},
         payment' = [payment EXCEPT ![p].status = s]
  PROVE  payment'[p] # None /\ Amount(payment'[p]) = Amount(payment[p])
<1>1. payment[p] \in PaymentDoc
  BY DEF Posted, LedgerTypeOK
<1>2. payment'[p].refs = payment[p].refs /\ payment'[p].free = payment[p].free
      /\ payment'[p] \in PaymentDoc
  BY <1>1 DEF LedgerTypeOK, PaymentDoc
<1> QED BY <1>2, DocFacts DEF Amount

-----------------------------------------------------------------------------
(* The steps.                                                              *)

LEMMA LoadPaymentKeeps ==
  ASSUME LedgerInv, NEW r \in Requests, NEW p \in Payments, NEW amount \in Nat, NEW chosen,
         NEW asked \in [chosen -> 1..Total], NEW op \in {"pay", "collect"},
         LoadPayment(r, p, amount, asked, op)
  PROVE  LedgerInv'
<1>1. PICK d : d = Spread(amount, asked)
  OBVIOUS
<1>2. PICK c : c = [op |-> op, p |-> p, doc |-> d]
  OBVIOUS
<1>3. d \in DraftDoc /\ \A i \in Invoices : d.refs[i] > 0 => d.refs[i] <= Outstanding(i)
  BY <1>1, SpreadFits DEF LoadPayment, LedgerInv
<1>4. c \in LedgerCalls /\ c.op = op /\ c.p = p /\ c.doc = d
  BY <1>2, <1>3 DEF LedgerCalls
<1>5. Load(r, c) /\ UNCHANGED <<invoice, payment>>
  BY <1>1, <1>2 DEF LoadPayment
<1>6. call'[r] = c
  BY <1>5 DEF Load, LedgerInv
<1>7. CallFits(r)'
  BY <1>3, <1>4, <1>5, <1>6, OutstandingSame DEF CallFits, PaymentIsDraft, PaymentIsPosted,
     InvoiceIsDraft, InvoiceIsPosted, SubmitFits, CollectFits
<1> QED BY <1>4, <1>5, <1>7, LoadKeeps

LEMMA FitsOrNot == \A refs : \E f \in BOOLEAN : f = Fits(refs)
<1> SUFFICES ASSUME NEW refs PROVE \E f \in BOOLEAN : f = Fits(refs)
  OBVIOUS
<1>1. CASE Fits(refs)
  <2>1. Fits(refs) = TRUE
    BY <1>1
  <2> QED BY <2>1
<1>2. CASE ~Fits(refs)
  <2>1. Fits(refs) = FALSE
    BY <1>2
  <2> QED BY <2>1
<1> QED BY <1>1, <1>2

LEMMA LoadSubmitKeeps ==
  ASSUME LedgerInv, NEW r \in Requests, NEW p \in Payments, LoadSubmit(r, p)
  PROVE  LedgerInv'
<1>1. PICK f \in BOOLEAN : f = Fits(payment[p].refs)
  BY FitsOrNot
<1>2. PICK c : c = [op |-> "submit", p |-> p, fits |-> f]
  OBVIOUS
<1>3. c \in LedgerCalls /\ c.op = "submit" /\ c.p = p /\ c.fits = f
  BY <1>2 DEF LedgerCalls
<1>4. Load(r, c) /\ UNCHANGED <<invoice, payment>> /\ payment[p] # None /\ payment[p].status = "Draft"
  BY <1>1, <1>2 DEF LoadSubmit
<1>5. call'[r] = c
  BY <1>4 DEF Load, LedgerInv
<1>6. f => \A i \in Invoices : payment[p].refs[i] > 0 => payment[p].refs[i] <= Outstanding(i)
  BY <1>1 DEF Fits, Settled
<1>7. CallFits(r)'
  BY <1>3, <1>4, <1>5, <1>6, OutstandingSame DEF CallFits, PaymentIsDraft, PaymentIsPosted,
     InvoiceIsDraft, InvoiceIsPosted, SubmitFits, CollectFits
<1> QED BY <1>3, <1>4, <1>7, LoadKeeps

LEMMA LoadPaymentDraftKeeps ==
  ASSUME LedgerInv, NEW r \in Requests, NEW p \in Payments,
         \/ \E op \in {"edit payment", "delete payment"} : LoadPaymentDraft(r, p, op)
         \/ LoadCancelPayment(r, p)
  PROVE  LedgerInv'
<1>1. PICK op \in {"edit payment", "delete payment", "cancel payment"} :
        /\ Load(r, [op |-> op, p |-> p]) /\ UNCHANGED <<invoice, payment>>
        /\ op = "cancel payment" => Posted(p)
        /\ op # "cancel payment" => payment[p] # None /\ payment[p].status = "Draft"
  BY DEF LoadPaymentDraft, LoadCancelPayment
<1>2. PICK c : c = [op |-> op, p |-> p]
  OBVIOUS
<1>3. c \in LedgerCalls /\ c.op = op /\ c.p = p
  BY <1>2 DEF LedgerCalls
<1>4. call'[r] = c
  BY <1>1, <1>2 DEF Load, LedgerInv
<1>5. CallFits(r)'
  BY <1>1, <1>3, <1>4 DEF CallFits, PaymentIsDraft, PaymentIsPosted,
     InvoiceIsDraft, InvoiceIsPosted, SubmitFits, CollectFits, Posted
<1> QED BY <1>1, <1>2, <1>3, <1>5, LoadKeeps

LEMMA LoadInvoiceKeeps ==
  ASSUME LedgerInv, NEW r \in Requests, NEW i \in Invoices,
         NEW op \in {"post", "cancel", "edit", "delete"}, LoadInvoice(r, i, op)
  PROVE  LedgerInv'
<1>1. PICK c : c = [op |-> op, i |-> i]
  OBVIOUS
<1>2. c \in LedgerCalls /\ c.op = op /\ c.i = i
  BY <1>1 DEF LedgerCalls
<1>3. /\ Load(r, c) /\ UNCHANGED <<invoice, payment>>
      /\ op = "cancel" => invoice[i] = "Posted"
      /\ op # "cancel" => invoice[i] = "Draft"
  BY <1>1 DEF LoadInvoice
<1>4. call'[r] = c
  BY <1>3 DEF Load, LedgerInv
<1>5. CallFits(r)'
  BY <1>2, <1>3, <1>4 DEF CallFits, PaymentIsDraft, PaymentIsPosted,
     InvoiceIsDraft, InvoiceIsPosted, SubmitFits, CollectFits
<1> QED BY <1>2, <1>3, <1>5, LoadKeeps

LEMMA DraftKeeps ==
  ASSUME LedgerInv, NEW r \in Requests, Draft(r)
  PROVE  LedgerInv' /\ \A p \in Payments : Posted(p) => Kept(p)
<1>1. PICK p : p = call[r].p
  OBVIOUS
<1>2. PICK d : d = call[r].doc
  OBVIOUS
<1>3. PICK f \in BOOLEAN : f = Fits(d.refs)
  BY FitsOrNot
<1>4. PICK c : c = [op |-> "submit", p |-> p, fits |-> f]
  OBVIOUS
<1>5. /\ p \in Payments /\ d \in PaymentDoc /\ d.status = "Draft" /\ d # None
      /\ c \in LedgerCalls /\ c.op = "submit" /\ c.p = p /\ c.fits = f
  BY <1>1, <1>2, <1>4, LedgerCall, DraftDocFacts, DocFacts DEF Draft, LedgerInv, LedgerCalls
<1>6. /\ payment[p] = None /\ payment' = [payment EXCEPT ![p] = d] /\ invoice' = invoice
      /\ Commit(r, c, {})
  BY <1>1, <1>2, <1>3, <1>4 DEF Draft
<1>7. payment'[p] = d /\ \A q \in Payments \ {p} : payment'[q] = payment[q]
  BY <1>5, <1>6 DEF LedgerInv, LedgerTypeOK
<1>8. LedgerTypeOK'
  BY <1>5, <1>6 DEF LedgerInv, LedgerTypeOK
<1>9. ASSUME NEW q \in Payments, Posted(q)'
      PROVE  Posted(q) /\ \A i \in Invoices : payment'[q].refs[i] <= payment[q].refs[i]
  <2>1. q # p /\ payment'[q] = payment[q]
    BY <1>5, <1>7, <1>9 DEF Posted
  <2>2. Posted(q) /\ payment[q] \in PaymentDoc
    BY <1>9, <2>1 DEF Posted, LedgerInv, LedgerTypeOK
  <2> QED BY <2>1, <2>2, DocFacts
<1>10. NeverOverpaid' /\ \A i \in Invoices : Outstanding(i) <= Outstanding(i)'
  BY <1>6, <1>8, <1>9, NoMorePaid
<1>11. f => \A i \in Invoices : d.refs[i] > 0 => d.refs[i] <= Outstanding(i)
  BY <1>3 DEF Fits, Settled
<1>12. call'[r] = c
  BY <1>6 DEF Commit, LedgerInv
<1>13. ASSUME f, NEW i \in Invoices, d.refs[i] > 0 PROVE d.refs[i] <= Outstanding(i)'
  <2>1. d.refs[i] \in Nat /\ Outstanding(i) \in Int /\ Outstanding(i)' \in Int
    BY <1>5, <1>8, DocFacts, OutstandingInt, OutstandingNext DEF LedgerInv
  <2>2. d.refs[i] <= Outstanding(i) /\ Outstanding(i) <= Outstanding(i)'
    BY <1>10, <1>11, <1>13
  <2> QED BY <2>1, <2>2
<1>14. CallFits(r)'
  BY <1>5, <1>7, <1>12, <1>13 DEF CallFits, PaymentIsDraft, PaymentIsPosted,
     InvoiceIsDraft, InvoiceIsPosted, SubmitFits, CollectFits
<1>15. LedgerInv'
  BY <1>5, <1>6, <1>7, <1>8, <1>10, <1>14, CommitKeeps
<1> QED BY <1>6, <1>7, <1>15, KeptUntouched DEF Posted

\* Submit and Collect.
LEMMA PostKeeps ==
  ASSUME LedgerInv, NEW r \in Requests, NEW p \in Payments, ~Posted(p),
         NEW d \in PaymentDoc, d.status = "Posted", payment' = [payment EXCEPT ![p] = d],
         invoice' = invoice, Done(r, Touched(p)),
         \A i \in Invoices : d.refs[i] > 0 => d.refs[i] <= Outstanding(i)
  PROVE  LedgerInv' /\ \A q \in Payments : Posted(q) => Kept(q)
<1>1. payment'[p] = d /\ \A q \in Payments \ {p} : payment'[q] = payment[q]
  BY DEF LedgerInv, LedgerTypeOK
<1>2. LedgerTypeOK'
  BY DEF LedgerInv, LedgerTypeOK
<1>3. NeverOverpaid' /\ \A i \in Invoices : d.refs[i] > 0 \/ Outstanding(i) <= Outstanding(i)'
  BY <1>2, OneMorePaid
<1>4. p \in Touched(p) /\ \A i \in Invoices : d.refs[i] > 0 => i \in Touched(p)
  BY <1>1 DEF Touched
<1>5. LedgerInv'
  BY <1>1, <1>2, <1>3, <1>4, EndKeeps
<1> QED BY <1>1, <1>5, KeptUntouched

LEMMA SubmitKeeps ==
  ASSUME SnapshotIsolation, LedgerInv, NEW r \in Requests, Submit(r)
  PROVE  LedgerInv' /\ \A q \in Payments : Posted(q) => Kept(q)
<1>1. PICK p : p = call[r].p
  OBVIOUS
<1>2. /\ call[r].op = "submit" /\ call[r].fits /\ p \in Payments /\ Fresh(r, p)
      /\ \A i \in Settled(payment[p].refs) : Fresh(r, i)
      /\ payment' = [payment EXCEPT ![p].status = "Posted"] /\ Done(r, Touched(p))
      /\ invoice' = invoice
  BY <1>1, LedgerCall DEF Submit, LedgerInv
<1>3. payment[p] # None /\ payment[p].status = "Draft" /\ payment[p] \in PaymentDoc
  BY <1>1, <1>2 DEF LedgerInv, CallFits, PaymentIsDraft, LedgerTypeOK
<1>4. PICK d : d = [payment[p] EXCEPT !.status = "Posted"]
  OBVIOUS
<1>5. d \in PaymentDoc /\ d.status = "Posted" /\ d.refs = payment[p].refs
  BY <1>3, <1>4 DEF PaymentDoc
<1>6. payment' = [payment EXCEPT ![p] = d]
  BY <1>2, <1>4
<1>7. \A i \in Invoices : d.refs[i] > 0 => d.refs[i] <= Outstanding(i)
  BY <1>1, <1>2, <1>5 DEF LedgerInv, CallFits, SubmitFits, Settled
<1> QED BY <1>2, <1>3, <1>5, <1>6, <1>7, PostKeeps DEF Posted

LEMMA CollectKeeps ==
  ASSUME SnapshotIsolation, LedgerInv, NEW r \in Requests, Collect(r)
  PROVE  LedgerInv' /\ \A q \in Payments : Posted(q) => Kept(q)
<1>1. PICK p : p = call[r].p
  OBVIOUS
<1>2. PICK d : d = [call[r].doc EXCEPT !.status = "Posted"]
  OBVIOUS
<1>3. /\ call[r].op = "collect" /\ p \in Payments /\ call[r].doc \in PaymentDoc
      /\ payment[p] = None /\ \A i \in Settled(call[r].doc.refs) : Fresh(r, i)
      /\ payment' = [payment EXCEPT ![p] = d] /\ Done(r, Touched(p)) /\ invoice' = invoice
  BY <1>1, <1>2, LedgerCall, DraftDocFacts DEF Collect, LedgerInv
<1>4. d \in PaymentDoc /\ d.status = "Posted" /\ d.refs = call[r].doc.refs
  BY <1>2, <1>3 DEF PaymentDoc
<1>5. \A i \in Invoices : d.refs[i] > 0 => d.refs[i] <= Outstanding(i)
  BY <1>3, <1>4 DEF LedgerInv, CallFits, CollectFits, Settled
<1> QED BY <1>3, <1>4, <1>5, PostKeeps DEF Posted

\* A step that changes one payment to one that is not posted.
LEMMA WithdrawKeeps ==
  ASSUME LedgerInv, NEW r \in Requests, NEW p \in Payments, NEW d \in PaymentDoc \cup {None},
         d = None \/ d.status # "Posted", payment' = [payment EXCEPT ![p] = d],
         invoice' = invoice, NEW saved, p \in saved, Done(r, saved)
  PROVE  LedgerInv' /\ \A q \in Payments \ {p} : payment'[q] = payment[q]
<1>1. payment'[p] = d /\ \A q \in Payments \ {p} : payment'[q] = payment[q]
  BY DEF LedgerInv, LedgerTypeOK
<1>2. LedgerTypeOK'
  BY DEF LedgerInv, LedgerTypeOK
<1>3. ASSUME NEW q \in Payments, Posted(q)'
      PROVE  Posted(q) /\ \A i \in Invoices : payment'[q].refs[i] <= payment[q].refs[i]
  <2>1. q # p /\ payment'[q] = payment[q]
    BY <1>1, <1>3 DEF Posted
  <2>2. Posted(q) /\ payment[q] \in PaymentDoc
    BY <1>3, <2>1 DEF Posted, LedgerInv, LedgerTypeOK
  <2> QED BY <2>1, <2>2, DocFacts
<1>4. NeverOverpaid' /\ \A i \in Invoices : Outstanding(i) <= Outstanding(i)'
  BY <1>2, <1>3, NoMorePaid
<1>5. LedgerInv'
  BY <1>1, <1>2, <1>4, EndKeeps
<1> QED BY <1>1, <1>5

LEMMA DeletePaymentKeeps ==
  ASSUME SnapshotIsolation, LedgerInv, NEW r \in Requests, DeletePayment(r)
  PROVE  LedgerInv' /\ \A q \in Payments : Posted(q) => Kept(q)
<1>1. PICK p : p = call[r].p
  OBVIOUS
<1>2. /\ p \in Payments /\ payment[p].status = "Draft" /\ Done(r, {p}) /\ invoice' = invoice
      /\ payment' = [payment EXCEPT ![p] = None]
  BY <1>1, LedgerCall DEF DeletePayment, LedgerInv, CallFits, PaymentIsDraft
<1>3. LedgerInv' /\ \A q \in Payments \ {p} : payment'[q] = payment[q]
  BY <1>2, WithdrawKeeps
<1> QED BY <1>2, <1>3, KeptUntouched DEF Posted

LEMMA CancelPaymentKeeps ==
  ASSUME LedgerInv, NEW r \in Requests, CancelPayment(r)
  PROVE  LedgerInv' /\ \A q \in Payments : Posted(q) => Kept(q)
<1>1. PICK p : p = call[r].p
  OBVIOUS
<1>2. /\ p \in Payments /\ call[r].op = "cancel payment" /\ Fresh(r, p)
      /\ Done(r, Touched(p)) /\ invoice' = invoice
      /\ payment' = [payment EXCEPT ![p].status = "Cancelled"]
  BY <1>1, LedgerCall DEF CancelPayment, LedgerInv
<1>3. Posted(p) /\ payment[p] \in PaymentDoc
  BY <1>1, <1>2 DEF LedgerInv, CallFits, PaymentIsPosted, Posted, LedgerTypeOK
<1>4. PICK d : d = [payment[p] EXCEPT !.status = "Cancelled"]
  OBVIOUS
<1>5. d \in PaymentDoc /\ d.status = "Cancelled" /\ payment' = [payment EXCEPT ![p] = d]
  BY <1>2, <1>3, <1>4 DEF PaymentDoc
<1>6. LedgerInv' /\ \A q \in Payments \ {p} : payment'[q] = payment[q]
  BY <1>2, <1>5, WithdrawKeeps DEF Touched
<1>7. Kept(p)
  BY <1>1, <1>2, <1>3, KeptNewStatus DEF Kept, LedgerInv
<1> QED BY <1>6, <1>7, KeptUntouched

\* A step that changes no payment and posts no invoice.
LEMMA InvoiceKeeps ==
  ASSUME LedgerInv, NEW r \in Requests, NEW saved, Done(r, saved), payment' = payment,
         LedgerTypeOK',
         \A i \in Invoices : i \in saved \/ invoice'[i] = invoice[i],
         \A i \in Invoices : invoice'[i] = invoice[i]
           \/ (invoice[i] # "Posted" /\ invoice'[i] # "Posted")
  PROVE  LedgerInv' /\ \A q \in Payments : Posted(q) => Kept(q)
<1>1. ASSUME NEW q \in Payments, Posted(q)'
      PROVE  Posted(q) /\ \A i \in Invoices : payment'[q].refs[i] <= payment[q].refs[i]
  <2>1. Posted(q) /\ payment[q] \in PaymentDoc
    BY <1>1 DEF Posted, LedgerInv, LedgerTypeOK
  <2> QED BY <2>1, DocFacts
<1>2. NeverOverpaid' /\ \A i \in Invoices : invoice'[i] = invoice[i] => Outstanding(i) <= Outstanding(i)'
  BY <1>1, NoMorePaid
<1>3. LedgerInv'
  BY <1>2, EndKeeps
<1> QED BY <1>3, KeptUntouched

LEMMA QuietKeeps ==
  ASSUME SnapshotIsolation, LedgerInv, NEW r \in Requests,
         SavePayment(r) \/ SaveDraft(r) \/ DeleteDraft(r) \/ GiveUpLedger(r)
  PROVE  LedgerInv' /\ \A q \in Payments : Posted(q) => Kept(q)
<1>1. CASE DeleteDraft(r)
  <2>1. PICK i : i = call[r].i
    OBVIOUS
  <2>2. /\ i \in Invoices /\ invoice[i] = "Draft" /\ Done(r, {i}) /\ payment' = payment
        /\ invoice' = [invoice EXCEPT ![i] = None]
    BY <1>1, <2>1, LedgerCall DEF DeleteDraft, LedgerInv, CallFits, InvoiceIsDraft
  <2>3. /\ LedgerTypeOK' /\ invoice'[i] = None
        /\ \A j \in Invoices \ {i} : invoice'[j] = invoice[j]
    BY <2>2 DEF LedgerInv, LedgerTypeOK
  <2>4. None # "Posted"
    BY PaymentAssumption
  <2> QED BY <2>2, <2>3, <2>4, InvoiceKeeps
<1>2. CASE ~DeleteDraft(r)
  <2>1. PICK saved : Done(r, saved) /\ invoice' = invoice /\ payment' = payment
    BY <1>2 DEF SavePayment, SaveDraft, GiveUpLedger
  <2>2. LedgerTypeOK'
    BY <2>1 DEF LedgerInv, LedgerTypeOK
  <2> QED BY <2>1, <2>2, InvoiceKeeps
<1> QED BY <1>1, <1>2

LEMMA SubmitInvoiceKeeps ==
  ASSUME LedgerInv, NEW r \in Requests, SubmitInvoice(r)
  PROVE  LedgerInv' /\ \A q \in Payments : Posted(q) => Kept(q)
<1>1. PICK i : i = call[r].i
  OBVIOUS
<1>2. /\ i \in Invoices /\ invoice[i] = "Draft" /\ Done(r, {i})
      /\ invoice' = [invoice EXCEPT ![i] = "Posted"]
  BY <1>1, LedgerCall DEF SubmitInvoice, LedgerInv, CallFits, InvoiceIsDraft
<1>3. invoice'[i] = "Posted" /\ \A j \in Invoices \ {i} : invoice'[j] = invoice[j]
  BY <1>2 DEF LedgerInv, LedgerTypeOK
<1>4. Paid(i) = 0 /\ \A q \in Payments : ~(Posted(q) /\ Settles(q, i))
  BY <1>2, PaidNothing DEF LedgerInv, NeverOverpaid
<1>5. CASE payment' = payment
  <2>1. LedgerTypeOK'
    BY <1>2, <1>5 DEF LedgerInv, LedgerTypeOK
  <2>2. \A j \in Invoices : Paid(j)' = Paid(j)
    BY <1>5 DEF Paid, PostedPayments, Posted
  <2>3. \A j \in Invoices \ {i} : Outstanding(j)' = Outstanding(j)
    BY <1>3, <2>2 DEF Outstanding
  <2>4. Outstanding(i)' = Total
    <3>1. Outstanding(i)' = Total - Paid(i)' /\ Paid(i)' = 0
      BY <1>2, <1>3, <1>4, <2>2 DEF Outstanding
    <3> QED BY <3>1, LedgerAssumption
  <2>5. \A j \in Invoices : Outstanding(j)' >= 0
    BY <2>3, <2>4, LedgerAssumption DEF LedgerInv, NeverOverpaid
  <2>6. NeverOverpaid'
    BY <1>3, <1>5, <2>5 DEF LedgerInv, NeverOverpaid, Posted, Settles
  <2>7. \A j \in Invoices : j \in {i} \/ Outstanding(j) <= Outstanding(j)'
    BY <2>3, OutstandingFacts DEF LedgerInv
  <2>8. LedgerInv'
    BY <1>2, <1>3, <1>5, <2>1, <2>6, <2>7, EndKeeps
  <2> QED BY <1>5, <2>8, KeptUntouched
<1>6. CASE payment' # payment
  <2>1. PICK d : d = [status |-> "Posted", free |-> 0,
                      refs |-> [j \in Invoices |-> IF j = i THEN Total ELSE 0]]
    OBVIOUS
  <2>2. PICK p \in Payments : payment[p] = None /\ payment' = [payment EXCEPT ![p] = d]
    BY <1>1, <1>6, <2>1 DEF SubmitInvoice
  <2>3. /\ d \in PaymentDoc /\ d.status = "Posted" /\ d.refs[i] = Total
        /\ \A j \in Invoices \ {i} : d.refs[j] = 0
    BY <1>2, <2>1, LedgerAssumption DEF PaymentDoc
  <2>4. ~Posted(p) /\ payment'[p] = d /\ \A q \in Payments \ {p} : payment'[q] = payment[q]
    BY <2>2 DEF Posted, LedgerInv, LedgerTypeOK
  <2>5. LedgerTypeOK'
    BY <1>2, <2>2, <2>3 DEF LedgerInv, LedgerTypeOK
  <2>6. \A j \in Invoices : Paid(j) \in Nat /\ Paid(j)' = Paid(j) + d.refs[j]
    BY <2>2, <2>3, <2>4, PaidMore, PaidFacts DEF LedgerInv
  <2>7. \A j \in Invoices \ {i} : Outstanding(j)' = Outstanding(j)
    BY <1>3, <2>3, <2>6 DEF Outstanding
  <2>8. Outstanding(i)' = 0
    BY <1>2, <1>3, <1>4, <2>3, <2>6, LedgerAssumption DEF Outstanding
  <2>9. \A j \in Invoices : Outstanding(j)' >= 0
    BY <2>7, <2>8 DEF LedgerInv, NeverOverpaid
  <2>10. ASSUME NEW j \in Invoices, invoice'[j] # "Posted", NEW q \in Payments, Posted(q)', Settles(q, j)'
         PROVE  FALSE
    <3>1. j # i
      BY <1>3, <2>10
    <3>2. CASE q = p
      BY <2>3, <2>4, <2>10, <3>1, <3>2 DEF Settles
    <3>3. CASE q # p
      BY <1>3, <2>4, <2>10, <3>1, <3>3 DEF Settles, Posted, LedgerInv, NeverOverpaid
    <3> QED BY <3>2, <3>3
  <2>11. NeverOverpaid'
    BY <2>9, <2>10 DEF NeverOverpaid
  <2>12. \A j \in Invoices : j \in {i} \/ Outstanding(j) <= Outstanding(j)'
    BY <2>7, OutstandingFacts DEF LedgerInv
  <2>13. LedgerInv'
    BY <1>2, <1>3, <2>2, <2>4, <2>5, <2>11, <2>12, EndKeeps
  <2> QED BY <2>4, <2>13, KeptUntouched
<1> QED BY <1>5, <1>6

\* The payments of a cancelled invoice: one that pays nothing else is cancelled,
\* any other keeps its amount.
Freed(d, i) == [d EXCEPT !.refs[i] = 0, !.free = @ + d.refs[i]]

LEMMA FreedPayment ==
  ASSUME NEW d \in PaymentDoc, NEW i \in Invoices, NEW e, e = Freed(d, i)
  PROVE  /\ e \in PaymentDoc /\ e.status = d.status /\ e.refs[i] = 0
         /\ \A j \in Invoices \ {i} : e.refs[j] = d.refs[j]
         /\ Amount(e) = Amount(d)
<1>1. /\ e.status = d.status /\ e.refs = [d.refs EXCEPT ![i] = 0] /\ e.free = d.free + d.refs[i]
      /\ DOMAIN e = {"status", "refs", "free"} /\ d.status \in {"Draft", "Posted", "Cancelled"}
  BY DEF PaymentDoc, Freed
<1>2. e = [status |-> d.status, refs |-> [d.refs EXCEPT ![i] = 0], free |-> d.free + d.refs[i]]
  BY DEF PaymentDoc, Freed
<1>3. d.refs \in [Invoices -> 0..Total] /\ d.free \in Nat /\ \A j \in Invoices : d.refs[j] \in Nat
  BY DocFacts
<1>4. /\ e.refs \in [Invoices -> 0..Total] /\ e.refs[i] = 0 /\ e.free \in Nat
      /\ \A j \in Invoices \ {i} : e.refs[j] = d.refs[j]
  <2>1. 0 \in 0..Total
    BY LedgerAssumption
  <2>2. d.refs[i] \in Nat
    BY <1>3
  <2> QED BY <1>1, <1>3, <2>1, <2>2
<1>5. e \in PaymentDoc
  BY <1>1, <1>2, <1>4 DEF PaymentDoc
<1>6. IsFiniteSet(Invoices) /\ IsFiniteSet(Invoices \ {i})
  BY LedgerAssumption, FS_RemoveElement
<1>7. SumFunctionOnSet(d.refs, Invoices) = SumFunctionOnSet(d.refs, Invoices \ {i}) + d.refs[i]
  BY <1>3, <1>6, SumSplit
<1>8. SumFunctionOnSet(e.refs, Invoices) = SumFunctionOnSet(e.refs, Invoices \ {i}) + e.refs[i]
  <2>1. \A j \in Invoices : e.refs[j] \in Nat
    BY <1>3, <1>4
  <2> QED BY <1>6, <2>1, SumSplit
<1>9. SumFunctionOnSet(e.refs, Invoices \ {i}) = SumFunctionOnSet(d.refs, Invoices \ {i})
  BY <1>3, <1>4, <1>6, SumSame
<1>10. SumFunctionOnSet(d.refs, Invoices \ {i}) \in Nat
  BY <1>3, <1>6, SumNat
<1>11. Amount(e) = Amount(d)
  <2>1. PICK s \in Nat : s = SumFunctionOnSet(d.refs, Invoices \ {i})
    BY <1>10
  <2>2. Amount(d) = (s + d.refs[i]) + d.free
    BY <1>7, <2>1 DEF Amount
  <2>3. Amount(e) = (s + 0) + (d.free + d.refs[i])
    BY <1>1, <1>4, <1>8, <1>9, <2>1 DEF Amount
  <2>4. d.refs[i] \in Nat /\ d.free \in Nat
    BY <1>3
  <2> QED BY <2>2, <2>3, <2>4
<1> QED BY <1>1, <1>4, <1>5, <1>11

LEMMA OnlyPayment ==
  ASSUME NEW d \in PaymentDoc, NEW i \in Invoices, Settled(d.refs) = {i}, d.free = 0
  PROVE  d.refs[i] = Amount(d)
<1>1. \A j \in Invoices : d.refs[j] \in Nat
  BY DocFacts
<1>2. \A j \in Invoices \ {i} : d.refs[j] = 0
  <2> SUFFICES ASSUME NEW j \in Invoices, j # i PROVE d.refs[j] = 0
    OBVIOUS
  <2>1. ~(d.refs[j] > 0)
    BY DEF Settled
  <2> QED BY <1>1, <2>1
<1>3. SumFunctionOnSet(d.refs, Invoices) = d.refs[i]
  BY <1>1, <1>2, LedgerAssumption, SumOne
<1> QED BY <1>1, <1>3 DEF Amount

LEMMA CancelInvoiceKeeps ==
  ASSUME LedgerInv, NEW r \in Requests, CancelInvoice(r)
  PROVE  LedgerInv' /\ \A q \in Payments : Posted(q) => Kept(q)
<1>1. PICK i : i = call[r].i
  OBVIOUS
<1>2. PICK linked : linked = {p \in Payments : Posted(p) /\ Settles(p, i)}
  OBVIOUS
<1>3. /\ i \in Invoices /\ Fresh(r, i) /\ Done(r, {i} \cup linked)
      /\ invoice' = [invoice EXCEPT ![i] = "Cancelled"]
      /\ payment' = [p \in Payments |->
             IF p \notin linked THEN payment[p]
             ELSE IF PaysOnly(p, i) THEN [payment[p] EXCEPT !.status = "Cancelled"]
             ELSE [payment[p] EXCEPT !.refs[i] = 0, !.free = @ + payment[p].refs[i]]]
  BY <1>1, <1>2, LedgerCall DEF CancelInvoice, LedgerInv
<1>4. i \in Invoices /\ Done(r, {i} \cup linked)
  BY <1>3
<1>5. invoice[i] = "Posted"
  BY <1>1, <1>3, LedgerCall DEF CancelInvoice, LedgerInv, CallFits, InvoiceIsPosted
<1>6. /\ invoice'[i] = "Cancelled" /\ invoice' \in [Invoices -> {None, "Draft", "Posted", "Cancelled"}]
      /\ \A j \in Invoices \ {i} : invoice'[j] = invoice[j]
  BY <1>3 DEF LedgerInv, LedgerTypeOK
<1>7. ASSUME NEW p \in Payments, p \notin linked
      PROVE  payment'[p] = payment[p]
  BY <1>3, <1>7
<1>8. ASSUME NEW p \in linked
      PROVE  /\ p \in Payments /\ Posted(p) /\ payment[p] \in PaymentDoc /\ payment[p] # None
             /\ payment'[p] \in PaymentDoc /\ Amount(payment'[p]) = Amount(payment[p])
             /\ \/ payment'[p].status = "Cancelled" /\ payment[p].refs[i] = Amount(payment[p])
                \/ /\ payment'[p].status = "Posted" /\ payment'[p].refs[i] = 0
                   /\ \A j \in Invoices \ {i} : payment'[p].refs[j] = payment[p].refs[j]
  <2>1. p \in Payments /\ Posted(p) /\ payment[p] # None /\ payment[p].status = "Posted"
    BY <1>2 DEF Posted
  <2>2. payment[p] \in PaymentDoc
    BY <2>1 DEF LedgerInv, LedgerTypeOK
  <2>3. PICK d \in PaymentDoc : d = payment[p]
    BY <2>2
  <2>4. CASE PaysOnly(p, i)
    <3>1. payment'[p] = [d EXCEPT !.status = "Cancelled"]
      BY <1>3, <2>1, <2>3, <2>4
    <3>2. /\ payment'[p] \in PaymentDoc /\ payment'[p].status = "Cancelled"
          /\ payment'[p].refs = d.refs /\ payment'[p].free = d.free
      BY <3>1 DEF PaymentDoc
    <3>3. Amount(payment'[p]) = Amount(d)
      BY <3>2 DEF Amount
    <3>4. d.refs[i] = Amount(d)
      BY <1>3, <2>3, <2>4, OnlyPayment DEF PaysOnly
    <3> QED BY <2>1, <2>2, <2>3, <3>2, <3>3, <3>4
  <2>5. CASE ~PaysOnly(p, i)
    <3>1. payment'[p] = Freed(d, i)
      BY <1>3, <2>1, <2>3, <2>5 DEF Freed
    <3>2. PICK e : e = payment'[p]
      OBVIOUS
    <3>3. /\ e \in PaymentDoc /\ e.status = d.status /\ e.refs[i] = 0
          /\ \A j \in Invoices \ {i} : e.refs[j] = d.refs[j]
          /\ Amount(e) = Amount(d)
      BY <1>4, <3>1, <3>2, FreedPayment
    <3> QED BY <2>1, <2>2, <2>3, <3>2, <3>3
  <2> QED BY <2>4, <2>5
<1>9. LedgerTypeOK'
  <2>1. payment' \in [Payments -> PaymentDoc \cup {None}]
    <3>1. \A p \in Payments : payment'[p] \in PaymentDoc \cup {None}
      BY <1>7, <1>8 DEF LedgerInv, LedgerTypeOK
    <3> QED BY <1>3, <3>1
  <2> QED BY <1>6, <2>1 DEF LedgerTypeOK
<1>10. ASSUME NEW p \in Payments, Posted(p)'
      PROVE  /\ Posted(p) /\ payment'[p].refs[i] = 0
             /\ \A j \in Invoices : payment'[p].refs[j] <= payment[p].refs[j]
  <2>1. CASE p \in linked
    <3>1. payment'[p].status = "Posted"
      BY <1>10 DEF Posted
    <3>2. /\ Posted(p) /\ payment[p] \in PaymentDoc /\ payment'[p].refs[i] = 0
          /\ \A j \in Invoices \ {i} : payment'[p].refs[j] = payment[p].refs[j]
      BY <1>8, <2>1, <3>1
    <3>3. \A j \in Invoices : payment[p].refs[j] \in Nat
      BY <3>2, DocFacts
    <3> QED BY <1>4, <3>2, <3>3
  <2>2. CASE p \notin linked
    <3>1. payment'[p] = payment[p] /\ Posted(p)
      BY <1>7, <1>10, <2>2 DEF Posted
    <3>2. ~Settles(p, i) /\ payment[p] # None
      BY <1>2, <2>2, <3>1 DEF Posted
    <3>3. payment[p] \in PaymentDoc
      BY <3>2 DEF LedgerInv, LedgerTypeOK
    <3>4. \A j \in Invoices : payment[p].refs[j] \in Nat
      BY <3>3, DocFacts
    <3> QED BY <1>4, <3>1, <3>2, <3>4 DEF Settles
  <2> QED BY <2>1, <2>2
<1>11. NeverOverpaid' /\ \A j \in Invoices : invoice'[j] = invoice[j] => Outstanding(j) <= Outstanding(j)'
  <2>1. \A p \in Payments : Posted(p)' =>
          Posted(p) /\ \A j \in Invoices : payment'[p].refs[j] <= payment[p].refs[j]
    BY <1>10
  <2>2. \A j \in Invoices : invoice'[j] = "Posted" => invoice[j] = "Posted"
    BY <1>5, <1>6
  <2>3. \A j \in Invoices : invoice[j] = "Posted" =>
          invoice'[j] = "Posted" \/ \A p \in Payments : Posted(p)' => payment'[p].refs[j] = 0
    BY <1>6, <1>10
  <2> QED BY <1>9, <2>1, <2>2, <2>3, NoMorePaid
<1>12. LedgerInv'
  BY <1>4, <1>6, <1>7, <1>9, <1>11, EndKeeps
<1>13. ASSUME NEW q \in Payments, Posted(q) PROVE Kept(q)
  <2>1. CASE q \in linked
    <3>1. payment'[q] # None
      BY <1>8, <2>1, DocFacts
    <3>2. payment'[q].status = "Cancelled" => payment[q].refs[i] = Amount(payment[q])
      BY <1>8, <2>1
    <3> QED BY <1>3, <1>5, <1>6, <1>8, <2>1, <3>1, <3>2 DEF Kept
  <2>2. CASE q \notin linked
    BY <1>7, <1>13, <2>2, KeptUntouched
  <2> QED BY <2>1, <2>2
<1> QED BY <1>12, <1>13

LEMMA CreateInvoiceKeeps ==
  ASSUME LedgerInv, NEW i \in Invoices, CreateInvoice(i)
  PROVE  LedgerInv' /\ \A q \in Payments : Posted(q) => Kept(q)
<1>1. /\ invoice[i] = None /\ invoice' = [invoice EXCEPT ![i] = "Draft"]
      /\ call' = call /\ stale' = stale /\ payment' = payment
  BY DEF CreateInvoice
<1>2. LedgerTypeOK' /\ invoice'[i] = "Draft" /\ \A j \in Invoices \ {i} : invoice'[j] = invoice[j]
  BY <1>1 DEF LedgerInv, LedgerTypeOK
<1>3. None # "Posted" /\ None # "Draft"
  BY PaymentAssumption
<1>4. \A j \in Invoices : Outstanding(j)' = Outstanding(j)
  <2>1. \A j \in Invoices : Paid(j)' = Paid(j)
    BY <1>1 DEF Paid, PostedPayments, Posted
  <2> QED BY <1>1, <1>2, <1>3, <2>1 DEF Outstanding
<1>5. NeverOverpaid'
  BY <1>1, <1>2, <1>3, <1>4 DEF LedgerInv, NeverOverpaid, Posted, Settles
<1>6. ASSUME NEW q \in Requests PROVE CallFits(q)'
  <2>1. CallFits(q)
    BY DEF LedgerInv
  <2>2. PaymentIsDraft(q)' /\ PaymentIsPosted(q)' /\ SubmitFits(q)' /\ CollectFits(q)'
    BY <1>1, <1>4, <2>1 DEF CallFits, PaymentIsDraft, PaymentIsPosted, SubmitFits, CollectFits,
       Posted, Fresh
  <2>3. call[q].op \in {"post", "delete", "cancel"} => call[q].i \in Invoices
    BY LedgerCall DEF LedgerInv
  <2>4. InvoiceIsDraft(q)' /\ InvoiceIsPosted(q)'
    BY <1>1, <1>2, <1>3, <2>1, <2>3 DEF CallFits, InvoiceIsDraft, InvoiceIsPosted, Fresh
  <2> QED BY <2>2, <2>4 DEF CallFits
<1>7. LedgerInv'
  BY <1>1, <1>2, <1>5, <1>6 DEF LedgerInv
<1> QED BY <1>1, <1>7, KeptUntouched

LEMMA InitLedger == BackendInit /\ LedgerInit => LedgerInv
<1> SUFFICES ASSUME BackendInit, LedgerInit PROVE LedgerInv
  OBVIOUS
<1>1. call \in [Requests -> LedgerCalls] /\ \A r \in Requests : call[r].op = "none"
  BY DEF BackendInit, LedgerCalls, Idle
<1>2. LedgerTypeOK /\ \A r \in Requests : CallFits(r)
  BY <1>1 DEF LedgerInit, LedgerTypeOK, CallFits, PaymentIsDraft, PaymentIsPosted,
     InvoiceIsDraft, InvoiceIsPosted, SubmitFits, CollectFits
<1>3. \A i \in Invoices : Outstanding(i) = 0
  BY PaymentAssumption DEF LedgerInit, Outstanding
<1>4. NeverOverpaid
  BY <1>3 DEF NeverOverpaid, LedgerInit, Posted
<1> QED BY <1>1, <1>2, <1>4 DEF LedgerInv

LEMMA StepKeepsLedger ==
  ASSUME SnapshotIsolation, LedgerInv, LedgerNext
  PROVE  LedgerInv' /\ \A p \in Payments : Posted(p) /\ payment' # payment => Kept(p)
<1>1. ASSUME NEW r \in Requests, NEW p \in Payments, NEW amount \in 1..MaxPay,
             NEW chosen \in SUBSET Invoices, NEW asked \in [chosen -> 1..Total],
             NEW op \in {"pay", "collect"}, LoadPayment(r, p, amount, asked, op)
      PROVE  LedgerInv' /\ payment' = payment
  <2>1. amount \in Nat
    BY LedgerAssumption
  <2> QED BY <1>1, <2>1, LoadPaymentKeeps DEF LoadPayment
<1>2. ASSUME NEW r \in Requests, NEW p \in Payments, LoadSubmit(r, p)
      PROVE  LedgerInv' /\ payment' = payment
  BY <1>2, LoadSubmitKeeps DEF LoadSubmit
<1>3. ASSUME NEW r \in Requests, NEW p \in Payments,
             \/ \E op \in {"edit payment", "delete payment"} : LoadPaymentDraft(r, p, op)
             \/ LoadCancelPayment(r, p)
      PROVE  LedgerInv' /\ payment' = payment
  BY <1>3, LoadPaymentDraftKeeps DEF LoadPaymentDraft, LoadCancelPayment
<1>4. ASSUME NEW r \in Requests, NEW i \in Invoices, NEW op \in {"post", "cancel", "edit", "delete"},
             LoadInvoice(r, i, op)
      PROVE  LedgerInv' /\ payment' = payment
  BY <1>4, LoadInvoiceKeeps DEF LoadInvoice
<1> QED BY <1>1, <1>2, <1>3, <1>4, DraftKeeps, SubmitKeeps, CollectKeeps, DeletePaymentKeeps,
           CancelPaymentKeeps, QuietKeeps, SubmitInvoiceKeeps, CancelInvoiceKeeps,
           CreateInvoiceKeeps DEF LedgerNext

LEMMA StutterKeepsLedger ==
  ASSUME LedgerInv, UNCHANGED <<backendVars, ledgerVars>>
  PROVE  LedgerInv'
<1>1. call' = call /\ stale' = stale /\ invoice' = invoice /\ payment' = payment
  BY DEF backendVars, ledgerVars
<1>2. \A j \in Invoices : Outstanding(j)' = Outstanding(j)
  BY <1>1, OutstandingSame
<1>3. LedgerTypeOK' /\ NeverOverpaid'
  BY <1>1, <1>2 DEF LedgerInv, LedgerTypeOK, NeverOverpaid, Posted, Settles
<1>4. \A q \in Requests : CallFits(q)'
  BY <1>1, <1>2 DEF LedgerInv, CallFits, PaymentIsDraft, PaymentIsPosted,
     InvoiceIsDraft, InvoiceIsPosted, SubmitFits, CollectFits, Posted, Fresh
<1> QED BY <1>1, <1>3, <1>4 DEF LedgerInv

-----------------------------------------------------------------------------
(* Types, whether the snapshot is consistent or not.                       *)

\* A payment that is fresh to a request that posts or cancels it exists.
Stands(r) ==
  call[r].op \in {"submit", "cancel payment"} /\ Fresh(r, call[r].p) =>
    payment[call[r].p] # None

LedgerTyped ==
  /\ LedgerTypeOK
  /\ call \in [Requests -> LedgerCalls]
  /\ \A r \in Requests : Stands(r)

LEMMA CommitTyped ==
  ASSUME LedgerTyped, LedgerTypeOK', NEW r \in Requests, NEW c \in LedgerCalls, NEW saved,
         Commit(r, c, saved), Stands(r)',
         \A p \in Payments : p \in saved \/ payment'[p] # None \/ payment[p] = None
  PROVE  LedgerTyped'
<1>1. call' \in [Requests -> LedgerCalls]
  BY DEF LedgerTyped, Commit
<1>2. ASSUME NEW q \in Requests, q # r PROVE Stands(q)'
  <2>1. CASE call[q].op = "none"
    BY <1>2, <2>1 DEF Stands, Commit, LedgerTyped
  <2>2. CASE call[q].op # "none"
    <3>1. call'[q] = call[q] /\ stale'[q] = stale[q] \cup saved
      BY <1>2, <2>2, LedgerCall DEF LedgerTyped, Commit
    <3>2. Stands(q) /\ (call[q].op \in {"submit", "cancel payment"} => call[q].p \in Payments)
      BY LedgerCall DEF LedgerTyped
    <3> QED BY <3>1, <3>2 DEF Stands, Fresh
  <2> QED BY <2>1, <2>2
<1> QED BY <1>1, <1>2 DEF LedgerTyped

LEMMA DoneTyped ==
  ASSUME LedgerTyped, LedgerTypeOK', NEW r \in Requests, NEW saved, Done(r, saved),
         \A p \in Payments : p \in saved \/ payment'[p] # None \/ payment[p] = None
  PROVE  LedgerTyped'
<1>1. call'[r].op = "none" /\ Idle \in LedgerCalls
  BY LedgerCall DEF LedgerTyped, Done, Commit
<1>2. Stands(r)'
  BY <1>1 DEF Stands
<1> QED BY <1>2, <1>1, CommitTyped DEF Done

LEMMA LoadTyped ==
  ASSUME LedgerTyped, NEW r \in Requests, NEW c \in LedgerCalls, Load(r, c),
         UNCHANGED <<invoice, payment>>,
         c.op \in {"submit", "cancel payment"} => payment[c.p] # None
  PROVE  LedgerTyped'
<1>1. /\ call' \in [Requests -> LedgerCalls] /\ stale' = stale /\ call'[r] = c
      /\ \A q \in Requests \ {r} : call'[q] = call[q]
  BY DEF LedgerTyped, Load
<1>2. LedgerTypeOK'
  BY DEF LedgerTyped, LedgerTypeOK
<1> QED BY <1>1, <1>2 DEF LedgerTyped, Stands, Fresh

LEMMA LoadsAreTyped ==
  ASSUME LedgerTyped, NEW r \in Requests
  PROVE  /\ \A p \in Payments :
              /\ LoadSubmit(r, p) \/ LoadCancelPayment(r, p) => LedgerTyped'
              /\ \A op \in {"edit payment", "delete payment"} :
                   LoadPaymentDraft(r, p, op) => LedgerTyped'
              /\ \A amount \in 1..MaxPay, chosen \in SUBSET Invoices :
                   \A asked \in [chosen -> 1..Total], op \in {"pay", "collect"} :
                     LoadPayment(r, p, amount, asked, op) => LedgerTyped'
         /\ \A i \in Invoices, op \in {"post", "cancel", "edit", "delete"} :
              LoadInvoice(r, i, op) => LedgerTyped'
<1>1. ASSUME NEW p \in Payments, LoadSubmit(r, p) PROVE LedgerTyped'
  <2>1. PICK f \in BOOLEAN : f = Fits(payment[p].refs)
    BY FitsOrNot
  <2>2. PICK c : c = [op |-> "submit", p |-> p, fits |-> f]
    OBVIOUS
  <2>3. c \in LedgerCalls /\ c.p = p
    BY <2>2 DEF LedgerCalls
  <2>4. Load(r, c) /\ UNCHANGED <<invoice, payment>> /\ payment[p] # None
    BY <1>1, <2>1, <2>2 DEF LoadSubmit
  <2> QED BY <2>3, <2>4, LoadTyped
<1>2. ASSUME NEW p \in Payments, LoadCancelPayment(r, p) PROVE LedgerTyped'
  <2>1. PICK c : c = [op |-> "cancel payment", p |-> p]
    OBVIOUS
  <2>2. c \in LedgerCalls /\ c.p = p
    BY <2>1 DEF LedgerCalls
  <2>3. Load(r, c) /\ UNCHANGED <<invoice, payment>> /\ payment[p] # None
    BY <1>2, <2>1 DEF LoadCancelPayment, Posted
  <2> QED BY <2>2, <2>3, LoadTyped
<1>3. ASSUME NEW p \in Payments, NEW op \in {"edit payment", "delete payment"},
             LoadPaymentDraft(r, p, op)
      PROVE  LedgerTyped'
  <2>1. PICK c : c = [op |-> op, p |-> p]
    OBVIOUS
  <2>2. c \in LedgerCalls /\ c.op \notin {"submit", "cancel payment"}
    BY <2>1 DEF LedgerCalls
  <2>3. Load(r, c) /\ UNCHANGED <<invoice, payment>>
    BY <1>3, <2>1 DEF LoadPaymentDraft
  <2> QED BY <2>2, <2>3, LoadTyped
<1>4. ASSUME NEW p \in Payments, NEW amount \in 1..MaxPay, NEW chosen \in SUBSET Invoices,
             NEW asked \in [chosen -> 1..Total], NEW op \in {"pay", "collect"},
             LoadPayment(r, p, amount, asked, op)
      PROVE  LedgerTyped'
  <2>1. amount \in Nat
    BY LedgerAssumption
  <2>2. PICK d \in DraftDoc : d = Spread(amount, asked)
    BY <1>4, <2>1, SpreadFits DEF LoadPayment, LedgerTyped
  <2>3. PICK c : c = [op |-> op, p |-> p, doc |-> d]
    OBVIOUS
  <2>4. c \in LedgerCalls /\ c.op \notin {"submit", "cancel payment"}
    BY <2>3 DEF LedgerCalls
  <2>5. Load(r, c) /\ UNCHANGED <<invoice, payment>>
    BY <1>4, <2>2, <2>3 DEF LoadPayment
  <2> QED BY <2>4, <2>5, LoadTyped
<1>5. ASSUME NEW i \in Invoices, NEW op \in {"post", "cancel", "edit", "delete"},
             LoadInvoice(r, i, op)
      PROVE  LedgerTyped'
  <2>1. PICK c : c = [op |-> op, i |-> i]
    OBVIOUS
  <2>2. c \in LedgerCalls /\ c.op \notin {"submit", "cancel payment"}
    BY <2>1 DEF LedgerCalls
  <2>3. Load(r, c) /\ UNCHANGED <<invoice, payment>>
    BY <1>5, <2>1 DEF LoadInvoice
  <2> QED BY <2>2, <2>3, LoadTyped
<1> QED BY <1>1, <1>2, <1>3, <1>4, <1>5

LEMMA DraftTyped ==
  ASSUME LedgerTyped, NEW r \in Requests, Draft(r)
  PROVE  LedgerTyped'
<1>1. PICK p : p = call[r].p
  OBVIOUS
<1>2. PICK d : d = call[r].doc
  OBVIOUS
<1>3. PICK f \in BOOLEAN : f = Fits(d.refs)
  BY FitsOrNot
<1>4. PICK c : c = [op |-> "submit", p |-> p, fits |-> f]
  OBVIOUS
<1>5. /\ p \in Payments /\ d \in PaymentDoc /\ d # None /\ c \in LedgerCalls /\ c.p = p
  BY <1>1, <1>2, <1>4, LedgerCall, DraftDocFacts, DocFacts DEF Draft, LedgerTyped, LedgerCalls
<1>6. payment' = [payment EXCEPT ![p] = d] /\ invoice' = invoice /\ Commit(r, c, {})
  BY <1>1, <1>2, <1>3, <1>4 DEF Draft
<1>7. payment'[p] = d /\ \A q \in Payments \ {p} : payment'[q] = payment[q]
  BY <1>5, <1>6 DEF LedgerTyped, LedgerTypeOK
<1>8. LedgerTypeOK' /\ call'[r] = c
  BY <1>5, <1>6 DEF LedgerTyped, LedgerTypeOK, Commit
<1>9. Stands(r)' /\ \A q \in Payments : payment'[q] # None \/ payment[q] = None
  BY <1>5, <1>7, <1>8 DEF Stands
<1> QED BY <1>5, <1>6, <1>8, <1>9, CommitTyped

LEMMA PostsTyped ==
  ASSUME LedgerTyped, NEW r \in Requests,
         Submit(r) \/ Collect(r) \/ CancelPayment(r) \/ DeletePayment(r)
  PROVE  LedgerTyped'
<1>1. PICK p : p = call[r].p
  OBVIOUS
<1>2. p \in Payments
  BY <1>1, LedgerCall DEF LedgerTyped, Submit, Collect, CancelPayment, DeletePayment
<1>3. PICK d, saved :
        /\ d \in PaymentDoc \cup {None}
        /\ payment' = [payment EXCEPT ![p] = d] /\ invoice' = invoice /\ Done(r, saved)
        /\ d = None => p \in saved
  <2>1. CASE DeletePayment(r)
    BY <1>1, <2>1 DEF DeletePayment
  <2>2. CASE Collect(r)
    <3>1. PICK e : e = [call[r].doc EXCEPT !.status = "Posted"]
      OBVIOUS
    <3>2. call[r].doc \in PaymentDoc
      BY <2>2, LedgerCall, DraftDocFacts DEF LedgerTyped, Collect
    <3>3. e \in PaymentDoc /\ e # None
      BY <3>1, <3>2, DocFacts DEF PaymentDoc
    <3>4. payment' = [payment EXCEPT ![p] = e] /\ invoice' = invoice /\ Done(r, Touched(p))
      BY <1>1, <2>2, <3>1 DEF Collect
    <3> QED BY <3>3, <3>4
  <2>3. CASE Submit(r) \/ CancelPayment(r)
    <3>1. PICK s \in {"Posted", "Cancelled"} :
            /\ payment' = [payment EXCEPT ![p].status = s] /\ invoice' = invoice
            /\ Done(r, Touched(p)) /\ Fresh(r, p) /\ call[r].op \in {"submit", "cancel payment"}
      BY <1>1, <2>3 DEF Submit, CancelPayment
    <3>2. payment[p] \in PaymentDoc
      BY <1>1, <1>2, <3>1 DEF LedgerTyped, LedgerTypeOK, Stands
    <3>3. PICK e : e = [payment[p] EXCEPT !.status = s]
      OBVIOUS
    <3>4. e \in PaymentDoc /\ e # None
      BY <3>2, <3>3, DocFacts DEF PaymentDoc
    <3>5. payment' = [payment EXCEPT ![p] = e]
      BY <3>1, <3>3
    <3> QED BY <3>1, <3>4, <3>5
  <2> QED BY <2>1, <2>2, <2>3
<1>4. payment'[p] = d /\ \A q \in Payments \ {p} : payment'[q] = payment[q]
  BY <1>2, <1>3 DEF LedgerTyped, LedgerTypeOK
<1>5. LedgerTypeOK'
  BY <1>2, <1>3 DEF LedgerTyped, LedgerTypeOK
<1>6. \A q \in Payments : q \in saved \/ payment'[q] # None \/ payment[q] = None
  BY <1>2, <1>3, <1>4
<1> QED BY <1>3, <1>5, <1>6, DoneTyped

LEMMA InvoicesTyped ==
  ASSUME LedgerTyped, NEW r \in Requests,
         \/ SavePayment(r) \/ SaveDraft(r) \/ GiveUpLedger(r)
         \/ SubmitInvoice(r) \/ DeleteDraft(r)
  PROVE  LedgerTyped'
<1>1. CASE SavePayment(r) \/ SaveDraft(r) \/ GiveUpLedger(r)
  <2>1. PICK saved : Done(r, saved) /\ invoice' = invoice /\ payment' = payment
    BY <1>1 DEF SavePayment, SaveDraft, GiveUpLedger
  <2>2. LedgerTypeOK'
    BY <2>1 DEF LedgerTyped, LedgerTypeOK
  <2> QED BY <2>1, <2>2, DoneTyped
<1>2. CASE DeleteDraft(r)
  <2>1. PICK saved : Done(r, saved) /\ payment' = payment /\ LedgerTypeOK'
    BY <1>2 DEF DeleteDraft, LedgerTyped, LedgerTypeOK
  <2> QED BY <2>1, DoneTyped
<1>3. CASE SubmitInvoice(r)
  <2>1. PICK i : i = call[r].i
    OBVIOUS
  <2>2. i \in Invoices /\ Done(r, {i}) /\ invoice' = [invoice EXCEPT ![i] = "Posted"]
    BY <1>3, <2>1, LedgerCall DEF LedgerTyped, SubmitInvoice
  <2>3. PICK d : d = [status |-> "Posted", free |-> 0,
                      refs |-> [j \in Invoices |-> IF j = i THEN Total ELSE 0]]
    OBVIOUS
  <2>4. d \in PaymentDoc /\ d # None
    BY <2>3, LedgerAssumption, PaymentAssumption DEF PaymentDoc
  <2>5. payment' = payment \/ \E p \in Payments : payment' = [payment EXCEPT ![p] = d]
    BY <1>3, <2>1, <2>3 DEF SubmitInvoice
  <2>6. LedgerTypeOK'
    BY <2>2, <2>4, <2>5 DEF LedgerTyped, LedgerTypeOK
  <2>7. \A q \in Payments : payment'[q] # None \/ payment[q] = None
    BY <2>4, <2>5 DEF LedgerTyped, LedgerTypeOK
  <2> QED BY <2>2, <2>6, <2>7, DoneTyped
<1> QED BY <1>1, <1>2, <1>3

LEMMA CancelInvoiceTyped ==
  ASSUME LedgerTyped, NEW r \in Requests, CancelInvoice(r)
  PROVE  LedgerTyped'
<1>1. PICK i : i = call[r].i
  OBVIOUS
<1>2. PICK linked : linked = {p \in Payments : Posted(p) /\ Settles(p, i)}
  OBVIOUS
<1>3. /\ i \in Invoices /\ Done(r, {i} \cup linked)
      /\ invoice' = [invoice EXCEPT ![i] = "Cancelled"]
      /\ payment' = [p \in Payments |->
             IF p \notin linked THEN payment[p]
             ELSE IF PaysOnly(p, i) THEN [payment[p] EXCEPT !.status = "Cancelled"]
             ELSE [payment[p] EXCEPT !.refs[i] = 0, !.free = @ + payment[p].refs[i]]]
  BY <1>1, <1>2, LedgerCall DEF CancelInvoice, LedgerTyped
<1>4. ASSUME NEW p \in Payments
      PROVE  /\ payment'[p] \in PaymentDoc \cup {None}
             /\ payment'[p] # None \/ payment[p] = None
  <2>1. CASE p \notin linked
    BY <1>3, <2>1 DEF LedgerTyped, LedgerTypeOK
  <2>2. CASE p \in linked
    <3>1. PICK d \in PaymentDoc : d = payment[p]
      BY <1>2, <2>2 DEF Posted, LedgerTyped, LedgerTypeOK
    <3>2. payment'[p] = [d EXCEPT !.status = "Cancelled"] \/ payment'[p] = Freed(d, i)
      BY <1>3, <2>2, <3>1 DEF Freed
    <3>3. [d EXCEPT !.status = "Cancelled"] \in PaymentDoc
      BY DEF PaymentDoc
    <3>4. Freed(d, i) \in PaymentDoc
      BY <1>3, FreedPayment
    <3> QED BY <3>2, <3>3, <3>4, DocFacts
  <2> QED BY <2>1, <2>2
<1>5. LedgerTypeOK'
  <2>1. payment' \in [Payments -> PaymentDoc \cup {None}]
    BY <1>3, <1>4
  <2>2. invoice' \in [Invoices -> {None, "Draft", "Posted", "Cancelled"}]
    BY <1>3 DEF LedgerTyped, LedgerTypeOK
  <2> QED BY <2>1, <2>2 DEF LedgerTypeOK
<1> QED BY <1>3, <1>4, <1>5, DoneTyped

LEMMA LedgerKeepsTypes ==
  LedgerTyped /\ [LedgerNext]_<<backendVars, ledgerVars>> => LedgerTyped'
<1>1. ASSUME LedgerTyped, UNCHANGED <<backendVars, ledgerVars>> PROVE LedgerTyped'
  BY <1>1 DEF LedgerTyped, LedgerTypeOK, Stands, Fresh, backendVars, ledgerVars
<1>2. ASSUME LedgerTyped, NEW i \in Invoices, CreateInvoice(i) PROVE LedgerTyped'
  BY <1>2 DEF LedgerTyped, LedgerTypeOK, Stands, Fresh, CreateInvoice
<1> QED BY <1>1, <1>2, LoadsAreTyped, DraftTyped, PostsTyped, InvoicesTyped,
           CancelInvoiceTyped DEF LedgerNext

LEMMA LedgerTypes ==
  /\ BackendInit /\ LedgerInit => LedgerTypeOK
  /\ LedgerSpec => []LedgerTypeOK
<1>1. BackendInit /\ LedgerInit => LedgerTyped
  <2> SUFFICES ASSUME BackendInit, LedgerInit PROVE LedgerTyped
    OBVIOUS
  <2>1. LedgerTypeOK /\ call \in [Requests -> LedgerCalls]
    BY InitLedger DEF LedgerInv
  <2>2. \A r \in Requests : call[r].op = "none"
    BY DEF BackendInit, Idle
  <2> QED BY <2>1, <2>2 DEF LedgerTyped, Stands
<1>2. LedgerTyped => LedgerTypeOK
  BY DEF LedgerTyped
<1> QED BY <1>1, <1>2, LedgerKeepsTypes, PTL DEF LedgerSpec

-----------------------------------------------------------------------------
\* With a consistent snapshot no invoice is paid more than its total, and none
\* that is cancelled or was deleted by any posted payment: whatever a request
\* allocates is outstanding as long as the invoices it settles are as it read
\* them (_create_advance_payment, create_collection, create_cash_payment_entry,
\* cancel_linked_payment_entries).
THEOREM InvoicesAreNeverOverpaid ==
  ASSUME SnapshotIsolation PROVE LedgerSpec => []NeverOverpaid
<1>1. LedgerInv /\ [LedgerNext]_<<backendVars, ledgerVars>> => LedgerInv'
  BY StepKeepsLedger, StutterKeepsLedger
<1>2. LedgerInv => NeverOverpaid
  BY DEF LedgerInv
<1> QED BY <1>1, <1>2, InitLedger, PTL DEF LedgerSpec

\* With a consistent snapshot no step edits or deletes a posted payment, and the
\* cancellation of an invoice cancels only payments of that invoice and nothing
\* else: any other keeps its whole amount (_require_draft, _pays_only).
THEOREM MoneyStaysKept ==
  ASSUME SnapshotIsolation PROVE LedgerSpec => MoneyIsKept
<1>1. LedgerInv /\ [LedgerNext]_<<backendVars, ledgerVars>> => LedgerInv'
  BY StepKeepsLedger, StutterKeepsLedger
<1>2. LedgerInv /\ [LedgerNext]_<<backendVars, ledgerVars>> =>
        [\A p \in Payments : Posted(p) =>
           /\ payment'[p] # None /\ Amount(payment'[p]) = Amount(payment[p])
           /\ payment'[p].status = "Cancelled" =>
                \/ \E r \in Requests : call[r].op = "cancel payment" /\ call[r].p = p
                \/ \E i \in Invoices :
                     invoice'[i] # invoice[i] /\ payment[p].refs[i] = Amount(payment[p])]_payment
  BY StepKeepsLedger DEF Kept, backendVars, ledgerVars
<1> QED BY <1>1, <1>2, InitLedger, PTL DEF LedgerSpec, MoneyIsKept

-----------------------------------------------------------------------------
(***************************************************************************)
(* VanSales: who is told of a document is told of a posted one.            *)
(***************************************************************************)

VanCalls ==
  {Idle} \cup [op : {"post", "replay"}, by : VanUsers, id : PaperIds,
               order : OrderIds \cup {None}]
         \cup [op : {"delete"}, id : PaperIds]

\* As long as nothing moved it, what a replay found is there and its caller's, and
\* what a deletion found is there and not posted.
CallOK(r) ==
  LET d == call[r].id
  IN  /\ call[r].op = "replay" /\ Fresh(r, d) => Exists(d) /\ MayReplay(call[r].by, d)
      /\ call[r].op = "delete" /\ Fresh(r, d) => Exists(d) /\ ~IsPosted(d)

VanInv ==
  /\ VanTypeOK
  /\ call \in [Requests -> VanCalls]
  /\ \A r \in Requests : CallOK(r)
  /\ ToldIsPosted

\* What no step but a deletion takes back: a document stays, with its owner, and is
\* never a draft again.
PapersStay ==
  \A d \in PaperIds : Exists(d) =>
    /\ paper'[d] # None
    /\ paper'[d].owner = paper[d].owner
    /\ paper[d].status # "draft" => paper'[d].status # "draft"

\* A step that r does not take, and that tells it of what it changes.
Notices(r) ==
  /\ call'[r] = call[r]
  /\ call[r] # Idle =>
       /\ stale[r] \subseteq stale'[r]
       /\ \A d \in PaperIds : Exists(d) /\ paper'[d] # paper[d] => d \in stale'[r]

LEMMA InitVan == BackendInit /\ VanInit => VanInv
BY DEF BackendInit, VanInit, VanInv, VanTypeOK, VanCalls, Idle, CallOK, ToldIsPosted

LEMMA NoticesKeeps ==
  ASSUME VanInv, NEW r \in Requests, Notices(r)
  PROVE  CallOK(r)'
<1>1. CASE call[r] = Idle
  BY <1>1 DEF Notices, CallOK, Idle
<1>2. CASE call[r].op \in {"replay", "delete"}
  <2>1. call[r].id \in PaperIds /\ call[r] # Idle /\ CallOK(r)
    BY <1>2 DEF VanInv, VanCalls, Idle
  <2>2. Fresh(r, call[r].id)' =>
          Fresh(r, call[r].id) /\ (Exists(call[r].id) => paper'[call[r].id] = paper[call[r].id])
    BY <2>1 DEF Notices, Fresh
  <2> QED BY <1>2, <2>1, <2>2 DEF Notices, CallOK, Exists, MayReplay, IsPosted
<1>3. CASE call[r].op = "post"
  BY <1>3 DEF Notices, CallOK
<1> QED BY <1>1, <1>2, <1>3 DEF VanInv, VanCalls

\* Who is newly told has a document of its own.
LEMMA ToldStays ==
  ASSUME VanInv, VanTypeOK', PapersStay,
         \A t \in told' \ told :
           /\ paper'[t[2]] # None /\ paper'[t[2]].status # "draft"
           /\ t[1] \in VanAdmins \/ paper'[t[2]].owner = t[1]
  PROVE  ToldIsPosted'
<1> SUFFICES ASSUME NEW t \in told'
             PROVE  /\ Exists(t[2])' /\ paper'[t[2]].status # "draft"
                    /\ MayReplay(t[1], t[2])'
  BY DEF ToldIsPosted
<1>1. t[1] \in VanUsers /\ t[2] \in PaperIds
  BY DEF VanTypeOK
<1>2. CASE t \in told
  <2>1. Exists(t[2]) /\ paper[t[2]].status # "draft" /\ MayReplay(t[1], t[2])
    BY <1>2 DEF VanInv, ToldIsPosted
  <2> QED BY <1>1, <2>1 DEF PapersStay, Exists, MayReplay
<1>3. CASE t \notin told
  BY <1>3 DEF Exists, MayReplay
<1> QED BY <1>2, <1>3

\* A commit of r with what it saved.
LEMMA CommitNotices ==
  ASSUME VanInv, NEW r \in Requests, NEW c, NEW saved, Commit(r, c, saved),
         \A d \in PaperIds : Exists(d) /\ paper'[d] # paper[d] => d \in saved
  PROVE  /\ call' = [call EXCEPT ![r] = c]
         /\ stale'[r] = {}
         /\ \A q \in Requests \ {r} : Notices(q)
<1>1. /\ call' = [call EXCEPT ![r] = c] /\ stale'[r] = {}
      /\ \A q \in Requests \ {r} : call[q] # Idle => stale'[q] = stale[q] \cup saved
  BY DEF Commit
<1>2. \A q \in Requests \ {r} : call'[q] = call[q]
  BY <1>1 DEF VanInv
<1> QED BY <1>1, <1>2 DEF Notices

\* Loads, losses and failures: only r's call changes.
LEMMA VanLoads ==
  ASSUME VanInv, NEW r \in Requests, NEW c \in VanCalls,
         Load(r, c) \/ Commit(r, c, {}),
         UNCHANGED vanVars,
         c.op = "replay" => Exists(c.id) /\ MayReplay(c.by, c.id),
         c.op = "delete" => Exists(c.id) /\ ~IsPosted(c.id)
  PROVE  VanInv'
<1>1. UNCHANGED <<paper, told>>
  BY DEF vanVars
<1>2. VanTypeOK' /\ PapersStay /\ told' \ told = {}
  BY <1>1 DEF VanInv, VanTypeOK, PapersStay, Exists
<1>3. call' = [call EXCEPT ![r] = c] /\ \A q \in Requests \ {r} : Notices(q)
  <2>1. CASE Load(r, c)
    BY <1>1, <2>1 DEF Load, Notices, VanInv
  <2>2. CASE Commit(r, c, {})
    BY <1>1, <2>2, CommitNotices
  <2> QED BY <2>1, <2>2
<1>4. call' \in [Requests -> VanCalls] /\ call'[r] = c
  BY <1>3 DEF VanInv
<1>5. CallOK(r)'
  BY <1>1, <1>4 DEF CallOK, Exists, MayReplay, IsPosted
<1>6. ToldIsPosted'
  BY <1>2, ToldStays
<1> QED BY <1>2, <1>3, <1>4, <1>5, <1>6, NoticesKeeps DEF VanInv

\* The last step of a call of r.
LEMMA LastKeepsVan ==
  ASSUME VanInv, VanTypeOK', ToldIsPosted', NEW r \in Requests, NEW saved, Done(r, saved),
         \A d \in PaperIds : Exists(d) /\ paper'[d] # paper[d] => d \in saved
  PROVE  VanInv'
<1>1. call' = [call EXCEPT ![r] = Idle] /\ \A q \in Requests \ {r} : Notices(q)
  BY CommitNotices DEF Done
<1>2. call' \in [Requests -> VanCalls] /\ call'[r] = Idle
  BY <1>1 DEF VanInv, VanCalls
<1>3. CallOK(r)'
  BY <1>2 DEF CallOK, Idle
<1> QED BY <1>1, <1>2, <1>3, NoticesKeeps DEF VanInv

LEMMA PostKeepsVan ==
  ASSUME VanInv, NEW r \in Requests, Post(r)
  PROVE  VanInv'
<1> DEFINE cl == call[r]
           doc == [owner |-> cl.by, status |-> "posted", order |-> cl.order]
<1>1. cl.by \in VanUsers /\ cl.id \in PaperIds /\ cl.order \in OrderIds \cup {None}
  BY DEF VanInv, VanCalls, Idle, Post
<1>2. doc \in Paper /\ doc # None
  BY <1>1, PaperAssumption DEF Paper
<1>3. /\ paper' = [paper EXCEPT ![cl.id] = doc] /\ ~Exists(cl.id)
      /\ told' = told \cup {<<cl.by, cl.id>>}
      /\ Done(r, RowsOf(cl.id, cl.order))
  BY DEF Post, Tell
<1>4. paper \in [PaperIds -> {None} \cup Paper] /\ told \subseteq VanUsers \X PaperIds
  BY DEF VanInv, VanTypeOK
<1>5. VanTypeOK'
  BY <1>1, <1>2, <1>3, <1>4 DEF VanTypeOK
<1>6. PapersStay
  BY <1>3, <1>4 DEF PapersStay, Exists
<1>7. \A t \in told' \ told :
        /\ paper'[t[2]] # None /\ paper'[t[2]].status # "draft"
        /\ t[1] \in VanAdmins \/ paper'[t[2]].owner = t[1]
  <2>1. paper'[cl.id] = doc
    BY <1>1, <1>3, <1>4
  <2> QED BY <1>2, <1>3, <2>1
<1>8. \A d \in PaperIds : Exists(d) => paper'[d] = paper[d]
  BY <1>3, <1>4
<1> QED BY <1>3, <1>5, <1>6, <1>7, <1>8, ToldStays, LastKeepsVan

\* A draft is posted, by a replay or in the back office.
LEMMA PostedTypes ==
  ASSUME VanInv, NEW d \in PaperIds, Exists(d),
         NEW s \in {"posted", "cancelled"},
         paper' = [paper EXCEPT ![d].status = s]
  PROVE  /\ paper' \in [PaperIds -> {None} \cup Paper]
         /\ paper'[d] # None /\ paper'[d].owner = paper[d].owner
         /\ paper'[d].order = paper[d].order /\ paper'[d].status = s
         /\ \A x \in PaperIds \ {d} : paper'[x] = paper[x]
<1>1. paper \in [PaperIds -> {None} \cup Paper]
  BY DEF VanInv, VanTypeOK
<1>2. paper[d] \in Paper /\ [paper[d] EXCEPT !.status = s] \in Paper
  BY <1>1 DEF Exists, Paper
<1> QED BY <1>1, <1>2, PaperAssumption DEF Paper

LEMMA ReplayKeepsVan ==
  ASSUME VanInv, NEW r \in Requests, Replay(r)
  PROVE  VanInv'
<1> DEFINE cl == call[r]
           d == cl.id
<1>1. /\ cl.by \in VanUsers /\ d \in PaperIds
      /\ paper \in [PaperIds -> {None} \cup Paper] /\ told \subseteq VanUsers \X PaperIds
  BY DEF VanInv, VanCalls, Idle, Replay, VanTypeOK
<1>2. Exists(d) /\ MayReplay(cl.by, d)
  BY DEF VanInv, CallOK, Replay
<1>3. told' = told \cup {<<cl.by, d>>}
  BY DEF Replay, Tell
<1>4. /\ paper'[d] # None /\ paper'[d].owner = paper[d].owner /\ paper'[d].status # "draft"
      /\ \A x \in PaperIds \ {d} : paper'[x] = paper[x]
      /\ paper' \in [PaperIds -> {None} \cup Paper]
  <2>1. CASE paper' = paper /\ paper[d].status # "draft"
    BY <1>1, <1>2, <2>1 DEF Exists
  <2>2. CASE paper' = [paper EXCEPT ![d].status = "posted"]
    BY <1>1, <1>2, <2>2, PostedTypes
  <2> QED BY <2>1, <2>2 DEF Replay
<1>5. VanTypeOK'
  BY <1>1, <1>3, <1>4 DEF VanTypeOK
<1>6. PapersStay
  BY <1>4 DEF PapersStay, Exists
<1>7. \A t \in told' \ told :
        /\ paper'[t[2]] # None /\ paper'[t[2]].status # "draft"
        /\ t[1] \in VanAdmins \/ paper'[t[2]].owner = t[1]
  BY <1>2, <1>3, <1>4 DEF MayReplay
<1>8. \E saved : Done(r, saved)
                 /\ \A x \in PaperIds : Exists(x) /\ paper'[x] # paper[x] => x \in saved
  <2>1. CASE paper' = paper /\ Done(r, {})
    BY <2>1
  <2>2. CASE Done(r, RowsOf(d, paper[d].order))
    BY <1>4, <2>2 DEF RowsOf
  <2> QED BY <2>1, <2>2 DEF Replay
<1> QED BY <1>5, <1>6, <1>7, <1>8, ToldStays, LastKeepsVan

LEMMA DeleteKeepsVan ==
  ASSUME VanInv, NEW r \in Requests, Delete(r)
  PROVE  VanInv'
<1> DEFINE d == call[r].id
<1>1. /\ d \in PaperIds
      /\ paper \in [PaperIds -> {None} \cup Paper] /\ told \subseteq VanUsers \X PaperIds
  BY DEF VanInv, VanCalls, Idle, Delete, VanTypeOK
<1>2. /\ paper' = [paper EXCEPT ![d] = None]
      /\ told' = {t \in told : t[2] # d}
      /\ Done(r, {d})
  BY DEF Delete
<1>3. VanTypeOK' /\ \A x \in PaperIds \ {d} : paper'[x] = paper[x]
  BY <1>1, <1>2 DEF VanTypeOK
<1>4. ToldIsPosted'
  BY <1>1, <1>2, <1>3 DEF VanInv, ToldIsPosted, Exists, MayReplay
<1> QED BY <1>2, <1>3, <1>4, LastKeepsVan

DeskStep ==
  \/ \E u \in VanUsers, d \in InvoiceIds : OfficeDraft(u, d)
  \/ \E d \in PaperIds : DeskSubmit(d) \/ DeskCancel(d)

LEMMA DeskKeepsVan ==
  ASSUME VanInv, DeskStep
  PROVE  VanInv'
<1>1. paper \in [PaperIds -> {None} \cup Paper]
  BY DEF VanInv, VanTypeOK
<1>2. /\ PapersStay /\ paper' \in [PaperIds -> {None} \cup Paper]
      /\ UNCHANGED <<told, call>> /\ \A q \in Requests : Notices(q)
  <2>1. ASSUME NEW u \in VanUsers, NEW d \in InvoiceIds, OfficeDraft(u, d)
        PROVE  /\ PapersStay /\ paper' \in [PaperIds -> {None} \cup Paper]
               /\ UNCHANGED <<told, call>> /\ \A q \in Requests : Notices(q)
    <3>1. [owner |-> u, status |-> "draft", order |-> None] \in Paper /\ d \in PaperIds
      BY DEF Paper, PaperIds
    <3>2. \A x \in PaperIds : Exists(x) => paper'[x] = paper[x]
      BY <1>1, <2>1 DEF OfficeDraft
    <3>3. paper' \in [PaperIds -> {None} \cup Paper]
      BY <1>1, <2>1, <3>1 DEF OfficeDraft
    <3> QED BY <2>1, <3>2, <3>3 DEF OfficeDraft, PapersStay, Exists, Notices, backendVars
  <2>2. ASSUME NEW d \in PaperIds, NEW s \in {"posted", "cancelled"},
               Exists(d), paper' = [paper EXCEPT ![d].status = s],
               UNCHANGED <<told, call>>, NEW rows, d \in rows,
               stale' = [r \in Requests |->
                 IF call[r] = Idle THEN {} ELSE stale[r] \cup rows]
        PROVE  /\ PapersStay /\ paper' \in [PaperIds -> {None} \cup Paper]
               /\ UNCHANGED <<told, call>> /\ \A q \in Requests : Notices(q)
    <3>1. /\ paper' \in [PaperIds -> {None} \cup Paper]
          /\ paper'[d] # None /\ paper'[d].owner = paper[d].owner /\ paper'[d].status = s
          /\ \A x \in PaperIds \ {d} : paper'[x] = paper[x]
      BY <2>2, PostedTypes
    <3>2. PapersStay
      BY <3>1 DEF PapersStay, Exists
    <3>3. \A q \in Requests : Notices(q)
      BY <2>2, <3>1 DEF Notices
    <3> QED BY <2>2, <3>1, <3>2, <3>3
  <2>3. ASSUME NEW d \in PaperIds, DeskSubmit(d)
        PROVE  /\ PapersStay /\ paper' \in [PaperIds -> {None} \cup Paper]
               /\ UNCHANGED <<told, call>> /\ \A q \in Requests : Notices(q)
    BY <2>2, <2>3 DEF DeskSubmit
  <2>4. ASSUME NEW d \in PaperIds, DeskCancel(d)
        PROVE  /\ PapersStay /\ paper' \in [PaperIds -> {None} \cup Paper]
               /\ UNCHANGED <<told, call>> /\ \A q \in Requests : Notices(q)
    BY <2>2, <2>4 DEF DeskCancel, RowsOf, IsPosted
  <2> QED BY <2>1, <2>3, <2>4 DEF DeskStep
<1>3. VanTypeOK' /\ call' \in [Requests -> VanCalls]
  BY <1>2 DEF VanInv, VanTypeOK
<1>4. ToldIsPosted'
  BY <1>2, <1>3, ToldStays
<1> QED BY <1>2, <1>3, <1>4, NoticesKeeps DEF VanInv

LEMMA StepKeepsVan == VanInv /\ [VanNext]_<<backendVars, vanVars>> => VanInv'
<1> SUFFICES ASSUME VanInv, [VanNext]_<<backendVars, vanVars>>
             PROVE  VanInv'
  OBVIOUS
<1>1. \A op \in {"post", "replay"}, u \in VanUsers, d \in PaperIds, o \in OrderIds \cup {None} :
        Serve(op, u, d, o) \in VanCalls /\ Serve(op, u, d, o).op = op
        /\ Serve(op, u, d, o).id = d /\ Serve(op, u, d, o).by = u
  BY DEF Serve, VanCalls
<1>2. ASSUME NEW r \in Requests, NEW u \in VanUsers, NEW d \in PaperIds,
             NEW o \in OrderIds \cup {None}, Load(r, Serve("post", u, d, o)), UNCHANGED vanVars
      PROVE  VanInv'
  BY <1>1, <1>2, VanLoads
<1>3. ASSUME NEW r \in Requests, NEW u \in VanUsers, NEW d \in PaperIds, LoadReplay(r, u, d)
      PROVE  VanInv'
  BY <1>1, <1>3, VanLoads DEF LoadReplay
<1>4. ASSUME NEW r \in Requests, LosePost(r) PROVE VanInv'
  <2>1. call[r].by \in VanUsers /\ call[r].id \in PaperIds
    BY <1>4 DEF VanInv, VanCalls, Idle, LosePost
  <2> QED BY <1>1, <1>4, <2>1, VanLoads DEF LosePost
<1>5. ASSUME NEW r \in Requests, GiveUpVan(r) PROVE VanInv'
  <2>1. Idle \in VanCalls /\ Idle.op = "none"
    BY DEF VanCalls, Idle
  <2> QED BY <1>5, <2>1, VanLoads DEF GiveUpVan, Done
<1>6. ASSUME NEW r \in Requests, NEW d \in PaperIds, LoadDelete(r, d) PROVE VanInv'
  <2>1. [op |-> "delete", id |-> d] \in VanCalls
    BY DEF VanCalls
  <2> QED BY <1>6, <2>1, VanLoads DEF LoadDelete
<1>7. CASE UNCHANGED <<backendVars, vanVars>>
  BY <1>7 DEF backendVars, vanVars, VanInv, VanTypeOK, CallOK, ToldIsPosted, Exists, MayReplay,
              IsPosted, Fresh
<1>8. ASSUME NEW r \in Requests, NEW u \in VanUsers, NEW d \in PaperIds, NEW o \in OrderIds,
             LoadConfirm(r, u, d, o)
      PROVE  VanInv'
  BY <1>2, <1>8 DEF LoadConfirm
<1>9. ASSUME NEW r \in Requests, NEW u \in VanUsers, NEW d \in PaperIds,
             LoadOrderPaper(r, u, d) \/ LoadSale(r, u, d) \/ LoadStock(r, u, d)
      PROVE  VanInv'
  BY <1>2, <1>9 DEF LoadOrderPaper, LoadSale, LoadStock
<1>10. CASE VanNext
  <2>1. CASE DeskStep
    BY <2>1, DeskKeepsVan
  <2>2. CASE ~DeskStep
    BY <1>3, <1>4, <1>5, <1>6, <1>8, <1>9, <1>10, <2>2, PostKeepsVan, ReplayKeepsVan,
       DeleteKeepsVan DEF VanNext, DeskStep
  <2> QED BY <2>1, <2>2
<1> QED BY <1>7, <1>10

\* The inductive invariant of the van's documents: a replay under way is of a
\* document that its user may have, and whoever was told of one has it.
THEOREM VanInvariant == VanSpec => []VanInv
BY InitVan, StepKeepsVan, PTL DEF VanSpec

\* Who was told "ok" has a posted document of his own under that id, for any users,
\* ids and number of requests for the same id (_ensure_submitted_sales_invoice).
THEOREM ToldIsPostedAlways == VanSpec => []ToldIsPosted
<1>1. VanInv => ToldIsPosted
  BY DEF VanInv
<1> QED BY <1>1, VanInvariant, PTL

-----------------------------------------------------------------------------
(* VanSales implements OneDocument.                                        *)

\* Whether the document of d is complete, or was cancelled, to OneDocument.
Completed(d) == Exists(d) /\ paper[d].status # "draft"

Withdrawn(d) == Exists(d) /\ paper[d].status = "cancelled"

\* A step under the id d that OneDocument knows.
Makes(d) == ~Exists(d) /\ Exists(d)' /\ Purpose(d)' \in Purposes

Completes(d) ==
  Exists(d) /\ Exists(d)' /\ Purpose(d)' = Purpose(d) /\ ~Withdrawn(d) /\ Completed(d)'

Withdraws(d) ==
  /\ Exists(d) /\ Exists(d)' /\ Purpose(d)' = Purpose(d)
  /\ Completed(d) /\ Completed(d)' /\ Withdrawn(d)'

Removes(d) == Exists(d) /\ ~Exists(d)' /\ (Completed(d) => Withdrawn(d))

Tells(d) ==
  \E u \in VanUsers :
    /\ Completed(d)' /\ Purpose(d)' \in Purposes
    /\ u \in VanAdmins \cup {paper'[d].owner}
    /\ told' = told \cup {<<u, d>>}

LEMMA KeepsPapers ==
  ASSUME NEW d \in PaperIds,
         \A x \in PaperIds \ {d} : paper'[x] = paper[x],
         \/ /\ Makes(d) \/ Completes(d) \/ paper' = paper
            /\ Withdrawn(d)' = Withdrawn(d)
            /\ Tells(d) \/ told' = told
         \/ Withdraws(d) /\ told' = told
         \/ Removes(d) /\ told' = {t \in told : t[2] # d}
  PROVE  Papers!PromiseNext
<1> DEFINE made == [x \in PaperIds |-> IF Exists(x) THEN {Purpose(x)} ELSE {}]
           done == {x \in PaperIds : Exists(x) /\ paper[x].status # "draft"}
           undone == {x \in PaperIds : Exists(x) /\ paper[x].status = "cancelled"}
<1>1. \A x \in PaperIds \ {d} :
         /\ made'[x] = made[x]
         /\ x \in done' <=> x \in done
         /\ x \in undone' <=> x \in undone
  BY DEF Exists, Purpose
<1>2. CASE Withdraws(d) /\ told' = told
  <2>1. made' = made
    BY <1>1, <1>2 DEF Withdraws
  <2>2. done' = done
    BY <1>1, <1>2 DEF Withdraws, Completed
  <2>3. undone' = undone \cup {d}
    BY <1>1, <1>2 DEF Withdraws, Withdrawn
  <2>4. made[d] # {}
    BY <1>2 DEF Withdraws
  <2>5. Papers!Undo(d)
    BY <1>2, <2>1, <2>2, <2>3, <2>4 DEF Papers!Undo
  <2> QED BY <2>5 DEF Papers!PromiseNext
<1>3. CASE /\ Makes(d) \/ Completes(d) \/ paper' = paper
           /\ Withdrawn(d)' = Withdrawn(d)
           /\ Tells(d) \/ told' = told
  <2>1. undone' = undone
    BY <1>1, <1>3 DEF Withdrawn
  <2>2. Papers!Make(d) \/ Papers!Complete(d) \/ UNCHANGED <<made, done>>
    <3>1. CASE Makes(d)
      <4>1. made[d] = {} /\ made' = [made EXCEPT ![d] = {Purpose(d)'}]
        BY <1>1, <3>1 DEF Makes
      <4>2. done' \in {done, done \cup {d}}
        <5>1. CASE d \in done'
          BY <1>1, <5>1
        <5>2. CASE d \notin done'
          BY <1>1, <3>1, <5>2 DEF Makes
        <5> QED BY <5>1, <5>2
      <4> QED BY <3>1, <4>1, <4>2 DEF Papers!Make, Makes
    <3>2. CASE Completes(d)
      <4>1. made' = made /\ made[d] # {}
        BY <1>1, <3>2 DEF Completes
      <4>2. done' = done \cup {d}
        BY <1>1, <3>2 DEF Completes, Completed
      <4>3. d \notin undone
        BY <3>2 DEF Completes, Withdrawn
      <4> QED BY <4>1, <4>2, <4>3 DEF Papers!Complete
    <3>3. CASE paper' = paper
      BY <3>3 DEF Exists, Purpose
    <3> QED BY <1>3, <3>1, <3>2, <3>3
  <2>3. Papers!Tell(d) \/ told' = told
    <3>1. SUFFICES ASSUME NEW u \in VanUsers, Completed(d)', Purpose(d)' \in Purposes,
                          u \in VanAdmins \cup {paper'[d].owner},
                          told' = told \cup {<<u, d>>}
                   PROVE  Papers!Tell(d)
      BY <1>3 DEF Tells
    <3>2. d \in done' /\ Purpose(d)' \in made'[d]
      BY <3>1 DEF Completed
    <3>3. <<u, Purpose(d)'>> \in {t \in VanUsers \X Purposes : t[1] \in VanAdmins \cup {t[2].owner}}
      BY <3>1 DEF Purpose
    <3> QED BY <3>1, <3>2, <3>3 DEF Papers!Tell
  <2>4. Papers!Serve(d)
    BY <2>1, <2>2, <2>3 DEF Papers!Serve
  <2> QED BY <2>4 DEF Papers!PromiseNext
<1>4. CASE Removes(d) /\ told' = {t \in told : t[2] # d}
  <2>1. made' = [made EXCEPT ![d] = {}] /\ made[d] # {}
    BY <1>1, <1>4 DEF Removes
  <2>2. done' = done \ {d}
    BY <1>1, <1>4 DEF Removes
  <2>3. undone' = undone \ {d}
    BY <1>1, <1>4 DEF Removes
  <2>4. d \in done => d \in undone
    BY <1>4 DEF Removes, Completed, Withdrawn
  <2>5. Papers!Withdraw(d)
    BY <1>4, <2>1, <2>2, <2>3, <2>4 DEF Papers!Withdraw
  <2> QED BY <2>5 DEF Papers!PromiseNext
<1> QED BY <1>2, <1>3, <1>4

LEMMA PapersStutter == UNCHANGED vanVars => UNCHANGED Papers!promiseVars
BY DEF vanVars, Papers!promiseVars, Exists, Purpose

LEMMA InitPromise == VanInit => Papers!PromiseInit
BY DEF VanInit, Papers!PromiseInit, Exists

LEMMA PostPromise ==
  ASSUME VanInv, NEW r \in Requests, Post(r)
  PROVE  Papers!PromiseNext
<1>1. PICK d \in PaperIds, u \in VanUsers, o \in OrderIds \cup {None} :
        d = call[r].id /\ u = call[r].by /\ o = call[r].order
  BY DEF VanInv, VanCalls, Idle, Post
<1> DEFINE doc == [owner |-> u, status |-> "posted", order |-> o]
<1>2. doc \in Paper /\ doc # None
  BY PaperAssumption DEF Paper
<1>3. /\ paper' = [paper EXCEPT ![d] = doc] /\ ~Exists(d)
      /\ told' = told \cup {<<u, d>>}
      /\ paper \in [PaperIds -> {None} \cup Paper]
  BY <1>1 DEF Post, Tell, VanInv, VanTypeOK
<1>4. paper'[d] = doc /\ \A x \in PaperIds \ {d} : paper'[x] = paper[x]
  BY <1>3
<1>5. Purpose(d)' \in Purposes /\ Exists(d)'
  BY <1>2, <1>4 DEF Purpose, Purposes, Exists
<1>6. Makes(d)
  BY <1>3, <1>5 DEF Makes
<1>7. Tells(d)
  BY <1>3, <1>4, <1>5 DEF Tells, Completed
<1>8. Withdrawn(d)' = FALSE /\ Withdrawn(d) = FALSE
  BY <1>3, <1>4 DEF Withdrawn
<1> QED BY <1>4, <1>6, <1>7, <1>8, KeepsPapers

LEMMA ReplayPromise ==
  ASSUME VanInv, NEW r \in Requests, Replay(r)
  PROVE  Papers!PromiseNext
<1>0. PICK d \in PaperIds, u \in VanUsers : d = call[r].id /\ u = call[r].by
  BY DEF VanInv, VanCalls, Idle, Replay
<1>1. /\ Exists(d) /\ MayReplay(u, d)
      /\ paper[d] \in Paper /\ paper[d] # None
      /\ paper \in [PaperIds -> {None} \cup Paper]
      /\ told' = told \cup {<<u, d>>}
  BY <1>0 DEF VanInv, Replay, VanTypeOK, CallOK, Exists, Tell
<1>2. Purpose(d) \in Purposes
  BY <1>1 DEF Purpose, Purposes, Paper
<1>3. CASE paper' = paper /\ paper[d].status # "draft"
  <2>1. Tells(d)
    BY <1>1, <1>2, <1>3 DEF Tells, Completed, Exists, Purpose, MayReplay
  <2>2. Withdrawn(d)' = Withdrawn(d)
    BY <1>3 DEF Withdrawn, Exists
  <2> QED BY <1>3, <2>1, <2>2, KeepsPapers
<1>4. CASE /\ paper[d].status = "draft"
           /\ paper' = [paper EXCEPT ![d].status = "posted"]
  <2>1. [paper[d] EXCEPT !.status = "posted"] \in Paper
    BY <1>1 DEF Paper
  <2>2. /\ \A x \in PaperIds \ {d} : paper'[x] = paper[x]
        /\ paper'[d] # None /\ paper'[d].owner = paper[d].owner
        /\ paper'[d].order = paper[d].order /\ paper'[d].status = "posted"
    BY <1>1, <1>4, <2>1, PaperAssumption DEF Paper
  <2>3. Purpose(d)' = Purpose(d)
    BY <2>2 DEF Purpose
  <2>4. Withdrawn(d)' = FALSE /\ Withdrawn(d) = FALSE
    BY <1>4, <2>2 DEF Withdrawn
  <2>5. Completes(d)
    BY <1>1, <1>4, <2>2, <2>3 DEF Completes, Completed, Exists, Withdrawn
  <2>6. Tells(d)
    BY <1>1, <1>2, <2>2, <2>3 DEF Tells, Completed, Exists, MayReplay
  <2> QED BY <2>2, <2>4, <2>5, <2>6, KeepsPapers
<1> QED BY <1>0, <1>3, <1>4 DEF Replay

LEMMA DeletePromise ==
  ASSUME SnapshotIsolation, VanInv, NEW r \in Requests, Delete(r)
  PROVE  Papers!PromiseNext
<1>1. PICK d \in PaperIds : d = call[r].id
  BY DEF VanInv, VanCalls, Idle, Delete
<1>2. /\ paper' = [paper EXCEPT ![d] = None] /\ Exists(d) /\ ~IsPosted(d)
      /\ paper \in [PaperIds -> {None} \cup Paper]
      /\ told' = {t \in told : t[2] # d}
  BY <1>1 DEF Delete, VanInv, VanTypeOK, CallOK
<1>3. paper[d] \in Paper /\ paper'[d] = None /\ \A x \in PaperIds \ {d} : paper'[x] = paper[x]
  BY <1>2 DEF Exists
<1>4. Completed(d) => Withdrawn(d)
  BY <1>2, <1>3 DEF Completed, Withdrawn, IsPosted, Paper
<1>5. Removes(d)
  BY <1>2, <1>3, <1>4 DEF Removes, Exists
<1> QED BY <1>2, <1>3, <1>5, KeepsPapers

LEMMA DeskPromise ==
  ASSUME VanInv, DeskStep
  PROVE  Papers!PromiseNext
<1>1. paper \in [PaperIds -> {None} \cup Paper] /\ UNCHANGED told
  BY DEF VanInv, VanTypeOK, DeskStep, OfficeDraft, DeskSubmit, DeskCancel
<1>2. ASSUME NEW u \in VanUsers, NEW d \in InvoiceIds, OfficeDraft(u, d)
      PROVE  Papers!PromiseNext
  <2> DEFINE doc == [owner |-> u, status |-> "draft", order |-> None]
  <2>1. doc \in Paper /\ doc # None /\ d \in PaperIds
    BY PaperAssumption DEF Paper, PaperIds
  <2>2. /\ paper'[d] = doc /\ ~Exists(d)
        /\ \A x \in PaperIds \ {d} : paper'[x] = paper[x]
    BY <1>1, <1>2, <2>1 DEF OfficeDraft
  <2>3. Makes(d)
    BY <2>1, <2>2 DEF Makes, Exists, Purpose, Purposes
  <2>4. Withdrawn(d)' = FALSE /\ Withdrawn(d) = FALSE
    BY <2>2 DEF Withdrawn
  <2> QED BY <1>1, <2>1, <2>2, <2>3, <2>4, KeepsPapers
<1>3. ASSUME NEW d \in PaperIds, DeskSubmit(d)
      PROVE  Papers!PromiseNext
  <2>1. /\ paper'[d] # None /\ paper'[d].owner = paper[d].owner
        /\ paper'[d].order = paper[d].order /\ paper'[d].status = "posted"
        /\ \A x \in PaperIds \ {d} : paper'[x] = paper[x]
        /\ Exists(d) /\ paper[d].status = "draft"
    BY <1>3, PostedTypes DEF DeskSubmit
  <2>2. Purpose(d)' = Purpose(d)
    BY <2>1 DEF Purpose
  <2>3. Withdrawn(d)' = FALSE /\ Withdrawn(d) = FALSE
    BY <2>1 DEF Withdrawn
  <2>4. Completes(d)
    BY <2>1, <2>2, <2>3 DEF Completes, Completed, Exists
  <2> QED BY <1>1, <2>1, <2>3, <2>4, KeepsPapers
<1>4. ASSUME NEW d \in PaperIds, DeskCancel(d)
      PROVE  Papers!PromiseNext
  <2>1. /\ paper'[d] # None /\ paper'[d].owner = paper[d].owner
        /\ paper'[d].order = paper[d].order /\ paper'[d].status = "cancelled"
        /\ \A x \in PaperIds \ {d} : paper'[x] = paper[x]
        /\ Exists(d) /\ paper[d].status = "posted"
    BY <1>4, PostedTypes DEF DeskCancel, IsPosted
  <2>2. Purpose(d)' = Purpose(d)
    BY <2>1 DEF Purpose
  <2>3. Withdraws(d)
    BY <2>1, <2>2 DEF Withdraws, Completed, Withdrawn, Exists
  <2> QED BY <1>1, <2>1, <2>3, KeepsPapers
<1> QED BY <1>2, <1>3, <1>4 DEF DeskStep

LEMMA StepPromise ==
  ASSUME SnapshotIsolation, VanInv, VanInv', [VanNext]_<<backendVars, vanVars>>
  PROVE  [Papers!PromiseNext]_(Papers!promiseVars)
<1>1. CASE UNCHANGED vanVars
  BY <1>1, PapersStutter
<1>2. ASSUME NEW r \in Requests, Post(r) \/ Replay(r) \/ Delete(r)
      PROVE  Papers!PromiseNext
  BY <1>2, PostPromise, ReplayPromise, DeletePromise
<1>3. CASE DeskStep
  BY <1>3, DeskPromise
<1>4. CASE \E r \in Requests :
             \/ \E u \in VanUsers, d \in PaperIds : LoadOrderPaper(r, u, d)
             \/ \E u \in VanUsers, d \in PaperIds : LoadSale(r, u, d)
             \/ \E u \in VanUsers, d \in PaperIds, o \in OrderIds : LoadConfirm(r, u, d, o)
             \/ \E u \in VanUsers, d \in PaperIds : LoadStock(r, u, d)
             \/ \E u \in VanUsers, d \in PaperIds : LoadReplay(r, u, d)
             \/ \E d \in PaperIds : LoadDelete(r, d)
             \/ LosePost(r)
             \/ GiveUpVan(r)
  BY <1>1, <1>4 DEF LoadOrderPaper, LoadSale, LoadConfirm, LoadStock, LoadReplay,
                    LoadDelete, LosePost, GiveUpVan
<1> QED BY <1>1, <1>2, <1>3, <1>4 DEF VanNext, DeskStep

\* However many users, admins, calls under one id, cancellations and deletions: an
\* id stands for one document that keeps its owner and its order until it is deleted,
\* which no posted one is, because SnapshotIsolation refuses to delete a row that
\* changed since _require_draft read it; "ok" is said of it when it is posted, to
\* whom it belongs (insert_idempotent, _ensure_submitted_sales_invoice).
THEOREM PapersAreAsPromised ==
  ASSUME SnapshotIsolation PROVE VanSpec => PapersKeepTheirWord
<1>1. BackendInit /\ VanInit => VanInv /\ Papers!PromiseInit
  BY InitVan, InitPromise
<1>2. VanInv /\ [VanNext]_<<backendVars, vanVars>> => VanInv'
  BY StepKeepsVan
<1>3. VanInv /\ VanInv' /\ [VanNext]_<<backendVars, vanVars>>
        => [Papers!PromiseNext]_(Papers!promiseVars)
  BY StepPromise
<1> QED BY <1>1, <1>2, <1>3, PTL DEF VanSpec, PapersKeepTheirWord, Papers!PromiseSpec
=============================================================================
