-------------------------------- MODULE Returns --------------------------------
(***************************************************************************)
(* Returns against one submitted invoice: credit notes of a sale and debit *)
(* notes of a purchase (services/erpnext_writes.py, vansalex_service.py,   *)
(* vansalex_purchase_service.py).  An item can sit on several lines of the *)
(* original, a return is asked per item, and ERPNext's make_return_doc     *)
(* gives what each line has left.  A return is inserted and submitted in   *)
(* one transaction, keyed by the client's id.                              *)
(***************************************************************************)
EXTENDS Backend, FiniteSetsExt

CONSTANTS
  ReturnIds,  \* client ids, one per return the client means to make
  Lines,      \* the lines of the original, 1..n in document order
  ItemOf,     \* the item of each line
  Sold,       \* the quantity of each line
  MaxAsk      \* bound on the quantity a call asks for

ASSUME ReturnsAssumption ==
  /\ IsFiniteSet(ReturnIds) /\ IsFiniteSet(Lines) /\ Lines \subseteq Nat
  /\ Sold \in [Lines -> Nat]
  /\ MaxAsk \in Nat

VARIABLES
  credit,   \* the return of each client id: its status, quantities, request
  answered  \* client ids whose call was answered "ok"

returnsVars == <<credit, answered>>

Items == {ItemOf[l] : l \in Lines}

Asks == [Items -> 0..MaxAsk]

ReturnDoc == [status : {"draft", "posted", "cancelled"}, qty : [Lines -> Nat], asked : Asks]

ASSUME ReturnAssumption == None \notin ReturnDoc

ReturnsTypeOK ==
  /\ credit \in [ReturnIds -> {None} \cup ReturnDoc]
  /\ answered \subseteq ReturnIds

ReturnsInit ==
  /\ credit = [c \in ReturnIds |-> None]
  /\ answered = {}

PostedReturns == {c \in ReturnIds : credit[c] # None /\ credit[c].status = "posted"}

Returned(l) ==
  SumFunctionOnSet([c \in PostedReturns |-> credit[c].qty[l]], PostedReturns)

LinesOf(i) == {l \in Lines : ItemOf[l] = i}

Left == [l \in Lines |-> Max({Sold[l] - Returned(l), 0})]

-----------------------------------------------------------------------------
(* _apply_return_qtys: an item's quantity is used up line by line, each    *)
(* line capped at what it has left.                                        *)
Before(l, left) ==
  SumFunctionOnSet(left, {k \in LinesOf(ItemOf[l]) : k < l})

\* Faulty: the quantity is not used up.
TakeWhole(want, left) == [l \in Lines |-> Min({left[l], want[ItemOf[l]]})]

Take(want, left) ==
  [l \in Lines |->
     Min({left[l], Max({want[ItemOf[l]] - Before(l, left), 0})})]

\* Everything asked for found a line.
AllPlaced(want, take) ==
  \A i \in Items : SumFunctionOnSet(take, LinesOf(i)) >= want[i]

LoadReturn(r, c, want) ==
  /\ credit[c] = None
  /\ \E i \in Items : want[i] > 0
  /\ Load(r, [op |-> "return", id |-> c, want |-> want, left |-> Left])
  /\ UNCHANGED returnsVars

\* The back office compares each entry of the request with what was sold: two
\* entries for one item pass even when together they ask for more.
OfficeReturn(r, c, want) ==
  /\ \A i \in Items : want[i] > 0 => \E l \in LinesOf(i) : Sold[l] > 0
  /\ LoadReturn(r, c, want)

\* VanSaleX adds the entries of an item up and compares them with what is left.
VanReturn(r, c, want) ==
  /\ \A i \in Items : want[i] <= SumFunctionOnSet(Left, LinesOf(i))
  /\ LoadReturn(r, c, want)

\* A call with a client id that is taken gets the document it stands for.
AnswerReplay(c) ==
  /\ credit[c] # None
  /\ answered' = answered \cup {c}
  /\ UNCHANGED <<credit, backendVars>>

\* Posting moves stock: the Bin rows of the items change hands.
PostReturn(r) ==
  LET cl == call[r]
      take == Take(cl.want, cl.left)
  IN  /\ cl.op = "return" /\ credit[cl.id] = None
      /\ AllPlaced(cl.want, take)
      /\ SnapshotIsolation => Fresh(r, "stock")
      /\ credit' = [credit EXCEPT ![cl.id] =
           [status |-> "posted", qty |-> take, asked |-> cl.want]]
      /\ answered' = answered \cup {cl.id}
      /\ Done(r, {"stock"})

\* The id was taken since: the insert is refused, the winner's document given.
LoseReturn(r) ==
  /\ call[r].op = "return" /\ credit[call[r].id] # None
  /\ answered' = answered \cup {call[r].id}
  /\ Done(r, {})
  /\ UNCHANGED credit

\* The submit fails: submit_or_rollback takes the insert back with it.
RefuseReturn(r) ==
  /\ call[r].op = "return"
  /\ Done(r, {})
  /\ UNCHANGED returnsVars

\* A return is cancelled in Desk.
CancelReturn(c) ==
  /\ c \in PostedReturns
  /\ credit' = [credit EXCEPT ![c].status = "cancelled"]
  /\ stale' = [r \in Requests |->
                 IF call[r] = Idle THEN {} ELSE stale[r] \cup {"stock"}]
  /\ UNCHANGED <<answered, call>>

ReturnsNext ==
  \/ \E r \in Requests :
       \/ \E c \in ReturnIds, want \in Asks : OfficeReturn(r, c, want)
       \/ \E c \in ReturnIds, want \in Asks : VanReturn(r, c, want)
       \/ PostReturn(r)
       \/ LoseReturn(r)
       \/ RefuseReturn(r)
  \/ \E c \in ReturnIds : AnswerReplay(c)
  \/ \E c \in ReturnIds : CancelReturn(c)

ReturnsSpec ==
  BackendInit /\ ReturnsInit /\ [][ReturnsNext]_<<backendVars, returnsVars>>

-----------------------------------------------------------------------------
\* An "ok" stands for a return that was posted; every return credits of each item
\* exactly what was asked, however many lines carry it; and no line is returned
\* beyond what was sold on it, whatever returns are made at the same time,
\* cancelled, or asked for twice (_apply_return_qtys, submit_or_rollback).
ReturnedAsAsked ==
  /\ \A c \in answered : credit[c] # None /\ credit[c].status # "draft"
  /\ \A c \in ReturnIds : credit[c] # None =>
       \A i \in Items :
         SumFunctionOnSet(credit[c].qty, LinesOf(i)) = credit[c].asked[i]
  /\ \A l \in Lines : Returned(l) <= Sold[l]

(* Returns implements OneDocument: a return is made for what was asked, and *)
(* complete when it is posted.                                             *)
Credits == INSTANCE OneDocument WITH
  Ids <- ReturnIds,
  Clients <- ReturnIds,
  Contents <- Asks,
  IsFor <- ReturnIds \X Asks,
  Deletable <- {},
  made <- [c \in ReturnIds |-> IF credit[c] # None THEN {credit[c].asked} ELSE {}],
  done <- {c \in ReturnIds : credit[c] # None /\ credit[c].status # "draft"},
  undone <- {c \in ReturnIds : credit[c] # None /\ credit[c].status = "cancelled"},
  told <- {<<c, c>> : c \in answered}

\* However often a return is sent, by how many requests at once, and whatever Desk
\* cancels: its client id stands for one return of what was asked first, and "ok"
\* is said only when that one is posted (insert_idempotent, submit_or_rollback).
CreditsKeepTheirWord == Credits!PromiseSpec
=============================================================================
