------------------------------ MODULE OneDocument ------------------------------
(***************************************************************************)
(* What a client id promises to those who send calls under it again and    *)
(* again until they are answered: one document at most is ever made under  *)
(* the id, it stays what it was made for, it is completed once and not     *)
(* after it was cancelled, and "ok" is said only of a complete document    *)
(* and only to whom it is for, and is never taken back.  Where documents   *)
(* are deleted, what stands is never one of them; then the id is free for  *)
(* another.  RetailSale, VanSales and Returns implement this, each in its  *)
(* own way.                                                                *)
(***************************************************************************)
CONSTANTS
  Ids,       \* client ids
  Clients,   \* who sends calls under them
  Contents,  \* what a document may be made for
  IsFor,     \* <<client, content>>: whom a document may be acknowledged to
  Deletable  \* ids whose document may be deleted while it does not stand

VARIABLES
  made,    \* under each id: nothing, or what its document was made for
  done,    \* the ids whose document has been completed
  undone,  \* those whose document was cancelled
  told     \* <<client, id>> for each "ok"

promiseVars == <<made, done, undone, told>>

PromiseInit ==
  /\ made = [d \in Ids |-> {}]
  /\ done = {}
  /\ undone = {}
  /\ told = {}

\* Complete at once, or not yet.
Make(d) ==
  /\ made[d] = {}
  /\ \E w \in Contents : made' = [made EXCEPT ![d] = {w}]
  /\ done' \in {done, done \cup {d}}

Complete(d) ==
  /\ made[d] # {}
  /\ d \notin undone
  /\ done' = done \cup {d}
  /\ UNCHANGED made

\* In the step that makes or completes the document, or in a later one.
Tell(d) ==
  /\ d \in done'
  /\ \E u \in Clients, w \in made'[d] :
       <<u, w>> \in IsFor /\ told' = told \cup {<<u, d>>}

Serve(d) ==
  /\ UNCHANGED <<made, done>> \/ Make(d) \/ Complete(d)
  /\ UNCHANGED told \/ Tell(d)
  /\ UNCHANGED undone

Undo(d) ==
  /\ made[d] # {}
  /\ undone' = undone \cup {d}
  /\ UNCHANGED <<made, done, told>>

\* With the document goes what was said of it.
Withdraw(d) ==
  /\ d \in Deletable
  /\ made[d] # {}
  /\ d \in done => d \in undone
  /\ made' = [made EXCEPT ![d] = {}]
  /\ done' = done \ {d}
  /\ undone' = undone \ {d}
  /\ told' = {t \in told : t[2] # d}

PromiseNext == \E d \in Ids : Serve(d) \/ Undo(d) \/ Withdraw(d)

PromiseSpec == PromiseInit /\ [][PromiseNext]_promiseVars
=============================================================================
