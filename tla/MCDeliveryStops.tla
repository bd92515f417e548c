---------------------------- MODULE MCDeliveryStops ----------------------------
(***************************************************************************)
(* DeliveryStops for model checking: three stops of two couriers as long   *)
(* as requests are served one after the other and nobody opens a courier's *)
(* form, two stops of one courier from then on.  A form is open beside one *)
(* request at most.                                                        *)
(***************************************************************************)
EXTENDS DeliveryStops, TLC

VARIABLES
  excused,  \* couriers the code may lose sight of, see BusyUnlessExcused
  meddled   \* whether two requests were served at once or a form was opened

StopsInUse == {s \in Stops : stop[s] # NoStop \/ \E r \in Requests : job[r].s = s}

BoysInUse ==
  {b \in Boys : \/ boy[b] # [status |-> "Available", done |-> 0]
                \/ form[b] # None
                \/ \E s \in Stops : stop[s].boy = b
                \/ \E r \in Requests : b \in {job[r].b, job[r].user}}

UnderWay == {r \in Requests : job[r].op # "none"}

Concerns(r, b) == job[r].op # "none" /\ job[r].b = b

\* Two requests about one courier are under way.
Overlap(b) == \E r, q \in Requests : r # q /\ Concerns(r, b) /\ Concerns(q, b)

\* The courier is set Available in Desk.
SetAvailable(b) ==
  /\ job' = job
  /\ boy[b].status # "Available"
  /\ boy'[b].status = "Available"

\* He has work, or a request about him is under way.
Engaged(b) == ActiveStops(b) # {} \/ \E r \in Requests : Concerns(r, b)

\* DeliveryStops with an account of who is excused.
WatchedNext ==
  /\ Next
  /\ excused' = {b \in Boys : /\ Engaged(b)'
                              /\ b \in excused \/ Overlap(b)' \/ SetAvailable(b)}

WatchedSpec ==
  Init /\ excused = {} /\ [][WatchedNext]_<<vars, excused>>

\* ... as much of it as is checked.
MCInit == Init /\ excused = {} /\ meddled = FALSE

MCNext ==
  /\ WatchedNext
  /\ meddled' = \/ meddled
                \/ form' # form
                \/ Cardinality(UnderWay') > 1
  /\ meddled' => Cardinality(StopsInUse') <= 2 /\ Cardinality(BoysInUse') <= 1
  /\ \/ Cardinality(UnderWay') <= 1
     \/ \A b \in Boys : form'[b] = None

MCSpec == MCInit /\ [][MCNext]_<<vars, excused, meddled>>

Symmetry ==
  Permutations(Stops) \cup Permutations(Boys) \cup Permutations(Requests)

\* A courier with a stop to deliver is not shown as available.  He may be since
\* two requests about him overlapped, or since somebody set him Available in Desk
\* while he was engaged - until he has no more work: then the next assignment
\* counts again (_set_boy_on_route, _maybe_free_boy).
BusyUnlessExcused ==
  \A b \in Boys \ excused : ActiveStops(b) # {} => boy[b].status # "Available"
=============================================================================
