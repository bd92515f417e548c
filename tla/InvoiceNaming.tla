----------------------------- MODULE InvoiceNaming -----------------------------
(***************************************************************************)
(* User-wise naming series of Sales Invoices: the rules an administrator   *)
(* saves (services/sales_invoice_naming.py), the series that Frappe lets   *)
(* an invoice have, which others change without a look at the rules, and   *)
(* the names that are given.  A name is the prefix of the series' counter  *)
(* and its number, padded with zeros, as a sequence of characters of which *)
(* those below Base are the digits.  The counter depends on the day and on *)
(* the invoice; the rules are compared by what is found without one.       *)
(* Amendments, which are named after the invoice they replace, and rules   *)
(* that are switched off are left out, and who has no rule may insert: a   *)
(* site that blocks those still lets Administrator.                        *)
(***************************************************************************)
EXTENDS Backend, Sequences, SequencesExt

CONSTANTS
  Holders,     \* users, each in a company, who may have a rule
  Series,      \* naming series
  PrefixesOf,  \* the counters that invoices of a series take on a day: several
               \* where it names a field of the invoice
  FoundFor,    \* what series_prefix() finds for it on that day, without an
               \* invoice: a date part is that day's, a field is read as it is
               \* written; <<>> for the None of what cannot be evaluated
  WidthOf,     \* the digits a number is padded to
  Base,
  MaxNumber,   \* bound on the counters
  LastDay       \* bound on the days

Days == 0..LastDay

ASSUME NamingAssumption ==
  /\ PrefixesOf \in [Series -> [Days -> SUBSET Seq(Nat)]]
  /\ FoundFor \in [Series -> [Days -> Seq(Nat)]]
  /\ WidthOf \in [Series -> Nat \ {0}]
  /\ Base \in Nat \ {0, 1} /\ MaxNumber \in Nat /\ LastDay \in Nat

VARIABLES
  options,   \* the series a Sales Invoice may have
  rule,      \* the holders' series for invoices and for returns, or None
  counter,   \* the last number of each prefix (tabSeries)
  given,     \* the names given, with the prefix each was made from
  ruled,     \* the prefixes found for the rules' series when they were saved
  compared,  \* those that they were compared with: their own, and the options'
  day

namingVars == <<options, rule, counter, given, ruled, compared, day>>

Rules == [normal : Series, return : Series]

Counters == UNION {PrefixesOf[s][d] : s \in Series, d \in Days}

\* The series of the rules, and the prefixes found for some series.
SeriesOf(rules) ==
  UNION {{rules[h].normal, rules[h].return} : h \in {x \in Holders : rules[x] # None}}
Found(some) == {FoundFor[s][day] : s \in some} \ {<<>>}

NamingTypeOK ==
  /\ options \subseteq Series
  /\ rule \in [Holders -> Rules \cup {None}]
  /\ counter \in [Counters -> 0..MaxNumber]
  /\ ruled \subseteq Seq(Nat) /\ compared \subseteq Seq(Nat)
  /\ day \in Days

NamingInit ==
  /\ options = Series
  /\ rule = [h \in Holders |-> None]
  /\ counter = [p \in Counters |-> 0]
  /\ given = {}
  /\ ruled = {} /\ compared = {}
  /\ day = 0

-----------------------------------------------------------------------------
\* getseries.  Shifted: what is left of n without its last k digits.
Shifted(n) ==
  LET rest[k \in Nat] == IF k = 0 THEN n ELSE rest[k - 1] \div Base IN rest
Length(n, w) ==
  CHOOSE k \in w..w + n : Shifted(n)[k] = 0 /\ (k = w \/ Shifted(n)[k - 1] > 0)
Digits(n, w) == [i \in 1..Length(n, w) |-> Shifted(n)[Length(n, w) - i] % Base]
NameOf(p, w, n) == p \o Digits(n, w)

\* counter_collision: the longer prefix is the shorter one and then only digits.
Extends(p, q) ==
  /\ IsStrictPrefix(p, q)
  /\ \A i \in Len(p) + 1..Len(q) : q[i] < Base

\* Faulty: the two are not sorted by length first.
CollisionUnsorted(p, q) == p # <<>> /\ q # <<>> /\ Extends(p, q)

CounterCollision(p, q) ==
  p # <<>> /\ q # <<>> /\ (Extends(p, q) \/ Extends(q, p))

\* validate_rules, with the options as they were read.
Valid(new, opts) ==
  /\ SeriesOf(new) \subseteq opts
  /\ \A h \in Holders : new[h] # None =>
       LET p == FoundFor[new[h].normal][day] IN
         /\ new[h].normal # new[h].return
         /\ p # <<>> => p # FoundFor[new[h].return][day]
  /\ \A s \in SeriesOf(new), o \in opts :
       ~CounterCollision(FoundFor[s][day], FoundFor[o][day])

\* ZG Sales Invoice Naming Settings, the rules of all holders, is validated and
\* saved.  One row per save: a save of several is the same as one each, since rows
\* taken from a valid table leave a valid one.
LoadRule(r, h, line) ==
  /\ LET new == [rule EXCEPT ![h] = line] IN
       /\ Load(r, [op |-> "rule", new |-> new, ruled |-> Found(SeriesOf(new)),
                   with |-> Found(options)])
       /\ Valid(new, options)
  /\ UNCHANGED namingVars

SaveRule(r) ==
  /\ call[r].op = "rule"
  /\ Fresh(r, "rule")
  /\ rule' = call[r].new
  /\ ruled' = call[r].ruled /\ compared' = call[r].with
  /\ Done(r, {"rule"})
  /\ UNCHANGED <<options, counter, given, day>>

\* Document Naming Settings adds or removes a series.
ChangeOptions(s) ==
  /\ options' = IF s \in options THEN options \ {s} ELSE options \cup {s}
  /\ UNCHANGED <<rule, counter, given, ruled, compared, day, backendVars>>

\* set_naming_series: the holder's rule, which has to be an option ...
LoadByRule(r, h, isReturn) ==
  /\ rule[h] # None
  /\ LET s == IF isReturn THEN rule[h].return ELSE rule[h].normal IN
       s \in options /\ Load(r, [op |-> "name", s |-> s])
  /\ UNCHANGED namingVars

\* ... or, of who has none, the series asked for.
LoadByRequest(r, s) ==
  /\ s \in options
  /\ Load(r, [op |-> "name", s |-> s])
  /\ UNCHANGED namingVars

\* Document.insert: the row of the counter, which the day and the invoice tell, is
\* locked to the end; a name that exists is refused, which takes the counter back.
InsertInvoice(r, p) ==
  /\ call[r].op = "name"
  /\ LET s == call[r].s
         n == counter[p] + 1
         name == NameOf(p, WidthOf[s], n)
     IN  /\ p \in PrefixesOf[s][day]
         /\ n <= MaxNumber
         /\ name \notin {g.name : g \in given}
         /\ counter' = [counter EXCEPT ![p] = n]
         /\ given' = given \cup {[name |-> name, by |-> p]}
  /\ Done(r, {})
  /\ UNCHANGED <<options, rule, ruled, compared, day>>

NextSeriesDay ==
  /\ day < LastDay
  /\ day' = day + 1
  /\ UNCHANGED <<options, rule, counter, given, ruled, compared, backendVars>>

GiveUpNaming(r) ==
  /\ call[r] # Idle
  /\ Done(r, {})
  /\ UNCHANGED namingVars

NamingNext ==
  \/ \E r \in Requests :
       \/ \E h \in Holders, line \in Rules \cup {None} : LoadRule(r, h, line)
       \/ \E h \in Holders, isReturn \in BOOLEAN : LoadByRule(r, h, isReturn)
       \/ \E s \in Series : LoadByRequest(r, s)
       \/ \E p \in Counters : InsertInvoice(r, p)
       \/ SaveRule(r) \/ GiveUpNaming(r)
  \/ \E s \in Series : ChangeOptions(s)
  \/ NextSeriesDay

NamingSpec == BackendInit /\ NamingInit /\ [][NamingNext]_<<backendVars, namingVars>>

-----------------------------------------------------------------------------
(* Properties.                                                             *)

\* The next number of a series that a rule prescribes, on a day and for an invoice
\* whose counter is one that was found when the rules were saved, was never given
\* by another counter that was then found for a rule or an option, so that its
\* user is not stuck on a name that exists; nor by its own in another width
\* (counter_collision and validate_rules).
NextNumberIsFree ==
  \A s \in SeriesOf(rule), g \in given : \A p \in PrefixesOf[s][day] \cap ruled :
    g.name = NameOf(p, WidthOf[s], counter[p] + 1) => g.by \notin compared
=============================================================================
