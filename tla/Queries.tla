------------------------------- MODULE Queries -------------------------------
(***************************************************************************)
(* ListTransactions and GetAccountStatement beside the operations of       *)
(* DatedBooks: a client that walks through the pages of a list.  One call  *)
(* is three statements on the pool, the count, the page and the entries of *)
(* the page, each with the ledger of its own moment; between two calls the *)
(* ledger goes on too.                                                     *)
(***************************************************************************)
EXTENDS DatedBooks

CONSTANTS
  Unset,            \* a filter that is not set
  DefaultLimit,   \* the limit of a call that names none
  MaxLimit,       \* the largest limit a call gets
  Lists           \* the filters, orders and limits a run offers

ASSUME LimitsAssumption ==
  /\ MaxLimit \in Nat \ {0} /\ DefaultLimit \in 1..MaxLimit
  /\ \A q \in Lists : q.limit \in Int

VARIABLE list   \* the call, and what the walk has shown before it

NoList == [part |-> "none", query |-> Unset, total |-> 0, page |-> <<>>,
           fetched |-> <<>>, shown |-> <<>>, quiet |-> TRUE, late |-> FALSE]

Limit == LET l == list.query.limit
         IN  IF l <= 0 THEN DefaultLimit ELSE IF l > MaxLimit THEN MaxLimit ELSE l

\* The OFFSET of the next call: it asks for what comes after all that was shown.
Offset == Len(list.shown)

Fits(filter, value) == filter \in {Unset, value}

\* The WHERE clause.  Account and currency must be those of one entry.
Entered(t) ==
  \E i \in DOMAIN entries[t] : /\ Fits(list.query.account, entries[t][i].account)
                               /\ Fits(list.query.currency, entries[t][i].currency)
Matches == {t \in Txn : /\ Exists(t) /\ Entered(t)
                        /\ Fits(list.query.state, ledger[t].state)
                        /\ postedAt[t] \in list.query.from..list.query.to}

\* ORDER BY t.posted_at: equal times come in any order.
NotAfter_NewestFirst(t, u) == postedAt[t] >= postedAt[u]
NotAfter(t, u) == IF list.query.order = "timestamp_asc" THEN postedAt[t] <= postedAt[u]
                                                        ELSE postedAt[t] >= postedAt[u]

Ordered(s) == \A i, j \in DOMAIN s : i < j => NotAfter(s[i], s[j])

Listings == {s \in Bijection(1..Cardinality(Matches), Matches) : Ordered(s)}

\* LIMIT and OFFSET.
Window_Swapped(s) == SubSeq(s, Limit + 1, Limit + Offset)
Window(s) == SubSeq(s, Offset + 1, IF Offset + Limit < Len(s) THEN Offset + Limit ELSE Len(s))

\* FetchEntriesByTransactionIDs reads all entries, whatever the filter was.
EntriesOf_Filtered(t) ==
  SelectSeq(entries[t], LAMBDA e : Fits(list.query.account, e.account))
EntriesOf(t) == entries[t]

HasMore_LastPageToo == Offset + Len(list.page) <= list.total
HasMore == Offset + Len(list.page) < list.total

-----------------------------------------------------------------------------
(* The steps of a walk.                                                    *)

StartList(q) ==
  /\ list.part = "none"
  /\ list' = [NoList EXCEPT !.part = "count", !.query = q]

CountMatches ==
  /\ list.part = "count"
  /\ list' = [list EXCEPT !.part = "page", !.total = Cardinality(Matches)]

SelectPage ==
  /\ list.part = "page"
  /\ \E s \in Listings :
       list' = [list EXCEPT !.part = IF Window(s) = <<>> THEN "answered" ELSE "entries",
                            !.page = Window(s), !.fetched = <<>>]

FetchEntries ==
  /\ list.part = "entries"
  /\ list' = [list EXCEPT !.part = "answered",
                          !.fetched = [i \in DOMAIN list.page |-> EntriesOf(list.page[i])]]

\* The client asks for the next page.
NextPage ==
  /\ list.part = "answered" /\ HasMore
  /\ list' = [list EXCEPT !.part = "count", !.shown = @ \o list.page, !.page = <<>>,
                          !.fetched = <<>>, !.total = 0]

\* It has seen enough, or a statement failed.
StopList ==
  /\ list.part # "none"
  /\ list' = NoList

ListStep ==
  /\ \/ \E q \in Lists : StartList(q)
     \/ CountMatches \/ SelectPage \/ FetchEntries
     \/ NextPage \/ StopList
  /\ UNCHANGED datedVars

\* History, for the properties: during the walk an operation committed
\* (quiet), or a transaction no later than one already shown (late).
Seen == list.shown \o list.page

Noticed ==
  \/ list.part = "none" /\ UNCHANGED list
  \/ /\ list.part # "none"
     /\ list' = [list EXCEPT !.quiet = FALSE,
          !.late = @ \/ \E t \in Txn, i \in DOMAIN Seen :
                          /\ ~Exists(t) /\ ledger'[t].state # "absent"
                          /\ postedAt'[t] <= postedAt[Seen[i]]]

listVars == <<ledger, entries, clock, postedAt, list>>

ListInit == DatedInit /\ list = NoList
ListNext ==
  \/ Operation /\ Noticed
  \/ Tick /\ UNCHANGED list
  \/ ListStep
ListSpec == ListInit /\ [][ListNext]_listVars

-----------------------------------------------------------------------------
(* Properties of an answer. *)

ListAnswered == list.part = "answered"

\* Every transaction of a page comes with all of its entries, although they are
\* read by another statement and the filter may have looked for one of them:
\* the debits and credits of what is shown balance.
ListedWhole ==
  ListAnswered =>
    \A i \in DOMAIN list.page : list.fetched[i] # <<>> /\ DoubleEntry(list.fetched[i])

\* has_more compares a page with an older total.  Transactions are never
\* deleted, so without a filter on the state it never promises a page that is
\* not there.
MoreIsThere ==
  ListAnswered /\ HasMore /\ list.query.state = Unset => Cardinality(Matches) > Len(Seen)

\* What is unambiguous about the order of the list.
NoTies == \A t, u \in Matches : postedAt[t] = postedAt[u] => t = u

Older(t, u) == postedAt[t] < postedAt[u]
Newer(t, u) == postedAt[t] > postedAt[u]

FirstOf(s, Precedes(_, _)) ==
  /\ IsInjective(s) /\ Range(s) \subseteq Matches
  /\ \A i, j \in DOMAIN s : i < j => Precedes(s[i], s[j])
  /\ \A t \in Matches \ Range(s), i \in DOMAIN s : Precedes(s[i], t)

\* While nothing is committed, the pages are the list, cut: nothing is listed
\* twice or left out, the walk gets on and the last page says that it is the
\* last.
QuietWalk ==
  ListAnswered /\ NoTies /\ list.quiet =>
    /\ IF list.query.order = "timestamp_asc" THEN FirstOf(Seen, Older) ELSE FirstOf(Seen, Newer)
    /\ HasMore <=> Range(Seen) # Matches
    /\ HasMore => list.page # <<>>

\* Walking oldest first, transactions that commit meanwhile disturb nothing as
\* long as none of them carries an earlier posted_at than one already shown.
AscendingWalk ==
  /\ ListAnswered /\ NoTies /\ ~list.late
  /\ list.query.order = "timestamp_asc" /\ list.query.state = Unset
  => FirstOf(Seen, Older)
=============================================================================
