------------------------------ MODULE EncStore ------------------------------
(***************************************************************************)
(* What the client library promises as long as no call throws and Redis    *)
(* refuses no command: a table of records that is read by name and asked   *)
(* for the records of a column.                                            *)
(*                                                                         *)
(* A Put makes its record known to the indexes it asks for, and then stores*)
(* it in one step.  A Get answers with the value the last Put has stored.  *)
(* A query finds all that it has to find, and nothing that is not indexed  *)
(* under what it asks for.  There are no nodes, counters, labels, entries  *)
(* or walks, and a query is answered in one step.                          *)
(***************************************************************************)

CONSTANTS
    Readers,       \* who calls Get and queries
    Cols, Values,  \* columns and their values
    Tds,           \* names of records: pairs of a key and a column
    Kinds,         \* the kinds of index; "col" does not tell values apart
    Records,       \* what is Put: a record's name, value and kinds of index
    Hits,          \* what a query returns: a record's name and a value
    Nil            \* no value

Questions == [kind : Kinds, col : Cols, wanted : SUBSET Values, must : SUBSET Tds]

VARIABLES
    indexed, \* what records are found by: kind of index, record, value
    table,   \* the last Put of each record, or Nil
    sent,    \* every Put
    asked,   \* the query each reader is in: a sequence of at most one
    answer,  \* its answer, once it is there: a sequence of at most one
    read     \* what a reader's Get has answered: a sequence of at most one

calls == <<asked, answer, read>>
vars == <<table, sent, asked, answer, read, indexed>>

Init ==
    /\ indexed = {}
    /\ table = [td \in Tds |-> Nil]
    /\ sent = {}
    /\ asked = [c \in Readers |-> <<>>]
    /\ answer = [c \in Readers |-> <<>>]
    /\ read = [c \in Readers |-> <<>>]

-----------------------------------------------------------------------------
FoundBy(kind, td, v) == <<kind, td, IF kind = "col" THEN Nil ELSE v>>

\* A Put makes its record known to one of its indexes.
IndexRecord(kind, td, v) ==
    /\ UNCHANGED <<table, sent, calls>>
    /\ indexed' = indexed \cup {FoundBy(kind, td, v)}

\* A Put stores its record, which is in all of its indexes by now.
StoreRecord(r) ==
    /\ table' = [table EXCEPT ![r.td] = r]
    /\ sent' = sent \cup {r}
    /\ \A kind \in r.kinds : FoundBy(kind, r.td, r.val) \in indexed
    /\ UNCHANGED <<indexed, calls>>

Idle(c) == asked[c] = <<>> /\ read[c] = <<>>

Stored(td) == IF table[td] = Nil THEN Nil ELSE table[td].val

Get(c, td) ==
    /\ Idle(c)
    /\ read' = [read EXCEPT ![c] = <<[td |-> td, ans |-> Stored(td)]>>]
    /\ UNCHANGED <<indexed, table, sent, asked, answer>>

GetReturn(c) ==
    /\ read[c] # <<>>
    /\ read' = [read EXCEPT ![c] = <<>>]
    /\ UNCHANGED <<indexed, table, sent, asked, answer>>

\* What is stored and fits a query when it begins.
Due(q) ==
    {td \in Tds : /\ td[2] = q.col /\ table[td] # Nil
                  /\ q.kind \in table[td].kinds /\ table[td].val \in q.wanted}

\* A query of any kind.  It has to find all that is due; GetCol, which asks
\* for a number of rows, part of it.
Ask(c, q) ==
    /\ Idle(c)
    /\ asked' = [asked EXCEPT ![c] = <<q>>]
    /\ IF q.kind = "col" THEN q.must \subseteq Due(q) ELSE q.must = Due(q)
    /\ UNCHANGED <<indexed, table, sent, answer, read>>

\* A record may be returned if it is of the column, is indexed under a wanted
\* value, and the value returned with it is one that it was Put with.
MayReturn(q, h) ==
    /\ h.td[2] = q.col
    /\ \E v \in q.wanted : FoundBy(q.kind, h.td, v) \in indexed
    /\ \E r \in sent : r.td = h.td /\ r.val = h.val

Answer(c, q) ==
    /\ asked[c] = <<q>> /\ answer[c] = <<>>
    /\ \E hits \in SUBSET Hits :
          /\ answer' = [answer EXCEPT ![c] = <<hits>>]
          /\ q.must \subseteq {h.td : h \in hits}
          /\ \A h \in hits : MayReturn(q, h)
    /\ UNCHANGED <<indexed, table, sent, asked, read>>

QueryReturn(c) ==
    /\ answer[c] # <<>>
    /\ answer' = [answer EXCEPT ![c] = <<>>]
    /\ asked' = [asked EXCEPT ![c] = <<>>]
    /\ UNCHANGED <<indexed, table, sent, read>>

-----------------------------------------------------------------------------
PutStep ==
    \/ \E kind \in Kinds, td \in Tds, v \in Values : IndexRecord(kind, td, v)
    \/ \E r \in Records : StoreRecord(r)

GetStep(c) == (\E td \in Tds : Get(c, td)) \/ GetReturn(c)

QueryStep(c) ==
    \/ \E q \in Questions : Ask(c, q) \/ Answer(c, q)
    \/ QueryReturn(c)

\* A call to a node or the answer to it, which nobody else can tell from none.
NodeCall == UNCHANGED vars

Next ==
    \/ NodeCall
    \/ PutStep
    \/ \E c \in Readers : GetStep(c) \/ QueryStep(c)

Spec == Init /\ [][Next]_vars
=============================================================================
