--------------------------- MODULE MCRedisCluster ---------------------------
(***************************************************************************)
(* A small instance of RedisCluster: three nodes, and one column of two    *)
(* rows, both of which, or only the second, may be stored before.  The slot*)
(* of junk, under which nothing is stored, stays where it is; a search,    *)
(* which is nothing but its answer, is served beside an idle thread, and   *)
(* a column beside any other call: two columns only share the map of pools.*)
(***************************************************************************)
EXTENDS RedisCluster, TLC

CONSTANTS t, u
ThreadSymmetry == Permutations(Threads)

MCIP == [s \in Servers |-> s]
MCLabel == (0 :> "l0") @@ (1 :> "l1")
Item(k, text) == [key |-> k, text |-> text]
MCPuts == {<<Item("t0", Text("data", "d")), Item("l0", Text("entry", "t0"))>>,
           <<Item("t0", Text("data", "e"))>>}

Row1 == [k \in Keys |-> CASE k = "t1" -> Text("data", "d")
                          [] k = "l1" -> Text("entry", "t1")
                          [] OTHER -> None]
BothRows == [Row1 EXCEPT !["t0"] = Text("data", "d"), !["l0"] = Text("entry", "t0")]
MCStores == {Row1, BothRows}

\* To begin with one row lies on the proxy's node and one on node a, where it
\* is stored; node b has none.  Only a row 0 on the proxy's node is missing.
MCInit ==
    /\ Init
    /\ owner["l0"] = owner["t0"] /\ owner["l1"] = owner["t1"] /\ owner["junk"] = "b"
    /\ {owner["l0"], owner["l1"]} = {"a", "h"}
    /\ store["l0"] = None <=> owner["l0"] = "h"
MCStep ==
    /\ owner'["junk"] = owner["junk"]
    /\ \A s \in Threads : th'[s] # Nil =>
            \A r \in Threads \ {s} : th'[r] # Nil =>
                /\ th'[s].op # "search"
                /\ {th'[s].op, th'[r].op} # {"ProxyGetColumn"}
MCSpec == MCInit /\ [][Next]_vars
=============================================================================
