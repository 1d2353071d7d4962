-------------------------------- MODULE Routing --------------------------------
(***************************************************************************)
(* The rows of mysql_servers that the routing code works with: a server in *)
(* the writer or in the reader hostgroup.  A topology is what syncCluster  *)
(* uses of a MySQLCluster: the primary (or None) and the replicas.         *)
(***************************************************************************)
CONSTANTS Server, None

W(s) == <<"writer", s>>
R(s) == <<"reader", s>>
Row  == {"writer", "reader"} \X Server

Topologies == [primary : Server \cup {None}, replicas : SUBSET Server]

Writers(rows) == {s \in Server : W(s) \in rows}
Readers(rows) == {s \in Server : R(s) \in rows}

(* The rows a topology asks for: expectedServers of syncCluster.           *)
Expected(t) == {W(s) : s \in {t.primary} \ {None}} \cup {R(s) : s \in t.replicas}

(* The rows syncCluster leaves when it runs alone.  The replicas come last *)
(* and each is deleted from the writers, so that a primary listed among    *)
(* the replicas ends as a reader.                                          *)
Installed(t) == Expected(t) \ {W(s) : s \in t.replicas}
===============================================================================
