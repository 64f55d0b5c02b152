--------------------------- MODULE ReadWriteSplit ---------------------------
(***************************************************************************)
(* What a proxy promises the clients it stands before, without goroutines, *)
(* sockets, pools and packets: a command is given to one server, once, and *)
(* to a replica only outside a transaction; the main server carries it out *)
(* at most once; it is answered at most once, and after that.  A command   *)
(* may be lost, and then it is never answered.  MysqlProxy implements this.*)
(***************************************************************************)
CONSTANT Sessions

VARIABLES
    client,     \* per session: "new", "idle", "waiting" or "gone"
    place,      \* where its command is: "none", "proxy", "main" or "replica",
                \* or "done": carried out by the main server, not yet answered
    open        \* it has a transaction on the main server

splitVars == <<client, place, open>>

SInit ==
    /\ client = [s \in Sessions |-> "new"]
    /\ place = [s \in Sessions |-> "none"]
    /\ open = [s \in Sessions |-> FALSE]

Move(s, from, to) ==
    /\ place[s] = from
    /\ place' = [place EXCEPT ![s] = to]

Arrive(s) ==
    /\ client[s] = "new"
    /\ client' = [client EXCEPT ![s] = "idle"]
    /\ UNCHANGED <<place, open>>

Ask(s) ==
    /\ client[s] = "idle"
    /\ client' = [client EXCEPT ![s] = "waiting"]
    /\ Move(s, "none", "proxy")
    /\ UNCHANGED open

GiveMain(s) == Move(s, "proxy", "main") /\ UNCHANGED <<client, open>>

GiveReplica(s) ==
    /\ ~open[s]
    /\ Move(s, "proxy", "replica")
    /\ UNCHANGED <<client, open>>

\* The only step that opens a transaction.
Execute(s) ==
    /\ Move(s, "main", "done")
    /\ \E b \in BOOLEAN : open' = [open EXCEPT ![s] = b]
    /\ UNCHANGED client

Answer(s) ==
    /\ client[s] = "waiting"
    /\ client' = [client EXCEPT ![s] = "idle"]
    /\ Move(s, "done", "none") \/ Move(s, "replica", "none")
    /\ UNCHANGED open

\* A server, or the session, goes away with the command.
Lose(s) ==
    /\ place' = [place EXCEPT ![s] = "none"]
    /\ \E b \in {open[s], FALSE} : open' = [open EXCEPT ![s] = b]
    /\ UNCHANGED client

\* The main server drops the session; an answer it had sent still arrives.
Drop(s) ==
    /\ open' = [open EXCEPT ![s] = FALSE]
    /\ UNCHANGED <<client, place>>

Leave(s) ==
    /\ client[s] \in {"idle", "waiting"}
    /\ client' = [client EXCEPT ![s] = "gone"]
    /\ UNCHANGED <<place, open>>

SNext == \E s \in Sessions :
    \/ Arrive(s) \/ Ask(s) \/ GiveMain(s) \/ GiveReplica(s) \/ Execute(s)
    \/ Answer(s) \/ Lose(s) \/ Drop(s) \/ Leave(s)

SSpec == SInit /\ [][SNext]_splitVars

=============================================================================
