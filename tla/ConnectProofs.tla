---------------------------- MODULE ConnectProofs ----------------------------
(***************************************************************************)
(* Proofs about Connect: client and server stay in the same phase, what    *)
(* Connect returns has its parameters set, and the password itself travels *)
(* only where it may, for every set of configurations and connections.     *)
(***************************************************************************)
EXTENDS Connect, SequenceTheorems, TLAPS

\* The servers that one Connector reaches all offer TLS, or none does.
SameTLS == \A ssl \in Offers : \A c, d \in Conns : ssl[c] = ssl[d]

-----------------------------------------------------------------------------
(***************************************************************************)
(* The phases of a connection, with the packets that may be on their way.  *)
(***************************************************************************)

\* The one packet of q has one of the types.
Lone(q, types) == Len(q) = 1 /\ q[1].type \in types

\* Nothing is on its way.
Quiet(n) == n.toServer = <<>> /\ n.toClient = <<>>

\* Only a packet for the server, or only packets for the client.
ForServer(n, types) == Lone(n.toServer, types) /\ n.toClient = <<>>

ForClient(n, types) == n.toServer = <<>> /\ Lone(n.toClient, types)

\* The server waits for the password in the form of plugin x.plugin.
Offered(x, n) == n.toServer[1].data = "askKey" => x.plugin = "sha256"

\* While the client waits for the result of the authentication.
ResultPhase(x, s, n) ==
    \/ /\ s.pc = "response" /\ ForServer(n, {"response"})
       /\ n.toServer[1].plugin = x.plugin /\ Offered(x, n)
    \/ s.pc = "data" /\ ForServer(n, {"data"}) /\ s.account = x.plugin /\ Offered(x, n)
    \/ s.pc = "data" /\ ForClient(n, {"switch"}) /\ s.account = n.toClient[1].plugin
    \/ s.pc = "data" /\ ForClient(n, {"full"}) /\ x.plugin = "sha2"
    \/ s.pc = "data" /\ ForClient(n, {"key"}) /\ x.plugin = "sha256"
    \/ /\ s.pc = "command" /\ n.toServer = <<>> /\ Len(n.toClient) = 2
       /\ n.toClient[1].type = "fast" /\ n.toClient[2].type = "ok" /\ x.plugin = "sha2"
    \/ s.pc = "command" /\ ForClient(n, {"ok"})
    \/ s.pc = "closed" /\ ForClient(n, {"err"})

Phase(x, s, n) ==
    /\ x.pc = "new" => s.pc = "greet" /\ Quiet(n) /\ x.sock # "open"
    /\ x.pc = "greet" =>
           \/ s.pc = "greet" /\ Quiet(n)
           \/ s.pc = "response" /\ ForClient(n, {"greet"}) /\ (n.toClient[1].ssl <=> s.ssl)
           \/ s.pc = "closed" /\ ForClient(n, {"err"})
    /\ x.pc \in {"auth", "respond"} => s.pc = "response" /\ Quiet(n)
    /\ x.pc = "respond" => x.resp # "none" /\ (x.resp = "askKey" => x.plugin = "sha256")
    /\ x.pc = "tls" =>
           /\ x.resp # "none" /\ (x.resp = "askKey" => x.plugin = "sha256")
           /\ \/ s.pc = "response" /\ ForServer(n, {"ssl"})
              \/ s.pc = "tls" /\ Quiet(n)
    /\ x.pc = "result" => ResultPhase(x, s, n)
    /\ x.pc = "ok" =>
           \/ s.pc = "data" /\ ForServer(n, {"data"}) /\ n.toServer[1].data \in {"clear", "enc"}
           \/ s.pc = "command" /\ ForClient(n, {"ok"})
           \/ s.pc = "closed" /\ ForClient(n, {"err"})
    /\ x.pc = "key" =>
           \/ s.pc = "data" /\ ForServer(n, {"data"}) /\ n.toServer[1].data = "askKey"
           \/ s.pc = "data" /\ ForClient(n, {"key"})
    /\ x.pc \in {"command", "up"} => s.pc = "command" /\ Quiet(n)
    /\ x.pc = "reply" =>
           /\ s.pc = "command" /\ x.todo # <<>>
           /\ ForServer(n, {"query"}) \/ ForClient(n, {"ok", "err"})

\* The commands that the server has accepted, and those still to be sent.
Count(x, s, n, total) ==
    /\ x.pc \notin {"command", "reply", "up", "failed"} => s.accepted = 0
    /\ x.pc \in {"command", "reply"} =>
           s.accepted + Len(x.todo)
               = total + (IF x.pc = "reply" /\ ForClient(n, {"ok"}) THEN 1 ELSE 0)
    /\ x.pc = "up" => s.accepted = total

PhaseInv == \A c \in Conns : Phase(client[c], server[c], net[c])

CountInv == \A c \in Conns : Count(client[c], server[c], net[c], Len(Todo))

-----------------------------------------------------------------------------
(***************************************************************************)
(* How the password travels over TCP when all servers agree about TLS:     *)
(* once the first greeting has been read, cfg.tls says whether connections *)
(* are encrypted.                                                          *)
(***************************************************************************)

Clear(n) == \E i \in DOMAIN n.toServer :
    n.toServer[i].type \in {"response", "data"} /\ n.toServer[i].data = "clear"

Secret(x, s, n, tls) ==
    /\ x.pc \notin {"new", "greet", "failed"} => (tls => s.ssl)
    /\ x.pc = "tls" => tls
    /\ x.pc \in {"respond", "tls"} /\ x.resp = "clear" => tls \/ x.plugin = "clear"
    /\ x.pc \in {"new", "greet", "auth", "respond", "tls"} => ~x.tls
    /\ x.pc \in {"result", "ok", "key"} => (x.tls <=> tls)
    /\ Clear(n) => x.tls \/ x.plugin = "clear"

SecretInv ==
    /\ ~cfg.unix
    /\ \A c, d \in Conns : server[c].ssl = server[d].ssl
    /\ \A c \in Conns : Secret(client[c], server[c], net[c], cfg.tls)

ConnectInv == TypeOK /\ PhaseInv /\ CountInv

-----------------------------------------------------------------------------
(***************************************************************************)
(* Packets and the links that carry them.                                  *)
(***************************************************************************)

\* The packets that the client sends.
LEMMA ClientPackets ==
    /\ [type |-> "ssl"] \in ToServer
    /\ [type |-> "query"] \in ToServer
    /\ \A p \in Plugins \cup {DefaultPlugin}, d \in Passwords :
           [type |-> "response", plugin |-> p, data |-> d] \in ToServer
    /\ \A d \in Passwords : [type |-> "data", data |-> d] \in ToServer
PROOF
  BY DEF ToServer

\* The packets that the server sends.
LEMMA ServerPackets ==
    /\ \A t \in {"ok", "err", "fast", "full", "key"} : [type |-> t] \in ToClient
    /\ \A p \in Plugins : [type |-> "switch", plugin |-> p] \in ToClient
    /\ \A p \in Plugins \cup {""}, b \in BOOLEAN :
           [type |-> "greet", plugin |-> p, ssl |-> b] \in ToClient
PROOF
  BY DEF ToClient

\* What is known of a packet by its type.
LEMMA PacketFields ==
    /\ \A m \in ToClient : m.type = "greet" => m.plugin \in Plugins \cup {""} /\ m.ssl \in BOOLEAN
    /\ \A m \in ToClient : m.type = "switch" => m.plugin \in Plugins
    /\ \A m \in ToClient : m.type \in {"greet", "switch", "ok", "err", "fast", "full", "key"}
    /\ \A m \in ToServer : m.type = "response" => m.plugin \in Plugins \cup {DefaultPlugin}
    /\ \A m \in ToServer : m.type \in {"response", "data"} => m.data \in Passwords
    /\ \A m \in ToServer : m.type \in {"ssl", "query", "response", "data"}
PROOF
  BY DEF ToClient, ToServer

\* A queue that is empty or holds one packet.
LEMMA QueueFacts ==
    ASSUME NEW S, NEW q \in Seq(S)
    PROVE  /\ q # <<>> => Len(q) # 0 /\ 1 \in DOMAIN q /\ Head(q) = q[1] /\ q[1] \in S /\ Tail(q) \in Seq(S)
           /\ Len(q) = 1 => q # <<>> /\ Tail(q) = <<>> /\ DOMAIN q = {1}
           /\ \A m \in S : /\ Append(q, m) \in Seq(S)
                           /\ q = <<>> => Len(Append(q, m)) = 1 /\ Append(q, m)[1] = m
           /\ \A r \in Seq(S) : q \o r \in Seq(S) /\ (q = <<>> => q \o r = r)
PROOF
  <1>1. q # <<>> => Len(q) # 0 /\ 1 \in DOMAIN q /\ Head(q) = q[1] /\ q[1] \in S /\ Tail(q) \in Seq(S)
    BY EmptySeq
  <1>2. ASSUME Len(q) = 1
        PROVE  q # <<>> /\ Tail(q) = <<>> /\ DOMAIN q = {1}
    <2>1. q # <<>> /\ DOMAIN q = {1}
      BY <1>2
    <2>2. Tail(q) \in Seq(S) /\ Len(Tail(q)) = 0
      BY <1>2, <2>1
    <2>3. QED
      BY <2>1, <2>2, EmptySeq
  <1>3. ASSUME NEW m \in S
        PROVE  /\ Append(q, m) \in Seq(S)
               /\ q = <<>> => Len(Append(q, m)) = 1 /\ Append(q, m)[1] = m
    BY <1>3
  <1>4. ASSUME NEW r \in Seq(S)
        PROVE  q \o r \in Seq(S) /\ (q = <<>> => q \o r = r)
    BY <1>4, ConcatEmptySeq
  <1>5. QED
    BY <1>1, <1>2, <1>3, <1>4

\* The client has read a packet.
LEMMA DropFacts ==
    ASSUME TypeOK, NEW c \in Conns, net[c].toClient # <<>>, Drop(c)
    PROVE  /\ net' \in [Conns -> NetStates]
           /\ \A d \in Conns \ {c} : net'[d] = net[d]
           /\ net'[c].toServer = net[c].toServer
           /\ net'[c].toClient = Tail(net[c].toClient)
PROOF
  <1>1. net \in [Conns -> NetStates] /\ net[c] \in NetStates
    BY DEF TypeOK
  <1>2. Tail(net[c].toClient) \in Seq(ToClient)
    BY <1>1, QueueFacts DEF NetStates
  <1>3. /\ Rest(c) \in NetStates /\ Rest(c).toServer = net[c].toServer
        /\ Rest(c).toClient = Tail(net[c].toClient)
    BY <1>1, <1>2 DEF Rest, NetStates
  <1>4. QED
    BY <1>1, <1>3 DEF Drop

\* The client has read a packet, if it had to, and answers.
LEMMA AnswerFacts ==
    ASSUME TypeOK, NEW c \in Conns, NEW m \in ToServer, net[c].toServer = <<>>,
           \/ net[c].toClient # <<>> /\ Answer(c, m)
           \/ net[c].toClient = <<>> /\ Send(c, m)
    PROVE  /\ net' \in [Conns -> NetStates]
           /\ \A d \in Conns \ {c} : net'[d] = net[d]
           /\ Len(net'[c].toServer) = 1 /\ net'[c].toServer[1] = m
           /\ net[c].toClient = <<>> => net'[c].toClient = <<>>
           /\ Len(net[c].toClient) = 1 => net'[c].toClient = <<>>
PROOF
  <1>1. /\ net \in [Conns -> NetStates] /\ net[c] \in NetStates
        /\ net[c].toServer \in Seq(ToServer) /\ net[c].toClient \in Seq(ToClient)
    BY DEF TypeOK, NetStates
  <1>2. /\ Append(net[c].toServer, m) \in Seq(ToServer)
        /\ Len(Append(net[c].toServer, m)) = 1 /\ Append(net[c].toServer, m)[1] = m
    BY <1>1, QueueFacts
  <1>3. CASE net[c].toClient # <<>> /\ Answer(c, m)
    <2>1. /\ Tail(net[c].toClient) \in Seq(ToClient)
          /\ Len(net[c].toClient) = 1 => Tail(net[c].toClient) = <<>>
      BY <1>1, <1>3, QueueFacts
    <2>2. /\ Rest(c) \in NetStates /\ Rest(c).toServer = net[c].toServer
          /\ Rest(c).toClient = Tail(net[c].toClient)
      BY <1>1, <2>1 DEF Rest, NetStates
    <2> DEFINE n == [Rest(c) EXCEPT !.toServer = Append(@, m)]
    <2>3. /\ n \in NetStates /\ n.toServer = Append(net[c].toServer, m)
          /\ n.toClient = Tail(net[c].toClient)
      BY <1>2, <2>2 DEF NetStates
    <2>4. net' = [net EXCEPT ![c] = n]
      BY <1>3 DEF Answer
    <2> HIDE DEF n
    <2>5. net' \in [Conns -> NetStates] /\ net'[c] = n /\ \A d \in Conns \ {c} : net'[d] = net[d]
      BY <1>1, <2>3, <2>4
    <2>6. QED
      BY <1>2, <1>3, <2>1, <2>3, <2>5
  <1>4. CASE net[c].toClient = <<>> /\ Send(c, m)
    <2> DEFINE n == [net[c] EXCEPT !.toServer = Append(@, m)]
    <2>1. n \in NetStates /\ n.toServer = Append(net[c].toServer, m) /\ n.toClient = <<>>
      BY <1>1, <1>2, <1>4 DEF NetStates
    <2>2. net' = [net EXCEPT ![c] = n]
      BY <1>1, <1>4 DEF Send
    <2> HIDE DEF n
    <2>3. net' \in [Conns -> NetStates] /\ net'[c] = n /\ \A d \in Conns \ {c} : net'[d] = net[d]
      BY <1>1, <2>1, <2>2
    <2>4. Len(net'[c].toServer) = 1 /\ net'[c].toServer[1] = m /\ net'[c].toClient = <<>>
      BY <1>2, <2>1, <2>3
    <2>5. QED
      BY <2>3, <2>4
  <1>5. QED
    BY <1>3, <1>4

\* The server has read a packet, if one was there, and answers.
LEMMA ReplyFacts ==
    ASSUME TypeOK, NEW c \in Conns, NEW ms \in Seq(ToClient), NEW state \in ServerStates,
           Reply(c, ms, state)
    PROVE  /\ net' \in [Conns -> NetStates] /\ server' \in [Conns -> ServerStates]
           /\ \A d \in Conns \ {c} : net'[d] = net[d] /\ server'[d] = server[d]
           /\ server'[c] = state
           /\ net[c].toServer = <<>> \/ Len(net[c].toServer) = 1 => net'[c].toServer = <<>>
           /\ net[c].toServer # <<>> => net'[c].toServer = Tail(net[c].toServer)
           /\ net[c].toClient = <<>> => net'[c].toClient = ms
PROOF
  <1>1. /\ net \in [Conns -> NetStates] /\ net[c] \in NetStates /\ server \in [Conns -> ServerStates]
        /\ net[c].toServer \in Seq(ToServer) /\ net[c].toClient \in Seq(ToClient)
    BY DEF TypeOK, NetStates
  <1> DEFINE q == IF net[c].toServer = <<>> THEN net[c].toServer ELSE Tail(net[c].toServer)
             n == [net[c] EXCEPT !.toServer = q, !.toClient = net[c].toClient \o ms]
  <1>2. /\ q \in Seq(ToServer)
        /\ net[c].toServer # <<>> => q = Tail(net[c].toServer)
        /\ net[c].toServer = <<>> \/ Len(net[c].toServer) = 1 => q = <<>>
    BY <1>1, QueueFacts
  <1>3. /\ net[c].toClient \o ms \in Seq(ToClient)
        /\ net[c].toClient = <<>> => net[c].toClient \o ms = ms
    BY <1>1, QueueFacts
  <1>4. net' = [net EXCEPT ![c] = n]
    BY <1>1 DEF Reply, NetStates
  <1> HIDE DEF q
  <1>5. n \in NetStates /\ n.toServer = q /\ n.toClient = net[c].toClient \o ms
    BY <1>1, <1>2, <1>3 DEF NetStates
  <1> HIDE DEF n
  <1>6. net' \in [Conns -> NetStates] /\ net'[c] = n /\ \A d \in Conns \ {c} : net'[d] = net[d]
    BY <1>1, <1>4, <1>5
  <1>7. /\ server' \in [Conns -> ServerStates] /\ server'[c] = state
        /\ \A d \in Conns \ {c} : server'[d] = server[d]
    BY <1>1 DEF Reply
  <1>8. QED
    BY <1>2, <1>3, <1>5, <1>6, <1>7

\* Connect returns an error.
LEMMA FailFacts ==
    ASSUME TypeOK, NEW c \in Conns, Fail(c)
    PROVE  /\ client' \in [Conns -> ClientStates]
           /\ \A d \in Conns \ {c} : client'[d] = client[d]
           /\ client'[c].pc = "failed"
           /\ client'[c].plugin = client[c].plugin /\ client'[c].tls = client[c].tls
PROOF
  <1>1. client \in [Conns -> ClientStates] /\ client[c] \in ClientStates
    BY DEF TypeOK
  <1> DEFINE sock == IF client[c].sock = "none" THEN "none" ELSE "closed"
             x == [client[c] EXCEPT !.pc = "failed", !.sock = sock]
  <1>2. /\ x \in ClientStates /\ x.pc = "failed" /\ x.plugin = client[c].plugin
        /\ x.tls = client[c].tls
    BY <1>1 DEF ClientStates, Steps
  <1>3. client' = [client EXCEPT ![c] = x]
    BY <1>1 DEF Fail, ClientStates
  <1> HIDE DEF x
  <1>4. QED
    BY <1>1, <1>2, <1>3

-----------------------------------------------------------------------------
(***************************************************************************)
(* A step of connection c leaves the others alone, so that it is enough to *)
(* look at c.                                                              *)
(***************************************************************************)

Kept(c) ==
    /\ client' \in [Conns -> ClientStates]
    /\ server' \in [Conns -> ServerStates]
    /\ net' \in [Conns -> NetStates]
    /\ faults' \in 0..MaxFaults
    /\ \A d \in Conns \ {c} : client'[d] = client[d] /\ server'[d] = server[d] /\ net'[d] = net[d]
    /\ server'[c].ssl = server[c].ssl
    /\ Phase(client'[c], server'[c], net'[c])
    /\ Count(client'[c], server'[c], net'[c], Len(Todo))
    /\ SecretInv => Secret(client'[c], server'[c], net'[c], cfg'.tls)

\* The invariants hold again after a step that leaves the Config alone.
LEMMA KeptInv ==
    ASSUME ConnectInv, NEW c \in Conns, Kept(c), cfg' = cfg
    PROVE  ConnectInv' /\ (SecretInv => SecretInv') /\ cfg'.unix = cfg.unix
PROOF
  <1>1. TypeOK'
    BY DEF Kept, ConnectInv, TypeOK
  <1>2. Todo' = Todo
    BY DEF Todo
  <1>3. ASSUME NEW d \in Conns
        PROVE  /\ Phase(client'[d], server'[d], net'[d])
               /\ Count(client'[d], server'[d], net'[d], Len(Todo))
               /\ SecretInv => Secret(client'[d], server'[d], net'[d], cfg'.tls)
    <2>1. CASE d = c
      BY <2>1 DEF Kept
    <2>2. CASE d # c
      <3>1. client'[d] = client[d] /\ server'[d] = server[d] /\ net'[d] = net[d]
        BY <2>2 DEF Kept
      <3>2. Phase(client[d], server[d], net[d]) /\ Count(client[d], server[d], net[d], Len(Todo))
        BY DEF ConnectInv, PhaseInv, CountInv
      <3>3. SecretInv => Secret(client[d], server[d], net[d], cfg.tls)
        BY DEF SecretInv
      <3>4. QED
        BY <3>1, <3>2, <3>3
    <2>3. QED
      BY <2>1, <2>2
  <1>4. PhaseInv' /\ CountInv'
    BY <1>2, <1>3 DEF PhaseInv, CountInv
  <1>5. SecretInv => SecretInv'
    <2>1. \A d \in Conns : server'[d].ssl = server[d].ssl
      BY DEF Kept
    <2>2. QED
      BY <1>3, <2>1 DEF SecretInv
  <1>6. QED
    BY <1>1, <1>4, <1>5 DEF ConnectInv

\* Nothing is expected of a connection that failed.
LEMMA FailKept ==
    ASSUME ConnectInv, NEW c \in Conns, Fail(c), cfg' = cfg, server' = server,
           net' \in [Conns -> NetStates], \A d \in Conns \ {c} : net'[d] = net[d],
           net'[c].toServer = net[c].toServer, faults' \in 0..MaxFaults
    PROVE  Kept(c)
PROOF
  <1>1. TypeOK
    BY DEF ConnectInv
  <1>2. /\ client' \in [Conns -> ClientStates]
        /\ \A d \in Conns \ {c} : client'[d] = client[d]
        /\ client'[c].pc = "failed"
        /\ client'[c].plugin = client[c].plugin /\ client'[c].tls = client[c].tls
    BY <1>1, FailFacts
  <1>3. Phase(client'[c], server'[c], net'[c])
    BY <1>2 DEF Phase
  <1>4. Count(client'[c], server'[c], net'[c], Len(Todo))
    BY <1>2 DEF Count
  <1>5. SecretInv => Secret(client'[c], server'[c], net'[c], cfg'.tls)
    BY <1>2 DEF SecretInv, Secret, Clear
  <1>6. server' \in [Conns -> ServerStates]
    BY <1>1 DEF TypeOK
  <1>7. QED
    BY <1>2, <1>3, <1>4, <1>5, <1>6 DEF Kept

\* The client reads a packet it can do nothing with.
LEMMA DropFailKept ==
    ASSUME ConnectInv, NEW c \in Conns, net[c].toClient # <<>>, Fail(c), Drop(c),
           UNCHANGED <<cfg, server, faults>>
    PROVE  Kept(c)
PROOF
  <1>1. TypeOK
    BY DEF ConnectInv
  <1>2. /\ net' \in [Conns -> NetStates] /\ net'[c].toServer = net[c].toServer
        /\ \A d \in Conns \ {c} : net'[d] = net[d]
    BY <1>1, DropFacts
  <1>3. faults' \in 0..MaxFaults
    BY <1>1 DEF TypeOK
  <1>4. QED
    BY <1>2, <1>3, FailKept

\* A step of the server, when the client waits for it or has failed.
LEMMA ReplyKept ==
    ASSUME ConnectInv, NEW c \in Conns, NEW ms \in Seq(ToClient), NEW state \in ServerStates,
           Reply(c, ms, state), UNCHANGED <<cfg, client, faults>>, state.ssl = server[c].ssl,
           client[c].pc # "failed" =>
               /\ net[c].toClient = <<>>
               /\ net[c].toServer = <<>> \/ Len(net[c].toServer) = 1,
           client[c].pc # "failed" => \A n \in NetStates :
               n.toServer = <<>> /\ n.toClient = ms =>
                   Phase(client[c], state, n) /\ Count(client[c], state, n, Len(Todo))
    PROVE  Kept(c)
PROOF
  <1>1. TypeOK /\ client \in [Conns -> ClientStates] /\ faults \in 0..MaxFaults
    BY DEF ConnectInv, TypeOK
  <1>2. /\ net' \in [Conns -> NetStates] /\ server' \in [Conns -> ServerStates]
        /\ \A d \in Conns \ {c} : net'[d] = net[d] /\ server'[d] = server[d]
        /\ server'[c] = state
        /\ net[c].toServer = <<>> \/ Len(net[c].toServer) = 1 => net'[c].toServer = <<>>
        /\ net[c].toServer # <<>> => net'[c].toServer = Tail(net[c].toServer)
        /\ net[c].toClient = <<>> => net'[c].toClient = ms
    BY <1>1, ReplyFacts
  <1>3. Phase(client[c], state, net'[c]) /\ Count(client[c], state, net'[c], Len(Todo))
    <2>1. CASE client[c].pc = "failed"
      BY <2>1 DEF Phase, Count
    <2>2. CASE client[c].pc # "failed"
      BY <1>2, <2>2
    <2>3. QED
      BY <2>1, <2>2
  <1>4. Clear(net'[c]) => Clear(net[c])
    <2>1. net[c].toServer \in Seq(ToServer)
      BY <1>1 DEF TypeOK, NetStates
    <2>2. CASE net[c].toServer = <<>>
      <3>1. net'[c].toServer = <<>>
        BY <1>2, <2>2
      <3>2. QED
        BY <3>1 DEF Clear
    <2>3. CASE net[c].toServer # <<>>
      <3> DEFINE q == net[c].toServer
                 t == Tail(q)
      <3>1. \A i \in DOMAIN t : i + 1 \in DOMAIN q /\ t[i] = q[i + 1]
        BY <2>1, <2>3
      <3>2. net'[c].toServer = t
        BY <1>2, <2>3
      <3> HIDE DEF t
      <3>3. QED
        BY <3>1, <3>2 DEF Clear
    <2>4. QED
      BY <2>2, <2>3
  <1>5. SecretInv => Secret(client[c], state, net'[c], cfg.tls)
    <2>1. SecretInv => Secret(client[c], server[c], net[c], cfg.tls)
      BY DEF SecretInv
    <2>2. QED
      BY <1>4, <2>1 DEF Secret
  <1>6. client' = client /\ cfg' = cfg /\ faults' = faults
    OBVIOUS
  <1>7. QED
    BY <1>1, <1>2, <1>3, <1>5, <1>6 DEF Kept

\* A step of the client that leaves the server's state alone.
LEMMA ClientKept ==
    ASSUME ConnectInv, NEW c \in Conns, NEW x \in ClientStates, client' = [client EXCEPT ![c] = x],
           UNCHANGED <<cfg, server, faults>>,
           net' \in [Conns -> NetStates], \A d \in Conns \ {c} : net'[d] = net[d],
           Phase(x, server[c], net'[c]), Count(x, server[c], net'[c], Len(Todo)),
           SecretInv => Secret(x, server[c], net'[c], cfg.tls)
    PROVE  Kept(c)
PROOF
  <1>1. /\ client \in [Conns -> ClientStates] /\ faults' \in 0..MaxFaults
        /\ server' \in [Conns -> ServerStates] /\ server' = server /\ cfg' = cfg
    BY DEF ConnectInv, TypeOK
  <1>2. /\ client' \in [Conns -> ClientStates] /\ client'[c] = x
        /\ \A d \in Conns \ {c} : client'[d] = client[d]
    BY <1>1
  <1>3. QED
    BY <1>1, <1>2 DEF Kept

\* The state of one connection.
LEMMA OneConn ==
    ASSUME ConnectInv, NEW c \in Conns
    PROVE  /\ client[c] \in ClientStates /\ server[c] \in ServerStates /\ net[c] \in NetStates
           /\ net[c].toServer \in Seq(ToServer) /\ net[c].toClient \in Seq(ToClient)
           /\ client \in [Conns -> ClientStates] /\ net \in [Conns -> NetStates]
           /\ cfg \in ConfigRecords
           /\ Phase(client[c], server[c], net[c]) /\ Count(client[c], server[c], net[c], Len(Todo))
           /\ SecretInv => Secret(client[c], server[c], net[c], cfg.tls)
PROOF
  <1>1. TypeOK
    BY DEF ConnectInv
  <1>2. /\ client[c] \in ClientStates /\ server[c] \in ServerStates /\ net[c] \in NetStates
        /\ client \in [Conns -> ClientStates] /\ net \in [Conns -> NetStates]
        /\ cfg \in ConfigRecords
    BY <1>1 DEF TypeOK
  <1>3. net[c].toServer \in Seq(ToServer) /\ net[c].toClient \in Seq(ToClient)
    BY <1>2 DEF NetStates
  <1>4. Phase(client[c], server[c], net[c]) /\ Count(client[c], server[c], net[c], Len(Todo))
    BY DEF ConnectInv, PhaseInv, CountInv
  <1>5. SecretInv => Secret(client[c], server[c], net[c], cfg.tls)
    BY DEF SecretInv
  <1>6. QED
    BY <1>2, <1>3, <1>4, <1>5

\* auth asks for the public key only for sha256_password, and uses the password
\* itself only with TLS or with the plugin that was allowed to.
LEMMA AuthResponseFacts ==
    ASSUME NEW p
    PROVE  /\ AuthResponse(p) \in Passwords \cup {"none"}
           /\ AuthResponse(p) = "askKey" => p = "sha256"
           /\ AuthResponse(p) = "clear" => cfg.tls \/ p = "clear"
PROOF
  BY DEF AuthResponse, Passwords

\* What there is to do after the authentication.
LEMMA TodoType == Todo \in Seq({"var", "charset", "set"}) /\ Len(Todo) \in Nat
PROOF
  <1> DEFINE S == {"var", "charset", "set"}
             q1 == IF cfg.maxPacket THEN <<>> ELSE <<"var">>
             q2 == IF cfg.charsets = 0 THEN <<>> ELSE <<"charset">>
             q3 == IF cfg.params THEN <<"set">> ELSE <<>>
  <1>1. q1 \in Seq(S) /\ q2 \in Seq(S) /\ q3 \in Seq(S)
    <2>1. <<>> \in Seq(S)
      OBVIOUS
    <2>2. "var" \in S /\ "charset" \in S /\ "set" \in S
      OBVIOUS
    <2> HIDE DEF S
    <2>3. <<"var">> \in Seq(S) /\ <<"charset">> \in Seq(S) /\ <<"set">> \in Seq(S)
      BY <2>2
    <2>4. QED
      BY <2>1, <2>3
  <1>2. Todo = q1 \o q2 \o q3
    BY DEF Todo
  <1> HIDE DEF q1, q2, q3
  <1>3. QED
    BY <1>1, <1>2

\* The one packet for the server holds the password itself, or none does.
LEMMA OneData ==
    ASSUME NEW n \in NetStates, Len(n.toServer) = 1, Clear(n)
    PROVE  n.toServer[1].type \in {"response", "data"} /\ n.toServer[1].data = "clear"
PROOF
  <1>1. n.toServer \in Seq(ToServer)
    BY DEF NetStates
  <1>2. DOMAIN n.toServer = {1}
    BY <1>1, QueueFacts
  <1>3. QED
    BY <1>2 DEF Clear

-----------------------------------------------------------------------------
(***************************************************************************)
(* The steps of the client.                                                *)
(***************************************************************************)

\* The connection is open.
LEMMA DialKept ==
    ASSUME ConnectInv, NEW c \in Conns, Dial(c)
    PROVE  Kept(c)
PROOF
  <1>1. client[c] \in ClientStates /\ client \in [Conns -> ClientStates] /\ net \in [Conns -> NetStates]
    BY OneConn
  <1> DEFINE x == [client[c] EXCEPT !.pc = "greet", !.sock = "open"]
  <1>2. x \in ClientStates /\ x.pc = "greet" /\ x.plugin = client[c].plugin /\ x.tls = client[c].tls
    BY <1>1 DEF ClientStates, Steps
  <1>3. client' = [client EXCEPT ![c] = x]
    BY <1>1 DEF Dial, ClientStates
  <1> HIDE DEF x
  <1>4. client[c].pc = "new" /\ net' = net /\ UNCHANGED <<cfg, server, faults>>
    BY DEF Dial
  <1>5. Phase(x, server[c], net[c])
    BY <1>2, <1>4, OneConn DEF Phase
  <1>6. Count(x, server[c], net[c], Len(Todo))
    BY <1>2, <1>4, OneConn DEF Count
  <1>7. SecretInv => Secret(x, server[c], net[c], cfg.tls)
    BY <1>2, <1>4, OneConn DEF Secret
  <1>8. QED
    BY <1>1, <1>2, <1>3, <1>4, <1>5, <1>6, <1>7, ClientKept

\* No connection is made.
LEMMA DialFailsKept ==
    ASSUME ConnectInv, NEW c \in Conns, DialFails(c)
    PROVE  Kept(c)
PROOF
  <1>1. /\ client[c] \in ClientStates /\ client \in [Conns -> ClientStates] /\ net \in [Conns -> NetStates]
        /\ net[c] \in NetStates /\ server \in [Conns -> ServerStates]
    BY OneConn DEF ConnectInv, TypeOK
  <1>2. PICK sock \in {"none", "closed"} :
            client' = [client EXCEPT ![c].pc = "failed", ![c].sock = sock]
    BY DEF DialFails
  <1>3. server' = server /\ cfg' = cfg /\ faults' = faults + 1 /\ faults < MaxFaults
    BY DEF DialFails
  <1>4. /\ client' \in [Conns -> ClientStates] /\ client'[c].pc = "failed"
        /\ client'[c].plugin = client[c].plugin /\ client'[c].tls = client[c].tls
        /\ \A d \in Conns \ {c} : client'[d] = client[d]
    BY <1>1, <1>2 DEF ClientStates, Steps
  <1>5. /\ net' \in [Conns -> NetStates] /\ net'[c].toServer = net[c].toServer
        /\ \A d \in Conns \ {c} : net'[d] = net[d]
    BY <1>1 DEF DialFails, NetStates
  <1>6. faults' \in 0..MaxFaults
    BY <1>3, ConnectAssumption DEF ConnectInv, TypeOK
  <1>7. Phase(client'[c], server'[c], net'[c]) /\ Count(client'[c], server'[c], net'[c], Len(Todo))
    BY <1>4 DEF Phase, Count
  <1>8. SecretInv => Secret(client'[c], server'[c], net'[c], cfg'.tls)
    BY <1>3, <1>4, <1>5 DEF SecretInv, Secret, Clear
  <1>9. QED
    BY <1>1, <1>3, <1>4, <1>5, <1>6, <1>7, <1>8 DEF Kept

\* The first answer to the server is made.
LEMMA AuthKept ==
    ASSUME ConnectInv, NEW c \in Conns, Auth(c)
    PROVE  Kept(c)
PROOF
  <1>1. client[c] \in ClientStates /\ client \in [Conns -> ClientStates] /\ net \in [Conns -> NetStates]
    BY OneConn
  <1>2. /\ client[c].pc = "auth" /\ net' = net /\ UNCHANGED <<cfg, server, faults>>
        /\ faults' \in 0..MaxFaults
    BY DEF Auth, ConnectInv, TypeOK
  <1> DEFINE p == IF AuthResponse(client[c].plugin) = "none" THEN DefaultPlugin ELSE client[c].plugin
             x == [client[c] EXCEPT !.pc = "respond", !.plugin = p, !.resp = AuthResponse(p)]
  <1>3. /\ AuthResponse(p) = "none" => Fail(c)
        /\ AuthResponse(p) # "none" =>
               client' = [client EXCEPT ![c].pc = "respond", ![c].plugin = p, ![c].resp = AuthResponse(p)]
    BY Zenon DEF Auth
  <1>4. p \in Plugins \cup {DefaultPlugin}
    BY <1>1 DEF ClientStates
  <1> HIDE DEF p
  <1>5. CASE AuthResponse(p) = "none"
    BY <1>1, <1>2, <1>3, <1>5, FailKept
  <1>6. CASE AuthResponse(p) # "none"
    <2>1. /\ AuthResponse(p) \in Passwords /\ (AuthResponse(p) = "askKey" => p = "sha256")
          /\ AuthResponse(p) = "clear" => cfg.tls \/ p = "clear"
      BY <1>6, AuthResponseFacts
    <2> DEFINE r == AuthResponse(p)
    <2> HIDE DEF r
    <2>2. r \in Passwords /\ r # "none"
      BY <1>6, <2>1 DEF r
    <2>3. /\ [client[c] EXCEPT !.pc = "respond", !.plugin = p, !.resp = r] \in ClientStates
          /\ [client[c] EXCEPT !.pc = "respond", !.plugin = p, !.resp = r].pc = "respond"
          /\ [client[c] EXCEPT !.pc = "respond", !.plugin = p, !.resp = r].plugin = p
          /\ [client[c] EXCEPT !.pc = "respond", !.plugin = p, !.resp = r].resp = r
          /\ [client[c] EXCEPT !.pc = "respond", !.plugin = p, !.resp = r].tls = client[c].tls
      BY <1>1, <1>4, <2>2 DEF ClientStates, Steps
    <2>4. /\ x \in ClientStates /\ x.pc = "respond" /\ x.plugin = p /\ x.resp = r /\ x.tls = client[c].tls
      BY <2>3 DEF r
    <2>5. client' = [client EXCEPT ![c] = x]
      BY <1>1, <1>3, <1>6 DEF ClientStates
    <2> HIDE DEF x
    <2>6. Phase(x, server[c], net[c])
      BY <1>2, <2>1, <2>2, <2>4, OneConn DEF Phase, r
    <2>7. Count(x, server[c], net[c], Len(Todo))
      BY <1>2, <2>4, OneConn DEF Count
    <2>8. SecretInv => Secret(x, server[c], net[c], cfg.tls)
      <3>1. ~Clear(net[c])
        BY <1>2, OneConn DEF Phase, Quiet, Clear
      <3>2. QED
        BY <1>2, <2>1, <2>4, <3>1, OneConn DEF Secret, r
    <2>9. QED
      BY <1>1, <1>2, <2>4, <2>5, <2>6, <2>7, <2>8, ClientKept
  <1>7. QED
    BY <1>5, <1>6

\* The answer is sent, or the request for TLS before it.
LEMMA WriteHandshakeResponseKept ==
    ASSUME ConnectInv, NEW c \in Conns, WriteHandshakeResponse(c)
    PROVE  Kept(c)
PROOF
  <1>1. /\ client[c] \in ClientStates /\ client \in [Conns -> ClientStates] /\ net \in [Conns -> NetStates]
        /\ TypeOK
    BY OneConn DEF ConnectInv
  <1>2. /\ client[c].pc = "respond" /\ UNCHANGED <<cfg, server, faults>> /\ faults' \in 0..MaxFaults
    BY DEF WriteHandshakeResponse, ConnectInv, TypeOK
  <1>3. /\ server[c].pc = "response" /\ net[c].toServer = <<>> /\ net[c].toClient = <<>>
        /\ client[c].resp # "none" /\ (client[c].resp = "askKey" => client[c].plugin = "sha256")
        /\ server[c].accepted = 0
        /\ SecretInv => (cfg.tls => server[c].ssl)
        /\ SecretInv => (client[c].resp = "clear" => cfg.tls \/ client[c].plugin = "clear")
        /\ SecretInv => ~client[c].tls
    <2>1. Phase(client[c], server[c], net[c]) /\ Count(client[c], server[c], net[c], Len(Todo))
      BY OneConn
    <2>2. SecretInv => Secret(client[c], server[c], net[c], cfg.tls)
      BY OneConn
    <2>3. QED
      BY <1>2, <2>1, <2>2 DEF Phase, Quiet, Count, Secret
  <1>4. client[c].resp \in Passwords /\ client[c].plugin \in Plugins \cup {DefaultPlugin}
    BY <1>1, <1>3 DEF ClientStates
  <1>5. CASE Fail(c) /\ UNCHANGED net
    BY <1>1, <1>2, <1>5, FailKept
  <1>6. CASE /\ cfg.tls
             /\ client' = [client EXCEPT ![c].pc = "tls"]
             /\ Send(c, [type |-> "ssl"])
    <2> DEFINE x == [client[c] EXCEPT !.pc = "tls"]
               m == [type |-> "ssl"]
    <2>1. /\ x \in ClientStates /\ x.pc = "tls" /\ x.plugin = client[c].plugin
          /\ x.tls = client[c].tls /\ x.resp = client[c].resp
      BY <1>1 DEF ClientStates, Steps
    <2>2. client' = [client EXCEPT ![c] = x]
      BY <1>1, <1>6 DEF ClientStates
    <2>3. m \in ToServer /\ m.type = "ssl"
      BY ClientPackets
    <2> HIDE DEF x, m
    <2>4. /\ net' \in [Conns -> NetStates] /\ \A d \in Conns \ {c} : net'[d] = net[d]
          /\ Len(net'[c].toServer) = 1 /\ net'[c].toServer[1] = m /\ net'[c].toClient = <<>>
      BY <1>1, <1>3, <1>6, <2>3, AnswerFacts DEF m
    <2>5. Phase(x, server[c], net'[c])
      BY <1>3, <2>1, <2>3, <2>4 DEF Phase, ForServer, Lone
    <2>6. Count(x, server[c], net'[c], Len(Todo))
      BY <1>3, <2>1 DEF Count
    <2>7. ~Clear(net'[c])
      BY <2>3, <2>4, OneData
    <2>8. SecretInv => Secret(x, server[c], net'[c], cfg.tls)
      BY <1>3, <1>6, <2>1, <2>7 DEF Secret
    <2>9. QED
      BY <1>2, <2>1, <2>2, <2>4, <2>5, <2>6, <2>8, ClientKept
  <1>7. CASE /\ ~cfg.tls
             /\ client' = [client EXCEPT ![c].pc = "result"]
             /\ Send(c, [type |-> "response", plugin |-> client[c].plugin, data |-> client[c].resp])
    <2> DEFINE x == [client[c] EXCEPT !.pc = "result"]
               m == [type |-> "response", plugin |-> client[c].plugin, data |-> client[c].resp]
    <2>1. /\ x \in ClientStates /\ x.pc = "result" /\ x.plugin = client[c].plugin
          /\ x.tls = client[c].tls /\ x.resp = client[c].resp
      BY <1>1 DEF ClientStates, Steps
    <2>2. client' = [client EXCEPT ![c] = x]
      BY <1>1, <1>7 DEF ClientStates
    <2>3. m \in ToServer /\ m.type = "response" /\ m.plugin = client[c].plugin /\ m.data = client[c].resp
      BY <1>4, ClientPackets
    <2> HIDE DEF x, m
    <2>4. /\ net' \in [Conns -> NetStates] /\ \A d \in Conns \ {c} : net'[d] = net[d]
          /\ Len(net'[c].toServer) = 1 /\ net'[c].toServer[1] = m /\ net'[c].toClient = <<>>
      BY <1>1, <1>3, <1>7, <2>3, AnswerFacts DEF m
    <2>5. Phase(x, server[c], net'[c])
      BY <1>3, <2>1, <2>3, <2>4 DEF Phase, ResultPhase, ForServer, Lone, Offered
    <2>6. Count(x, server[c], net'[c], Len(Todo))
      BY <1>3, <2>1 DEF Count
    <2>7. SecretInv => Secret(x, server[c], net'[c], cfg.tls)
      BY <1>3, <1>7, <2>1, <2>3, <2>4, OneData DEF Secret
    <2>8. QED
      BY <1>2, <2>1, <2>2, <2>4, <2>5, <2>6, <2>7, ClientKept
  <1>8. QED
    BY <1>5, <1>6, <1>7 DEF WriteHandshakeResponse

\* The TLS handshake, and the answer after it.
LEMMA SwitchToTLSKept ==
    ASSUME ConnectInv, NEW c \in Conns, SwitchToTLS(c)
    PROVE  Kept(c)
PROOF
  <1>1. /\ client[c] \in ClientStates /\ client \in [Conns -> ClientStates] /\ net \in [Conns -> NetStates]
        /\ server[c] \in ServerStates /\ server \in [Conns -> ServerStates]
        /\ TypeOK /\ faults \in 0..MaxFaults
    BY OneConn DEF ConnectInv, TypeOK
  <1>2. client[c].pc = "tls" /\ server[c].pc = "tls" /\ cfg' = cfg
    BY DEF SwitchToTLS
  <1>3. /\ net[c].toServer = <<>> /\ net[c].toClient = <<>>
        /\ client[c].resp # "none" /\ (client[c].resp = "askKey" => client[c].plugin = "sha256")
        /\ server[c].accepted = 0
        /\ SecretInv => cfg.tls
        /\ SecretInv => (cfg.tls => server[c].ssl)
    <2>1. Phase(client[c], server[c], net[c]) /\ Count(client[c], server[c], net[c], Len(Todo))
      BY OneConn
    <2>2. SecretInv => Secret(client[c], server[c], net[c], cfg.tls)
      BY OneConn
    <2>3. QED
      BY <1>2, <2>1, <2>2 DEF Phase, Quiet, Count, Secret
  <1>4. client[c].resp \in Passwords /\ client[c].plugin \in Plugins \cup {DefaultPlugin}
    BY <1>1, <1>3 DEF ClientStates
  <1>5. CASE /\ client' = [client EXCEPT ![c].pc = "result", ![c].tls = TRUE]
             /\ server' = [server EXCEPT ![c].pc = "response"]
             /\ Send(c, [type |-> "response", plugin |-> client[c].plugin, data |-> client[c].resp])
             /\ UNCHANGED faults
    <2> DEFINE m == [type |-> "response", plugin |-> client[c].plugin, data |-> client[c].resp]
    <2>1. /\ client' \in [Conns -> ClientStates] /\ \A d \in Conns \ {c} : client'[d] = client[d]
          /\ client'[c].pc = "result" /\ client'[c].plugin = client[c].plugin /\ client'[c].tls
      BY <1>1, <1>5 DEF ClientStates, Steps
    <2>2. /\ server' \in [Conns -> ServerStates] /\ \A d \in Conns \ {c} : server'[d] = server[d]
          /\ server'[c].pc = "response" /\ server'[c].ssl = server[c].ssl /\ server'[c].accepted = 0
      BY <1>1, <1>3, <1>5 DEF ServerStates
    <2>3. m \in ToServer /\ m.type = "response" /\ m.plugin = client[c].plugin /\ m.data = client[c].resp
      BY <1>4, ClientPackets
    <2> HIDE DEF m
    <2>4. /\ net' \in [Conns -> NetStates] /\ \A d \in Conns \ {c} : net'[d] = net[d]
          /\ Len(net'[c].toServer) = 1 /\ net'[c].toServer[1] = m /\ net'[c].toClient = <<>>
      BY <1>1, <1>3, <1>5, <2>3, AnswerFacts DEF m
    <2>5. Phase(client'[c], server'[c], net'[c])
      BY <1>3, <2>1, <2>2, <2>3, <2>4 DEF Phase, ResultPhase, ForServer, Lone, Offered
    <2>6. Count(client'[c], server'[c], net'[c], Len(Todo))
      BY <2>1, <2>2 DEF Count
    <2>7. SecretInv => Secret(client'[c], server'[c], net'[c], cfg'.tls)
      BY <1>2, <1>3, <2>1, <2>2 DEF Secret
    <2>8. faults' \in 0..MaxFaults
      BY <1>1, <1>5
    <2>9. QED
      BY <2>1, <2>2, <2>4, <2>5, <2>6, <2>7, <2>8 DEF Kept
  <1>6. CASE /\ faults < MaxFaults
             /\ Fail(c)
             /\ net' = [net EXCEPT ![c].up = FALSE]
             /\ faults' = faults + 1
             /\ UNCHANGED server
    <2>1. /\ net' \in [Conns -> NetStates] /\ net'[c].toServer = net[c].toServer
          /\ \A d \in Conns \ {c} : net'[d] = net[d]
      BY <1>1, <1>6 DEF NetStates
    <2>2. faults' \in 0..MaxFaults
      BY <1>1, <1>6, ConnectAssumption
    <2>3. QED
      BY <1>2, <1>6, <2>1, <2>2, FailKept
  <1>7. QED
    BY <1>5, <1>6 DEF SwitchToTLS

\* The server has accepted the client, and its packet that says so is read.
LEMMA AuthenticatedKept ==
    ASSUME ConnectInv, NEW c \in Conns, client[c].pc \in {"result", "ok"}, server[c].pc = "command",
           ForClient(net[c], {"ok"}), Authenticated(c), Drop(c), UNCHANGED <<cfg, server, faults>>
    PROVE  Kept(c)
PROOF
  <1>1. /\ client[c] \in ClientStates /\ client \in [Conns -> ClientStates]
        /\ net[c].toClient \in Seq(ToClient) /\ cfg \in ConfigRecords /\ TypeOK
    BY OneConn DEF ConnectInv
  <1>2. server[c].accepted = 0 /\ (SecretInv => (cfg.tls => server[c].ssl))
    <2>1. Count(client[c], server[c], net[c], Len(Todo))
      BY OneConn
    <2>2. SecretInv => Secret(client[c], server[c], net[c], cfg.tls)
      BY OneConn
    <2>3. QED
      BY <2>1, <2>2 DEF Count, Secret
  <1> DEFINE t == Todo
             x == [client[c] EXCEPT !.pc = "command", !.todo = t, !.tries = cfg.charsets]
  <1>3. t \in Seq({"var", "charset", "set"}) /\ Len(t) \in Nat
    BY TodoType
  <1>4. client' = [client EXCEPT ![c] = x]
    BY <1>1 DEF Authenticated, ClientStates
  <1> HIDE DEF t
  <1>5. x \in ClientStates /\ x.pc = "command" /\ x.todo = t
    BY <1>1, <1>3 DEF ClientStates, Steps, ConfigRecords
  <1> HIDE DEF x
  <1>6. net[c].toClient # <<>> /\ Tail(net[c].toClient) = <<>> /\ net[c].toServer = <<>>
    BY <1>1, QueueFacts DEF ForClient, Lone
  <1>7. /\ net' \in [Conns -> NetStates] /\ \A d \in Conns \ {c} : net'[d] = net[d]
        /\ net'[c].toServer = <<>> /\ net'[c].toClient = <<>>
    BY <1>1, <1>6, DropFacts
  <1>8. Phase(x, server[c], net'[c])
    BY <1>5, <1>7 DEF Phase, Quiet
  <1>9. Count(x, server[c], net'[c], Len(t))
    BY <1>2, <1>3, <1>5 DEF Count
  <1>10. SecretInv => Secret(x, server[c], net'[c], cfg.tls)
    <2>1. ~Clear(net'[c])
      BY <1>7 DEF Clear
    <2>2. QED
      BY <1>2, <1>5, <2>1 DEF Secret
  <1>11. QED
    BY <1>4, <1>5, <1>7, <1>8, <1>9, <1>10, ClientKept DEF t

\* The client reads a packet and answers with a password.
LEMMA PasswordKept ==
    ASSUME ConnectInv, NEW c \in Conns, client[c].pc \in {"result", "key"}, server[c].pc = "data",
           net[c].toServer = <<>>, Len(net[c].toClient) = 1, UNCHANGED <<cfg, server, faults>>,
           NEW x \in ClientStates, client' = [client EXCEPT ![c] = x], x.tls = client[c].tls,
           NEW data \in Passwords, Answer(c, [type |-> "data", data |-> data]),
           \/ x.pc = "ok" /\ data \in {"clear", "enc"}
           \/ x.pc = "key" /\ data = "askKey"
           \/ x.pc = "result" /\ server[c].account = x.plugin /\ (data = "askKey" => x.plugin = "sha256"),
           data = "clear" => cfg.tls \/ cfg.unix \/ x.plugin = "clear"
    PROVE  Kept(c)
PROOF
  <1>1. TypeOK /\ net[c].toClient # <<>>
    BY OneConn, QueueFacts DEF ConnectInv
  <1>2. /\ server[c].accepted = 0 /\ (SecretInv => (cfg.tls => server[c].ssl))
        /\ SecretInv => (client[c].tls <=> cfg.tls)
    <2>1. Count(client[c], server[c], net[c], Len(Todo))
      BY OneConn
    <2>2. SecretInv => Secret(client[c], server[c], net[c], cfg.tls)
      BY OneConn
    <2>3. QED
      BY <2>1, <2>2 DEF Count, Secret
  <1> DEFINE m == [type |-> "data", data |-> data]
  <1>3. m \in ToServer /\ m.type = "data" /\ m.data = data
    BY ClientPackets
  <1>4. Answer(c, m)
    OBVIOUS
  <1> HIDE DEF m
  <1>5. /\ net' \in [Conns -> NetStates] /\ \A d \in Conns \ {c} : net'[d] = net[d]
        /\ Len(net'[c].toServer) = 1 /\ net'[c].toServer[1] = m /\ net'[c].toClient = <<>>
    BY <1>1, <1>3, <1>4, AnswerFacts
  <1>6. Phase(x, server[c], net'[c])
    BY <1>3, <1>5 DEF Phase, ResultPhase, ForServer, Lone, Offered
  <1>7. Count(x, server[c], net'[c], Len(Todo))
    BY <1>2 DEF Count
  <1>8. SecretInv => Secret(x, server[c], net'[c], cfg.tls)
    <2>1. Clear(net'[c]) => data = "clear"
      BY <1>3, <1>5, OneData
    <2>2. QED
      BY <1>2, <2>1 DEF Secret, SecretInv
  <1>9. QED
    BY <1>5, <1>6, <1>7, <1>8, ClientKept

\* What the client may find while it waits for the result.
LEMMA ResultPackets ==
    ASSUME ConnectInv, NEW c \in Conns, Receives(c, "result")
    PROVE  /\ net[c].toClient # <<>> /\ Packet(c) = net[c].toClient[1] /\ Packet(c) \in ToClient
           /\ Packet(c).type = "ok" => server[c].pc = "command" /\ ForClient(net[c], {"ok"})
           /\ Packet(c).type = "switch" => /\ server[c].pc = "data" /\ ForClient(net[c], {"switch"})
                                           /\ server[c].account = Packet(c).plugin
           /\ Packet(c).type = "full" => /\ server[c].pc = "data" /\ ForClient(net[c], {"full"})
                                         /\ client[c].plugin = "sha2"
           /\ Packet(c).type = "key" => /\ server[c].pc = "data" /\ ForClient(net[c], {"key"})
                                        /\ client[c].plugin = "sha256"
           /\ Packet(c).type = "fast" => /\ server[c].pc = "command" /\ net[c].toServer = <<>>
                                         /\ Len(net[c].toClient) = 2 /\ net[c].toClient[2].type = "ok"
                                         /\ client[c].plugin = "sha2"
PROOF
  <1>1. net[c].toClient # <<>> /\ client[c].pc = "result"
    BY DEF Receives
  <1>2. Packet(c) = net[c].toClient[1] /\ Packet(c) \in ToClient
    BY <1>1, OneConn, QueueFacts DEF Packet
  <1>3. ResultPhase(client[c], server[c], net[c])
    BY <1>1, OneConn DEF Phase
  <1>4. \/ (server[c].pc = "data" /\ ForClient(net[c], {"switch"}) /\ server[c].account = net[c].toClient[1].plugin)
        \/ (server[c].pc = "data" /\ ForClient(net[c], {"full"}) /\ client[c].plugin = "sha2")
        \/ (server[c].pc = "data" /\ ForClient(net[c], {"key"}) /\ client[c].plugin = "sha256")
        \/ (/\ server[c].pc = "command" /\ net[c].toServer = <<>> /\ Len(net[c].toClient) = 2
            /\ net[c].toClient[1].type = "fast" /\ net[c].toClient[2].type = "ok" /\ client[c].plugin = "sha2")
        \/ (server[c].pc = "command" /\ ForClient(net[c], {"ok"}))
        \/ (server[c].pc = "closed" /\ ForClient(net[c], {"err"}))
    BY <1>1, <1>3 DEF ResultPhase, ForServer
  <1>5. \A types : ForClient(net[c], types) => net[c].toClient[1].type \in types
    BY DEF ForClient, Lone
  <1>6. QED
    BY <1>1, <1>2, <1>4, <1>5

\* handleAuthResult, whichever packet arrives.
LEMMA HandleAuthResultKept ==
    ASSUME ConnectInv, NEW c \in Conns, HandleAuthResult(c)
    PROVE  Kept(c)
PROOF
  <1>1. client[c] \in ClientStates /\ client \in [Conns -> ClientStates]
    BY OneConn
  <1>2. /\ client[c].pc = "result" /\ Receives(c, "result")
        /\ UNCHANGED <<cfg, server, faults>> /\ net[c].toClient # <<>>
        /\ Packet(c) = net[c].toClient[1] /\ Packet(c) \in ToClient
    BY ResultPackets DEF HandleAuthResult, Receives
  <1> DEFINE m == Packet(c)
  <1>3. CASE m.type = "ok" /\ Authenticated(c) /\ Drop(c)
    BY <1>2, <1>3, ResultPackets, AuthenticatedKept
  <1>4. CASE Fail(c) /\ Drop(c)
    BY <1>2, <1>4, DropFailKept
  <1>5. CASE m.type = "switch" /\ AuthSwitch(c, m)
    <2>1. server[c].pc = "data" /\ ForClient(net[c], {"switch"}) /\ server[c].account = m.plugin
      BY <1>2, <1>5, ResultPackets
    <2>2. m.plugin \in Plugins
      BY <1>2, <1>5, PacketFields
    <2> DEFINE p == m.plugin
               r == AuthResponse(p)
               x == [client[c] EXCEPT !.switched = TRUE, !.plugin = p]
    <2>3. \/ Fail(c) /\ Drop(c)
          \/ /\ client' = [client EXCEPT ![c].switched = TRUE, ![c].plugin = p]
             /\ Answer(c, [type |-> "data", data |-> r]) /\ r # "none"
      BY <1>5, Zenon DEF AuthSwitch
    <2> HIDE DEF p
    <2>4. /\ r # "none" => r \in Passwords
          /\ r = "askKey" => p = "sha256"
          /\ r = "clear" => cfg.tls \/ p = "clear"
      BY AuthResponseFacts
    <2> HIDE DEF r
    <2>5. p \in Plugins \cup {DefaultPlugin} /\ server[c].account = p
      BY <2>1, <2>2 DEF p
    <2>6. CASE /\ client' = [client EXCEPT ![c].switched = TRUE, ![c].plugin = p]
               /\ Answer(c, [type |-> "data", data |-> r]) /\ r # "none"
      <3>1. x \in ClientStates /\ x.pc = "result" /\ x.plugin = p /\ x.tls = client[c].tls
        BY <1>1, <1>2, <2>5 DEF ClientStates
      <3>2. client' = [client EXCEPT ![c] = x]
        BY <1>1, <2>6 DEF ClientStates
      <3> HIDE DEF x
      <3>3. net[c].toServer = <<>> /\ Len(net[c].toClient) = 1
        BY <2>1 DEF ForClient, Lone
      <3>4. QED
        BY <1>2, <2>1, <2>4, <2>5, <2>6, <3>1, <3>2, <3>3, PasswordKept
    <2>7. QED
      BY <1>4, <2>3, <2>6
  <1>6. CASE m.type \in {"fast", "full", "key"} /\ AuthMore(c, m)
    <2>1. /\ m.type = "fast" \/ m.type = "full" => client[c].plugin = "sha2"
          /\ m.type = "key" => client[c].plugin = "sha256"
      BY <1>2, ResultPackets
    <2>2. \/ m.type = "fast" /\ client' = [client EXCEPT ![c].pc = "ok"] /\ Drop(c)
          \/ /\ m.type = "full"
             /\ client' = [client EXCEPT ![c].pc = IF FullAuthentication = "askKey" THEN "key" ELSE "ok"]
             /\ Answer(c, [type |-> "data", data |-> FullAuthentication])
          \/ /\ m.type = "key" /\ client' = [client EXCEPT ![c].pc = "ok"]
             /\ Answer(c, [type |-> "data", data |-> "enc"])
          \/ Fail(c) /\ Drop(c)
      <3>1. client[c].plugin \in {"sha2", "sha256"}
        BY <1>6, <2>1
      <3>2. QED
        BY <1>6, <3>1, Zenon DEF AuthMore
    <2>3. CASE m.type = "fast" /\ client' = [client EXCEPT ![c].pc = "ok"] /\ Drop(c)
      <3>1. /\ server[c].pc = "command" /\ net[c].toServer = <<>>
            /\ Len(net[c].toClient) = 2 /\ net[c].toClient[2].type = "ok"
        BY <1>2, <2>3, ResultPackets
      <3> DEFINE x == [client[c] EXCEPT !.pc = "ok"]
      <3>2. /\ x \in ClientStates /\ x.pc = "ok" /\ x.plugin = client[c].plugin /\ x.tls = client[c].tls
        BY <1>1 DEF ClientStates, Steps
      <3>3. client' = [client EXCEPT ![c] = x]
        BY <1>1, <2>3 DEF ClientStates
      <3> HIDE DEF x
      <3>4. /\ net' \in [Conns -> NetStates] /\ \A d \in Conns \ {c} : net'[d] = net[d]
            /\ net'[c].toServer = <<>> /\ net'[c].toClient = Tail(net[c].toClient)
        BY <1>2, <2>3, <3>1, DropFacts DEF ConnectInv
      <3>5. Len(Tail(net[c].toClient)) = 1 /\ Tail(net[c].toClient)[1] = net[c].toClient[2]
        <4>1. net[c].toClient \in Seq(ToClient)
          BY OneConn
        <4>2. QED
          BY <1>2, <3>1, <4>1
      <3>6. Phase(x, server[c], net'[c])
        BY <3>1, <3>2, <3>4, <3>5 DEF Phase, ForClient, Lone
      <3>7. Count(x, server[c], net'[c], Len(Todo))
        BY <1>2, <3>2, OneConn DEF Count
      <3>8. SecretInv => Secret(x, server[c], net'[c], cfg.tls)
        <4>1. ~Clear(net'[c])
          BY <3>4 DEF Clear
        <4>2. QED
          BY <1>2, <3>2, <4>1, OneConn DEF Secret
      <3>9. QED
        BY <1>2, <3>2, <3>3, <3>4, <3>6, <3>7, <3>8, ClientKept
    <2>4. CASE /\ m.type = "full"
               /\ client' = [client EXCEPT ![c].pc = IF FullAuthentication = "askKey" THEN "key" ELSE "ok"]
               /\ Answer(c, [type |-> "data", data |-> FullAuthentication])
      <3>1. server[c].pc = "data" /\ ForClient(net[c], {"full"})
        BY <1>2, <2>4, ResultPackets
      <3>2. net[c].toServer = <<>> /\ Len(net[c].toClient) = 1
        BY <3>1 DEF ForClient, Lone
      <3> DEFINE pc == IF FullAuthentication = "askKey" THEN "key" ELSE "ok"
                 x == [client[c] EXCEPT !.pc = pc]
                 r == FullAuthentication
      <3>3. /\ \/ pc = "ok" /\ r \in {"clear", "enc"}
               \/ pc = "key" /\ r = "askKey"
            /\ r = "clear" => cfg.tls \/ cfg.unix
            /\ r \in Passwords
        BY DEF FullAuthentication, Passwords
      <3>4. client' = [client EXCEPT ![c] = x]
        BY <1>1, <2>4 DEF ClientStates
      <3>5. Answer(c, [type |-> "data", data |-> r])
        BY <2>4
      <3> HIDE DEF pc, r
      <3>6. x \in ClientStates /\ x.pc = pc /\ x.tls = client[c].tls
        BY <1>1, <3>3 DEF ClientStates, Steps
      <3> HIDE DEF x
      <3>7. \/ x.pc = "ok" /\ r \in {"clear", "enc"}
            \/ x.pc = "key" /\ r = "askKey"
        BY <3>3, <3>6
      <3>8. QED
        BY <1>2, <3>1, <3>2, <3>3, <3>4, <3>5, <3>6, <3>7, PasswordKept
    <2>5. CASE /\ m.type = "key" /\ client' = [client EXCEPT ![c].pc = "ok"]
               /\ Answer(c, [type |-> "data", data |-> "enc"])
      <3>1. server[c].pc = "data" /\ ForClient(net[c], {"key"})
        BY <1>2, <2>5, ResultPackets
      <3>2. net[c].toServer = <<>> /\ Len(net[c].toClient) = 1
        BY <3>1 DEF ForClient, Lone
      <3> DEFINE x == [client[c] EXCEPT !.pc = "ok"]
      <3>3. x \in ClientStates /\ x.pc = "ok" /\ x.tls = client[c].tls
        BY <1>1 DEF ClientStates, Steps
      <3>4. client' = [client EXCEPT ![c] = x]
        BY <1>1, <2>5 DEF ClientStates
      <3> HIDE DEF x
      <3>5. "enc" \in Passwords
        BY DEF Passwords
      <3>6. QED
        BY <1>2, <2>5, <3>1, <3>2, <3>3, <3>4, <3>5, PasswordKept
    <2>6. QED
      BY <1>4, <2>2, <2>3, <2>4, <2>5
  <1>7. QED
    BY <1>3, <1>4, <1>5, <1>6, Zenon DEF HandleAuthResult

\* The public key arrives, or something else.
LEMMA ReadPublicKeyKept ==
    ASSUME ConnectInv, NEW c \in Conns, ReadPublicKey(c)
    PROVE  Kept(c)
PROOF
  <1>1. /\ client[c] \in ClientStates /\ client \in [Conns -> ClientStates]
        /\ net[c].toClient # <<>> /\ client[c].pc = "key" /\ UNCHANGED <<cfg, server, faults>>
    BY OneConn DEF ReadPublicKey, Receives
  <1>2. CASE Fail(c) /\ Drop(c)
    BY <1>1, <1>2, DropFailKept
  <1>3. CASE client' = [client EXCEPT ![c].pc = "ok"] /\ Answer(c, [type |-> "data", data |-> "enc"])
    <2>1. server[c].pc = "data" /\ net[c].toServer = <<>> /\ Len(net[c].toClient) = 1
      BY <1>1, OneConn DEF Phase, ForServer, ForClient, Lone
    <2> DEFINE x == [client[c] EXCEPT !.pc = "ok"]
    <2>2. x \in ClientStates /\ x.pc = "ok" /\ x.tls = client[c].tls
      BY <1>1 DEF ClientStates, Steps
    <2>3. client' = [client EXCEPT ![c] = x]
      BY <1>1, <1>3 DEF ClientStates
    <2> HIDE DEF x
    <2>4. "enc" \in Passwords
      BY DEF Passwords
    <2>5. QED
      BY <1>1, <1>3, <2>1, <2>2, <2>3, <2>4, PasswordKept
  <1>4. QED
    BY <1>2, <1>3 DEF ReadPublicKey

\* The result of a full or of a fast authentication.
LEMMA ReadResultOKKept ==
    ASSUME ConnectInv, NEW c \in Conns, ReadResultOK(c)
    PROVE  Kept(c)
PROOF
  <1>1. /\ net[c].toClient # <<>> /\ client[c].pc = "ok" /\ UNCHANGED <<cfg, server, faults>> /\ Drop(c)
    BY DEF ReadResultOK, Receives
  <1>2. CASE Fail(c)
    BY <1>1, <1>2, DropFailKept
  <1>3. CASE Packet(c).type = "ok" /\ Authenticated(c)
    <2>1. Packet(c) = net[c].toClient[1]
      BY <1>1, OneConn, QueueFacts DEF Packet
    <2>2. server[c].pc = "command" /\ ForClient(net[c], {"ok"})
      BY <1>1, <1>3, <2>1, OneConn DEF Phase, ForServer, ForClient, Lone
    <2>3. QED
      BY <1>1, <1>3, <2>2, AuthenticatedKept
  <1>4. QED
    BY <1>2, <1>3 DEF ReadResultOK

\* The next command is sent, or Connect returns the connection.
LEMMA SendCommandKept ==
    ASSUME ConnectInv, NEW c \in Conns, SendCommand(c)
    PROVE  Kept(c)
PROOF
  <1>1. /\ client[c] \in ClientStates /\ client \in [Conns -> ClientStates] /\ net \in [Conns -> NetStates]
        /\ TypeOK /\ server[c] \in ServerStates
    BY OneConn DEF ConnectInv
  <1>2. client[c].pc = "command" /\ UNCHANGED <<cfg, server, faults>>
    BY DEF SendCommand
  <1>3. /\ server[c].pc = "command" /\ net[c].toServer = <<>> /\ net[c].toClient = <<>>
        /\ server[c].accepted + Len(client[c].todo) = Len(Todo)
        /\ SecretInv => (cfg.tls => server[c].ssl)
    <2>1. Phase(client[c], server[c], net[c]) /\ Count(client[c], server[c], net[c], Len(Todo))
      BY OneConn
    <2>2. SecretInv => Secret(client[c], server[c], net[c], cfg.tls)
      BY OneConn
    <2>3. Len(Todo) \in Nat
      BY TodoType
    <2>4. QED
      BY <1>2, <2>1, <2>2, <2>3 DEF Phase, Quiet, Count, Secret
  <1>4. server[c].accepted \in Nat /\ Len(client[c].todo) \in Nat /\ Len(Todo) \in Nat
    BY <1>1, TodoType DEF ServerStates, ClientStates
  <1>5. CASE client[c].todo = <<>> /\ client' = [client EXCEPT ![c].pc = "up"] /\ UNCHANGED net
    <2> DEFINE x == [client[c] EXCEPT !.pc = "up"]
    <2>1. x \in ClientStates /\ x.pc = "up"
      BY <1>1 DEF ClientStates, Steps
    <2>2. client' = [client EXCEPT ![c] = x]
      BY <1>1, <1>5 DEF ClientStates
    <2> HIDE DEF x
    <2>3. server[c].accepted = Len(Todo)
      <3>1. Len(client[c].todo) = 0
        BY <1>5
      <3>2. QED
        BY <1>3, <1>4, <3>1
    <2>4. Phase(x, server[c], net[c])
      BY <1>3, <2>1 DEF Phase, Quiet
    <2>5. Count(x, server[c], net[c], Len(Todo))
      BY <2>1, <2>3 DEF Count
    <2>6. SecretInv => Secret(x, server[c], net[c], cfg.tls)
      <3>1. ~Clear(net[c])
        BY <1>3 DEF Clear
      <3>2. QED
        BY <1>3, <2>1, <3>1 DEF Secret
    <2>7. QED
      BY <1>1, <1>2, <1>5, <2>1, <2>2, <2>4, <2>5, <2>6, ClientKept
  <1>6. CASE /\ client[c].todo # <<>> /\ client' = [client EXCEPT ![c].pc = "reply"]
             /\ Send(c, [type |-> "query"])
    <2> DEFINE x == [client[c] EXCEPT !.pc = "reply"]
               m == [type |-> "query"]
    <2>1. x \in ClientStates /\ x.pc = "reply" /\ x.todo = client[c].todo
      BY <1>1 DEF ClientStates, Steps
    <2>2. client' = [client EXCEPT ![c] = x]
      BY <1>1, <1>6 DEF ClientStates
    <2>3. m \in ToServer /\ m.type = "query"
      BY ClientPackets
    <2> HIDE DEF x, m
    <2>4. /\ net' \in [Conns -> NetStates] /\ \A d \in Conns \ {c} : net'[d] = net[d]
          /\ Len(net'[c].toServer) = 1 /\ net'[c].toServer[1] = m /\ net'[c].toClient = <<>>
      BY <1>1, <1>3, <1>6, <2>3, AnswerFacts DEF m
    <2>5. Phase(x, server[c], net'[c])
      BY <1>3, <1>6, <2>1, <2>3, <2>4 DEF Phase, ForServer, Lone
    <2>6. Count(x, server[c], net'[c], Len(Todo))
      <3>1. ~ForClient(net'[c], {"ok"})
        BY <2>4 DEF ForClient, Lone
      <3>2. server[c].accepted + Len(x.todo) = Len(Todo) + 0
        BY <1>3, <1>4, <2>1
      <3>3. QED
        BY <2>1, <3>1, <3>2 DEF Count
    <2>7. SecretInv => Secret(x, server[c], net'[c], cfg.tls)
      <3>1. ~Clear(net'[c])
        BY <2>3, <2>4, OneData
      <3>2. QED
        BY <1>3, <2>1, <3>1 DEF Secret
    <2>8. QED
      BY <1>2, <2>1, <2>2, <2>4, <2>5, <2>6, <2>7, ClientKept
  <1>7. QED
    BY <1>5, <1>6 DEF SendCommand

\* The answer to a command: the next one follows, or the next charset.
LEMMA ReadReplyKept ==
    ASSUME ConnectInv, NEW c \in Conns, ReadReply(c)
    PROVE  Kept(c)
PROOF
  <1>1. /\ client[c] \in ClientStates /\ client \in [Conns -> ClientStates]
        /\ TypeOK /\ server[c] \in ServerStates /\ net[c].toClient \in Seq(ToClient)
    BY OneConn DEF ConnectInv
  <1>2. /\ client[c].pc = "reply" /\ UNCHANGED <<cfg, server, faults>> /\ net[c].toClient # <<>>
        /\ Drop(c)
    BY DEF ReadReply, Receives
  <1>3. Packet(c) = net[c].toClient[1]
    BY <1>1, <1>2, QueueFacts DEF Packet
  <1>4. /\ server[c].pc = "command" /\ ForClient(net[c], {"ok", "err"}) /\ client[c].todo # <<>>
        /\ SecretInv => (cfg.tls => server[c].ssl)
    <2>1. Phase(client[c], server[c], net[c])
      BY OneConn
    <2>2. SecretInv => Secret(client[c], server[c], net[c], cfg.tls)
      BY OneConn
    <2>3. QED
      BY <1>2, <2>1, <2>2 DEF Phase, ForServer, Secret
  <1>5. /\ server[c].accepted \in Nat /\ Len(client[c].todo) \in Nat /\ Len(Todo) \in Nat
        /\ client[c].todo \in Seq({"var", "charset", "set"}) /\ client[c].tries \in Nat
    BY <1>1, TodoType DEF ServerStates, ClientStates
  <1>6. server[c].accepted + Len(client[c].todo)
            = Len(Todo) + (IF Packet(c).type = "ok" THEN 1 ELSE 0)
    <2>1. ForClient(net[c], {"ok"}) <=> Packet(c).type = "ok"
      BY <1>3, <1>4 DEF ForClient, Lone
    <2>2. server[c].accepted + Len(client[c].todo)
              = Len(Todo) + (IF ForClient(net[c], {"ok"}) THEN 1 ELSE 0)
      BY <1>2, OneConn DEF Count
    <2>3. QED
      BY <2>1, <2>2
  <1>7. /\ net' \in [Conns -> NetStates] /\ \A d \in Conns \ {c} : net'[d] = net[d]
        /\ net'[c].toServer = <<>> /\ net'[c].toClient = <<>>
    <2>1. net[c].toServer = <<>> /\ Tail(net[c].toClient) = <<>>
      BY <1>1, <1>4, QueueFacts DEF ForClient, Lone
    <2>2. QED
      BY <1>1, <1>2, <2>1, DropFacts
  \* The client goes on with what there is to do.
  <1>8. ASSUME NEW x \in ClientStates, client' = [client EXCEPT ![c] = x], x.pc = "command",
               server[c].accepted + Len(x.todo) = Len(Todo)
        PROVE  Kept(c)
    <2>1. Phase(x, server[c], net'[c])
      BY <1>4, <1>7, <1>8 DEF Phase, Quiet
    <2>2. Count(x, server[c], net'[c], Len(Todo))
      <3>1. Len(Todo) + 0 = Len(Todo)
        BY <1>5
      <3>2. QED
        BY <1>8, <3>1 DEF Count
    <2>3. SecretInv => Secret(x, server[c], net'[c], cfg.tls)
      <3>1. ~Clear(net'[c])
        BY <1>7 DEF Clear
      <3>2. QED
        BY <1>4, <1>8, <3>1 DEF Secret
    <2>4. QED
      BY <1>2, <1>7, <1>8, <2>1, <2>2, <2>3, ClientKept
  <1>9. CASE /\ Packet(c).type = "ok"
             /\ client' = [client EXCEPT ![c].pc = "command", ![c].todo = Tail(@)]
    <2> DEFINE t == Tail(client[c].todo)
               x == [client[c] EXCEPT !.pc = "command", !.todo = t]
    <2>1. t \in Seq({"var", "charset", "set"}) /\ Len(t) = Len(client[c].todo) - 1
      BY <1>4, <1>5
    <2>2. client' = [client EXCEPT ![c] = x]
      BY <1>1, <1>9 DEF ClientStates
    <2> HIDE DEF t
    <2>3. x \in ClientStates /\ x.pc = "command" /\ x.todo = t
      BY <1>1, <2>1 DEF ClientStates, Steps
    <2> HIDE DEF x
    <2>4. server[c].accepted + Len(t) = Len(Todo)
      <3>1. server[c].accepted + Len(client[c].todo) = Len(Todo) + 1
        BY <1>6, <1>9
      <3>2. \A a, b, k, l \in Nat : a + b = l + 1 /\ k = b - 1 => a + k = l
        OBVIOUS
      <3>3. Len(t) \in Nat
        BY <2>1
      <3>4. QED
        BY <1>5, <2>1, <3>1, <3>2, <3>3
    <2>5. QED
      BY <1>8, <2>2, <2>3, <2>4
  <1>10. CASE Packet(c).type # "ok" /\ ReplyError(c)
    <2>1. CASE Fail(c)
      BY <1>2, <2>1, DropFailKept
    <2>2. CASE /\ client[c].tries > 1
               /\ client' = [client EXCEPT ![c].pc = "command", ![c].tries = @ - 1]
      <3> DEFINE k == client[c].tries - 1
                 x == [client[c] EXCEPT !.pc = "command", !.tries = k]
      <3>1. k \in Nat
        BY <1>5, <2>2
      <3>2. client' = [client EXCEPT ![c] = x]
        BY <1>1, <2>2 DEF ClientStates
      <3> HIDE DEF k
      <3>3. x \in ClientStates /\ x.pc = "command" /\ x.todo = client[c].todo
        BY <1>1, <3>1 DEF ClientStates, Steps
      <3> HIDE DEF x
      <3>4. server[c].accepted + Len(client[c].todo) = Len(Todo)
        BY <1>5, <1>6, <1>10
      <3>5. QED
        BY <1>8, <3>2, <3>3, <3>4
    <2>3. QED
      BY <1>10, <2>1, <2>2 DEF ReplyError
  <1>11. QED
    BY <1>9, <1>10 DEF ReadReply

\* A connection that is broken, for the client and for the network.
LEMMA BreakKept ==
    ASSUME ConnectInv, NEW c \in Conns, NetError(c) \/ Break(c)
    PROVE  Kept(c)
PROOF
  <1>1. /\ net \in [Conns -> NetStates] /\ net[c] \in NetStates /\ client \in [Conns -> ClientStates]
        /\ server \in [Conns -> ServerStates] /\ faults \in 0..MaxFaults
    BY OneConn DEF ConnectInv, TypeOK
  <1>2. CASE NetError(c)
    <2>1. Fail(c) /\ cfg' = cfg /\ server' = server /\ net' = net /\ faults' = faults
      BY <1>2 DEF NetError
    <2>2. QED
      BY <1>1, <2>1, FailKept
  <1>3. CASE Break(c)
    <2>1. /\ cfg' = cfg /\ server' = server /\ client' = client
          /\ faults' = faults + 1 /\ faults < MaxFaults
      BY <1>3 DEF Break
    <2>2. /\ net' \in [Conns -> NetStates] /\ \A d \in Conns \ {c} : net'[d] = net[d]
          /\ net'[c].toServer = net[c].toServer /\ net'[c].toClient = net[c].toClient
      BY <1>1, <1>3 DEF Break, NetStates
    <2>3. faults' \in 0..MaxFaults
      BY <1>1, <2>1, ConnectAssumption
    <2>4. Phase(client[c], server[c], net'[c])
      BY <2>2, OneConn DEF Phase, ResultPhase, Quiet, ForServer, ForClient, Offered
    <2>5. Count(client[c], server[c], net'[c], Len(Todo))
      BY <2>2, OneConn DEF Count, ForClient
    <2>6. SecretInv => Secret(client[c], server[c], net'[c], cfg.tls)
      BY <2>2, OneConn DEF Secret, Clear
    <2>7. QED
      BY <1>1, <2>1, <2>2, <2>3, <2>4, <2>5, <2>6 DEF Kept
  <1>4. QED
    BY <1>2, <1>3

-----------------------------------------------------------------------------
(***************************************************************************)
(* The steps of the server.                                                *)
(***************************************************************************)

\* The server's state when it goes on.
LEMMA ServerAt ==
    ASSUME NEW s \in ServerStates, NEW pc \in {"greet", "response", "tls", "data", "command", "closed"},
           NEW a \in Plugins \cup {DefaultPlugin}
    PROVE  /\ [s EXCEPT !.pc = pc] \in ServerStates /\ [s EXCEPT !.pc = pc].pc = pc
           /\ [s EXCEPT !.pc = pc].ssl = s.ssl /\ [s EXCEPT !.pc = pc].accepted = s.accepted
           /\ [[s EXCEPT !.pc = pc] EXCEPT !.account = a] \in ServerStates
           /\ [[s EXCEPT !.pc = pc] EXCEPT !.account = a].pc = pc
           /\ [[s EXCEPT !.pc = pc] EXCEPT !.account = a].ssl = s.ssl
           /\ [[s EXCEPT !.pc = pc] EXCEPT !.account = a].account = a
           /\ [[s EXCEPT !.pc = pc] EXCEPT !.account = a].accepted = s.accepted
PROOF
  BY DEF ServerStates

\* A single packet.
LEMMA OnePacket ==
    ASSUME NEW m \in ToClient
    PROVE  <<m>> \in Seq(ToClient) /\ Len(<<m>>) = 1 /\ <<m>>[1] = m
PROOF
  OBVIOUS

\* The greeting, or an error in its place.
LEMMA GreetKept ==
    ASSUME ConnectInv, NEW c \in Conns, Greet(c)
    PROVE  Kept(c)
PROOF
  <1>1. server[c] \in ServerStates /\ server[c].pc = "greet" /\ UNCHANGED <<cfg, client, faults>>
    BY OneConn DEF Greet
  <1>2. server[c].ssl \in BOOLEAN /\ server[c].account \in Plugins \cup {DefaultPlugin}
    BY <1>1 DEF ServerStates
  \* The client is still there, or has failed.
  <1>3. client[c].pc # "failed" => client[c].pc \in {"new", "greet"} /\ Quiet(net[c])
    <2>1. client[c].pc \in Steps /\ Phase(client[c], server[c], net[c])
      BY OneConn DEF ClientStates
    <2>2. QED
      BY <1>1, <2>1 DEF Phase, ResultPhase, Steps, ForClient, Lone
  <1>4. client[c].pc # "failed" =>
            /\ client[c].pc = "greet" /\ net[c].toServer = <<>> /\ net[c].toClient = <<>>
            /\ server[c].accepted = 0
    <2>1. client[c].sock = "open"
      BY DEF Greet
    <2>2. QED
      BY <1>3, <2>1, OneConn DEF Phase, Quiet, Count
  <1>5. CASE \E plugin \in Plugins \cup {""} :
                 Reply(c, <<[type |-> "greet", plugin |-> plugin, ssl |-> server[c].ssl]>>, At(c, "response"))
    <2>1. PICK plugin \in Plugins \cup {""} :
                 Reply(c, <<[type |-> "greet", plugin |-> plugin, ssl |-> server[c].ssl]>>, At(c, "response"))
      BY <1>5
    <2> DEFINE m == [type |-> "greet", plugin |-> plugin, ssl |-> server[c].ssl]
    <2>2. m \in ToClient /\ m.type = "greet" /\ m.ssl = server[c].ssl
      BY <1>2, ServerPackets
    <2>3. /\ At(c, "response") \in ServerStates /\ At(c, "response").pc = "response"
          /\ At(c, "response").ssl = server[c].ssl /\ At(c, "response").accepted = server[c].accepted
      BY <1>1, <1>2, ServerAt, ZenonT(60) DEF At
    <2> HIDE DEF m
    <2>4. Reply(c, <<m>>, At(c, "response"))
      BY <2>1 DEF m
    <2>5. ASSUME client[c].pc # "failed", NEW n \in NetStates, n.toServer = <<>>, n.toClient = <<m>>
          PROVE  Phase(client[c], At(c, "response"), n) /\ Count(client[c], At(c, "response"), n, Len(Todo))
      <3>1. Lone(n.toClient, {"greet"}) /\ n.toClient[1] = m
        BY <2>2, <2>5, OnePacket DEF Lone
      <3>2. n.toClient[1].ssl <=> At(c, "response").ssl
        BY <2>2, <2>3, <3>1
      <3>3. QED
        BY <1>4, <2>3, <2>5, <3>1, <3>2 DEF Phase, ForClient, Count
    <2>6. QED
      BY <1>1, <1>4, <2>2, <2>3, <2>4, <2>5, OnePacket, ReplyKept
  <1>6. CASE Reply(c, <<[type |-> "err"]>>, At(c, "closed"))
    <2> DEFINE m == [type |-> "err"]
    <2>1. m \in ToClient /\ m.type = "err"
      BY ServerPackets
    <2>2. /\ At(c, "closed") \in ServerStates /\ At(c, "closed").pc = "closed"
          /\ At(c, "closed").ssl = server[c].ssl /\ At(c, "closed").accepted = server[c].accepted
      BY <1>1, <1>2, ServerAt DEF At
    <2> HIDE DEF m
    <2>3. Reply(c, <<m>>, At(c, "closed"))
      BY <1>6 DEF m
    <2>4. ASSUME client[c].pc # "failed", NEW n \in NetStates, n.toServer = <<>>, n.toClient = <<m>>
          PROVE  Phase(client[c], At(c, "closed"), n) /\ Count(client[c], At(c, "closed"), n, Len(Todo))
      <3>1. Lone(n.toClient, {"err"})
        BY <2>1, <2>4, OnePacket DEF Lone
      <3>2. QED
        BY <1>4, <2>2, <2>4, <3>1 DEF Phase, ForClient, Count
    <2>5. QED
      BY <1>1, <1>4, <2>1, <2>2, <2>3, <2>4, OnePacket, ReplyKept
  <1>7. QED
    BY <1>5, <1>6 DEF Greet

\* One packet in answer to one packet.
LEMMA OneReplyKept ==
    ASSUME ConnectInv, NEW c \in Conns, NEW m \in ToClient, NEW state \in ServerStates,
           Reply(c, <<m>>, state), UNCHANGED <<cfg, client, faults>>, state.ssl = server[c].ssl,
           client[c].pc # "failed" => net[c].toClient = <<>> /\ Len(net[c].toServer) = 1,
           client[c].pc # "failed" => \A n \in NetStates :
               n.toServer = <<>> /\ n.toClient = <<m>> /\ ForClient(n, {m.type}) /\ n.toClient[1] = m =>
                   Phase(client[c], state, n) /\ Count(client[c], state, n, Len(Todo))
    PROVE  Kept(c)
PROOF
  <1>1. <<m>> \in Seq(ToClient) /\ Len(<<m>>) = 1 /\ <<m>>[1] = m
    BY OnePacket
  <1>2. ASSUME NEW n \in NetStates, n.toServer = <<>>, n.toClient = <<m>>
        PROVE  ForClient(n, {m.type}) /\ n.toClient[1] = m
    BY <1>1, <1>2 DEF ForClient, Lone
  <1>3. client[c].pc # "failed" => \A n \in NetStates :
            n.toServer = <<>> /\ n.toClient = <<m>> =>
                Phase(client[c], state, n) /\ Count(client[c], state, n, Len(Todo))
    BY <1>2
  <1>4. QED
    BY <1>1, <1>3, ReplyKept

\* The server judges a password that the client has sent.
LEMMA JudgeKept ==
    ASSUME ConnectInv, NEW c \in Conns, NEW account \in Plugins \cup {DefaultPlugin},
           NEW data \in Passwords, Judge(c, account, data), UNCHANGED <<cfg, client, faults>>,
           client[c].pc # "failed" =>
               /\ net[c].toClient = <<>> /\ Len(net[c].toServer) = 1 /\ server[c].accepted = 0
               /\ \/ /\ client[c].pc = "result" /\ account = client[c].plugin
                     /\ data = "askKey" => client[c].plugin = "sha256"
                  \/ client[c].pc = "ok" /\ data \in {"clear", "enc"}
                  \/ client[c].pc = "key" /\ data = "askKey"
    PROVE  Kept(c)
PROOF
  <1> DEFINE To(pc) == [At(c, pc) EXCEPT !.account = account]
  <1>1. \A pc \in {"data", "command", "closed"} :
            /\ To(pc) \in ServerStates /\ To(pc).pc = pc /\ To(pc).ssl = server[c].ssl
            /\ To(pc).account = account /\ To(pc).accepted = server[c].accepted
    <2>1. server[c] \in ServerStates
      BY OneConn
    <2>2. ASSUME NEW pc \in {"data", "command", "closed"}
          PROVE  /\ To(pc) \in ServerStates /\ To(pc).pc = pc /\ To(pc).ssl = server[c].ssl
                 /\ To(pc).account = account /\ To(pc).accepted = server[c].accepted
      <3>1. pc \in {"greet", "response", "tls", "data", "command", "closed"}
        OBVIOUS
      <3>2. To(pc) = [[server[c] EXCEPT !.pc = pc] EXCEPT !.account = account]
        BY DEF At
      <3> HIDE DEF To
      <3>3. QED
        BY <2>1, <3>1, <3>2 DEF ServerStates
    <2>3. QED
      BY <2>2
  <1>2. \/ data = "askKey" /\ Reply(c, <<[type |-> "key"]>>, To("data"))
        \/ /\ account = "sha2" /\ data = "scramble"
           /\ Reply(c, <<[type |-> "fast"], [type |-> "ok"]>>, To("command"))
        \/ account = "sha2" /\ data = "scramble" /\ Reply(c, <<[type |-> "full"]>>, To("data"))
        \/ data # "askKey" /\ Reply(c, <<[type |-> "ok"]>>, To("command"))
        \/ data # "askKey" /\ Reply(c, <<[type |-> "err"]>>, To("closed"))
    BY Zenon DEF Judge
  <1> HIDE DEF To
  <1> DEFINE s1 == To("data")
             s2 == To("command")
             s3 == To("closed")
  <1>3. /\ s1 \in ServerStates /\ s1.pc = "data" /\ s1.ssl = server[c].ssl /\ s1.accepted = server[c].accepted
        /\ s2 \in ServerStates /\ s2.pc = "command" /\ s2.ssl = server[c].ssl
        /\ s2.accepted = server[c].accepted
        /\ s3 \in ServerStates /\ s3.pc = "closed" /\ s3.ssl = server[c].ssl
        /\ s3.accepted = server[c].accepted
        /\ s1.account = account
    BY <1>1
  <1>4. \A t \in {"ok", "err", "fast", "full", "key"} : [type |-> t] \in ToClient /\ [type |-> t].type = t
    BY ServerPackets
  <1>5. CASE data = "askKey" /\ Reply(c, <<[type |-> "key"]>>, s1)
    <2> DEFINE m == [type |-> "key"]
    <2>1. m \in ToClient /\ m.type = "key"
      BY <1>4
    <2> HIDE DEF m, s1
    <2>2. Reply(c, <<m>>, s1)
      BY <1>5 DEF m
    <2>3. ASSUME client[c].pc # "failed", NEW n \in NetStates, ForClient(n, {m.type})
          PROVE  Phase(client[c], s1, n) /\ Count(client[c], s1, n, Len(Todo))
      BY <1>3, <1>5, <2>1, <2>3 DEF Phase, ResultPhase, Count
    <2>4. QED
      BY <1>3, <2>1, <2>2, <2>3, OneReplyKept
  <1>6. CASE account = "sha2" /\ data = "scramble" /\ Reply(c, <<[type |-> "full"]>>, s1)
    <2> DEFINE m == [type |-> "full"]
    <2>1. m \in ToClient /\ m.type = "full"
      BY <1>4
    <2> HIDE DEF m, s1
    <2>2. Reply(c, <<m>>, s1)
      BY <1>6 DEF m
    <2>3. ASSUME client[c].pc # "failed", NEW n \in NetStates, ForClient(n, {m.type})
          PROVE  Phase(client[c], s1, n) /\ Count(client[c], s1, n, Len(Todo))
      BY <1>3, <1>6, <2>1, <2>3 DEF Phase, ResultPhase, Count
    <2>4. QED
      BY <1>3, <2>1, <2>2, <2>3, OneReplyKept
  <1>7. CASE data # "askKey" /\ Reply(c, <<[type |-> "ok"]>>, s2)
    <2> DEFINE m == [type |-> "ok"]
    <2>1. m \in ToClient /\ m.type = "ok"
      BY <1>4
    <2> HIDE DEF m, s2
    <2>2. Reply(c, <<m>>, s2)
      BY <1>7 DEF m
    <2>3. ASSUME client[c].pc # "failed", NEW n \in NetStates, ForClient(n, {m.type})
          PROVE  Phase(client[c], s2, n) /\ Count(client[c], s2, n, Len(Todo))
      BY <1>3, <1>7, <2>1, <2>3 DEF Phase, ResultPhase, Count
    <2>4. QED
      BY <1>3, <2>1, <2>2, <2>3, OneReplyKept
  <1>8. CASE data # "askKey" /\ Reply(c, <<[type |-> "err"]>>, s3)
    <2> DEFINE m == [type |-> "err"]
    <2>1. m \in ToClient /\ m.type = "err"
      BY <1>4
    <2> HIDE DEF m, s3
    <2>2. Reply(c, <<m>>, s3)
      BY <1>8 DEF m
    <2>3. ASSUME client[c].pc # "failed", NEW n \in NetStates, ForClient(n, {m.type})
          PROVE  Phase(client[c], s3, n) /\ Count(client[c], s3, n, Len(Todo))
      BY <1>3, <1>8, <2>1, <2>3 DEF Phase, ResultPhase, Count
    <2>4. QED
      BY <1>3, <2>1, <2>2, <2>3, OneReplyKept
  <1>9. CASE /\ account = "sha2" /\ data = "scramble"
             /\ Reply(c, <<[type |-> "fast"], [type |-> "ok"]>>, s2)
    <2> DEFINE m == [type |-> "fast"]
               k == [type |-> "ok"]
               ms == <<m, k>>
    <2>1. m \in ToClient /\ m.type = "fast" /\ k \in ToClient /\ k.type = "ok"
      BY <1>4
    <2>2. Reply(c, ms, s2)
      BY <1>9
    <2> HIDE DEF m, k, s2
    <2>3. ms \in Seq(ToClient) /\ Len(ms) = 2 /\ ms[1] = m /\ ms[2] = k
      BY <2>1
    <2> HIDE DEF ms
    <2>4. ASSUME client[c].pc # "failed", NEW n \in NetStates, n.toServer = <<>>, n.toClient = ms
          PROVE  Phase(client[c], s2, n) /\ Count(client[c], s2, n, Len(Todo))
      <3>1. client[c].pc = "result" /\ client[c].plugin = "sha2"
        BY <1>9, <2>4
      <3>2. QED
        BY <1>3, <2>1, <2>3, <2>4, <3>1 DEF Phase, ResultPhase, Count
    <2>5. client[c].pc # "failed" =>
              net[c].toClient = <<>> /\ (net[c].toServer = <<>> \/ Len(net[c].toServer) = 1)
      OBVIOUS
    <2>6. QED
      BY <1>3, <2>2, <2>3, <2>4, <2>5, ReplyKept
  <1>10. QED
    BY <1>2, <1>5, <1>6, <1>7, <1>8, <1>9

\* The server reads what the client has sent.
LEMMA ServerReadsKept ==
    ASSUME ConnectInv, NEW c \in Conns, ServerReads(c)
    PROVE  Kept(c)
PROOF
  <1> DEFINE m == Head(net[c].toServer)
  <1>1. /\ net[c].toServer # <<>> /\ UNCHANGED <<cfg, client, faults>>
        /\ server[c] \in ServerStates /\ client[c] \in ClientStates
        /\ net[c].toServer \in Seq(ToServer) /\ m = net[c].toServer[1] /\ m \in ToServer
    <2>1. net[c].toServer # <<>> /\ UNCHANGED <<cfg, client, faults>>
      BY DEF ServerReads
    <2>2. QED
      BY <2>1, OneConn, QueueFacts
  <1>2. /\ server[c].account \in Plugins \cup {DefaultPlugin} /\ server[c].accepted \in Nat
        /\ client[c].pc \in Steps
    BY <1>1 DEF ServerStates, ClientStates
  \* Only a client that waits for the server has sent something.
  <1>3. client[c].pc # "failed" =>
            /\ net[c].toClient = <<>> /\ Len(net[c].toServer) = 1
            /\ client[c].pc \in {"tls", "result", "ok", "key", "reply"}
            /\ client[c].pc # "reply" => server[c].accepted = 0
    <2>1. Phase(client[c], server[c], net[c]) /\ Count(client[c], server[c], net[c], Len(Todo))
      BY OneConn
    <2>2. client[c].pc # "failed" => client[c].pc \in {"tls", "result", "ok", "key", "reply"}
      BY <1>1, <1>2, <2>1 DEF Phase, Steps, Quiet, ForClient
    <2>3. client[c].pc # "failed" => net[c].toClient = <<>> /\ Len(net[c].toServer) = 1
      BY <1>1, <2>1, <2>2 DEF Phase, ResultPhase, Quiet, ForClient, ForServer, Lone
    <2>4. QED
      BY <2>1, <2>2, <2>3 DEF Count
  <1>4. /\ client[c].pc = "tls" => server[c].pc = "response" /\ m.type = "ssl"
        /\ client[c].pc = "result" => \/ server[c].pc = "response" /\ m.type = "response" /\ m.plugin = client[c].plugin
                                      \/ server[c].pc = "data" /\ m.type = "data" /\ server[c].account = client[c].plugin
        /\ client[c].pc = "result" => (m.data = "askKey" => client[c].plugin = "sha256")
        /\ client[c].pc = "ok" => server[c].pc = "data" /\ m.type = "data" /\ m.data \in {"clear", "enc"}
        /\ client[c].pc = "key" => server[c].pc = "data" /\ m.type = "data" /\ m.data = "askKey"
        /\ client[c].pc = "reply" => server[c].pc = "command"
    <2>1. Phase(client[c], server[c], net[c])
      BY OneConn
    <2> HIDE DEF m
    <2>2. client[c].pc = "tls" => server[c].pc = "response" /\ m.type = "ssl"
      BY <1>1, <2>1 DEF Phase, Quiet, ForServer, Lone
    <2>3. /\ client[c].pc = "result" =>
                 \/ server[c].pc = "response" /\ m.type = "response" /\ m.plugin = client[c].plugin
                 \/ server[c].pc = "data" /\ m.type = "data" /\ server[c].account = client[c].plugin
          /\ client[c].pc = "result" => (m.data = "askKey" => client[c].plugin = "sha256")
      BY <1>1, <2>1 DEF Phase, ResultPhase, ForServer, ForClient, Lone, Offered
    <2>4. /\ client[c].pc = "ok" => server[c].pc = "data" /\ m.type = "data" /\ m.data \in {"clear", "enc"}
          /\ client[c].pc = "key" => server[c].pc = "data" /\ m.type = "data" /\ m.data = "askKey"
      BY <1>1, <2>1 DEF Phase, ForServer, ForClient, Lone
    <2>5. client[c].pc = "reply" => server[c].pc = "command"
      BY <2>1 DEF Phase
    <2>6. QED
      BY <2>2, <2>3, <2>4, <2>5
  <1>5. CASE server[c].pc = "response" /\ m.type = "ssl" /\ Reply(c, <<>>, At(c, "tls"))
    <2>1. /\ At(c, "tls") \in ServerStates /\ At(c, "tls").pc = "tls"
          /\ At(c, "tls").ssl = server[c].ssl /\ At(c, "tls").accepted = server[c].accepted
      BY <1>1, <1>2, ServerAt, ZenonT(60) DEF At
    <2>2. <<>> \in Seq(ToClient)
      OBVIOUS
    <2>3. client[c].pc # "failed" => client[c].pc = "tls" /\ server[c].accepted = 0
      BY <1>3, <1>4, <1>5
    <2>4. ASSUME client[c].pc # "failed", NEW n \in NetStates, n.toServer = <<>>, n.toClient = <<>>
          PROVE  Phase(client[c], At(c, "tls"), n) /\ Count(client[c], At(c, "tls"), n, Len(Todo))
      BY <2>1, <2>3, <2>4, OneConn DEF Phase, Quiet, Count
    <2>5. client[c].pc # "failed" =>
              net[c].toClient = <<>> /\ (net[c].toServer = <<>> \/ Len(net[c].toServer) = 1)
      BY <1>3
    <2>6. QED
      BY <1>1, <1>5, <2>1, <2>2, <2>4, <2>5, ReplyKept
  <1>6. CASE /\ server[c].pc = "response" /\ m.type = "response"
             /\ \E account \in Plugins :
                    IF account = m.plugin THEN Judge(c, account, m.data)
                    ELSE Reply(c, <<[type |-> "switch", plugin |-> account]>>,
                               [At(c, "data") EXCEPT !.account = account])
    <2>1. PICK account \in Plugins :
                    IF account = m.plugin THEN Judge(c, account, m.data)
                    ELSE Reply(c, <<[type |-> "switch", plugin |-> account]>>,
                               [At(c, "data") EXCEPT !.account = account])
      BY <1>6
    <2>2. client[c].pc # "failed" => client[c].pc = "result" /\ server[c].accepted = 0 /\ m.plugin = client[c].plugin
      BY <1>3, <1>4, <1>6
    <2>3. CASE account = m.plugin /\ Judge(c, account, m.data)
      <3>1. m.data \in Passwords
        BY <1>1, <1>6, PacketFields
      <3> DEFINE data == m.data
      <3>2. /\ data \in Passwords /\ Judge(c, account, data)
            /\ client[c].pc # "failed" =>
                   client[c].pc = "result" /\ account = client[c].plugin /\ (data = "askKey" => client[c].plugin = "sha256")
        BY <1>4, <2>2, <2>3, <3>1
      <3> HIDE DEF data, m
      <3>3. QED
        BY <1>1, <1>3, <2>2, <3>2, JudgeKept
    <2>4. CASE Reply(c, <<[type |-> "switch", plugin |-> account]>>, [At(c, "data") EXCEPT !.account = account])
      <3> DEFINE k == [type |-> "switch", plugin |-> account]
                 s == [At(c, "data") EXCEPT !.account = account]
      <3>1. k \in ToClient /\ k.type = "switch" /\ k.plugin = account
        BY ServerPackets
      <3>2. /\ s \in ServerStates /\ s.pc = "data" /\ s.ssl = server[c].ssl
            /\ s.account = account /\ s.accepted = server[c].accepted
        <4>1. s = [[server[c] EXCEPT !.pc = "data"] EXCEPT !.account = account]
          BY DEF At
        <4> HIDE DEF s
        <4>2. account \in Plugins \cup {DefaultPlugin}
          OBVIOUS
        <4>3. QED
          BY <1>1, <4>1, <4>2 DEF ServerStates
      <3>3. Reply(c, <<k>>, s)
        BY <2>4
      <3> HIDE DEF k, s, m
      <3>4. ASSUME client[c].pc # "failed", NEW n \in NetStates, ForClient(n, {k.type}), n.toClient[1] = k
            PROVE  Phase(client[c], s, n) /\ Count(client[c], s, n, Len(Todo))
        BY <2>2, <3>1, <3>2, <3>4 DEF Phase, ResultPhase, Count
      <3>5. QED
        BY <1>1, <1>3, <3>1, <3>2, <3>3, <3>4, OneReplyKept
    <2>5. QED
      BY <2>1, <2>3, <2>4
  <1>7. CASE server[c].pc = "data" /\ m.type = "data" /\ Judge(c, server[c].account, m.data)
    <2>1. m.data \in Passwords
      BY <1>1, <1>7, PacketFields
    <2> DEFINE data == m.data
               account == server[c].account
    <2>2. /\ data \in Passwords /\ Judge(c, account, data) /\ account \in Plugins \cup {DefaultPlugin}
          /\ client[c].pc # "failed" =>
                 \/ client[c].pc = "result" /\ account = client[c].plugin /\ (data = "askKey" => client[c].plugin = "sha256")
                 \/ client[c].pc = "ok" /\ data \in {"clear", "enc"}
                 \/ client[c].pc = "key" /\ data = "askKey"
      BY <1>2, <1>3, <1>4, <1>7, <2>1
    <2>3. client[c].pc # "failed" => server[c].accepted = 0
      BY <1>3, <1>4, <1>7
    <2> HIDE DEF data, account, m
    <2>4. QED
      BY <1>1, <1>3, <2>2, <2>3, JudgeKept
  <1>8. CASE /\ server[c].pc = "command"
             /\ \/ Reply(c, <<[type |-> "ok"]>>, [server[c] EXCEPT !.accepted = @ + 1])
                \/ Reply(c, <<[type |-> "err"]>>, server[c])
    <2>1. client[c].pc # "failed" => client[c].pc = "reply"
      BY <1>3, <1>4, <1>8
    <2>2. client[c].pc = "reply" =>
              server[c].accepted + Len(client[c].todo) = Len(Todo) /\ client[c].todo # <<>>
      <3>1. client[c].pc = "reply" => ~ForClient(net[c], {"ok"})
        BY <1>1 DEF ForClient
      <3>2. Len(Todo) \in Nat
        BY TodoType
      <3>3. QED
        BY <3>1, <3>2, OneConn DEF Count, Phase
    <2>3. Len(client[c].todo) \in Nat /\ Len(Todo) \in Nat
      BY <1>1, TodoType DEF ClientStates
    <2>4. CASE Reply(c, <<[type |-> "ok"]>>, [server[c] EXCEPT !.accepted = @ + 1])
      <3> DEFINE k == [type |-> "ok"]
                 s == [server[c] EXCEPT !.accepted = @ + 1]
      <3>1. k \in ToClient /\ k.type = "ok"
        BY ServerPackets
      <3>2. s \in ServerStates /\ s.pc = "command" /\ s.ssl = server[c].ssl /\ s.accepted = server[c].accepted + 1
        BY <1>1, <1>2, <1>8 DEF ServerStates
      <3>3. Reply(c, <<k>>, s)
        BY <2>4
      <3> HIDE DEF k, s, m
      <3>4. client[c].pc = "reply" => s.accepted + Len(client[c].todo) = Len(Todo) + 1
        <4> DEFINE a == server[c].accepted
                   t == Len(client[c].todo)
                   l == Len(Todo)
        <4>1. a \in Nat /\ t \in Nat /\ l \in Nat /\ (client[c].pc = "reply" => a + t = l)
          BY <1>2, <2>2, <2>3
        <4>2. s.accepted = a + 1
          BY <3>2
        <4> HIDE DEF a, t, l
        <4>3. client[c].pc = "reply" => s.accepted + t = l + 1
          BY <4>1, <4>2
        <4>4. QED
          BY <4>3 DEF t, l
      <3>5. ASSUME client[c].pc # "failed", NEW n \in NetStates, ForClient(n, {k.type})
            PROVE  Phase(client[c], s, n) /\ Count(client[c], s, n, Len(Todo))
        <4>1. ForClient(n, {"ok"}) /\ ForClient(n, {"ok", "err"})
          BY <3>1, <3>5 DEF ForClient, Lone
        <4>2. Phase(client[c], s, n)
          BY <2>1, <2>2, <3>2, <3>5, <4>1 DEF Phase
        <4>3. Count(client[c], s, n, Len(Todo))
          BY <2>1, <3>4, <3>5, <4>1 DEF Count
        <4>4. QED
          BY <4>2, <4>3
      <3>6. QED
        BY <1>1, <1>3, <3>1, <3>2, <3>3, <3>5, OneReplyKept
    <2>5. CASE Reply(c, <<[type |-> "err"]>>, server[c])
      <3> DEFINE k == [type |-> "err"]
      <3>1. k \in ToClient /\ k.type = "err"
        BY ServerPackets
      <3>2. Reply(c, <<k>>, server[c])
        BY <2>5
      <3> HIDE DEF k, m
      <3>3. ASSUME client[c].pc # "failed", NEW n \in NetStates, ForClient(n, {k.type})
            PROVE  Phase(client[c], server[c], n) /\ Count(client[c], server[c], n, Len(Todo))
        <4>1. ~ForClient(n, {"ok"}) /\ ForClient(n, {"ok", "err"})
          BY <3>1, <3>3 DEF ForClient, Lone
        <4>2. Phase(client[c], server[c], n)
          BY <1>8, <2>1, <2>2, <3>3, <4>1 DEF Phase
        <4>3. Len(Todo) + 0 = Len(Todo)
          BY <2>3
        <4>4. Count(client[c], server[c], n, Len(Todo))
          BY <2>1, <2>2, <3>3, <4>1, <4>3 DEF Count
        <4>5. QED
          BY <4>2, <4>4
      <3>4. QED
        BY <1>1, <1>3, <3>1, <3>2, <3>3, OneReplyKept
    <2>6. QED
      BY <1>8, <2>4, <2>5
  <1>9. QED
    BY <1>5, <1>6, <1>7, <1>8, Zenon DEF ServerReads

-----------------------------------------------------------------------------
(***************************************************************************)
(* The greeting is the one step that changes the shared Config.            *)
(***************************************************************************)

\* What the first greeting leaves in the Config.  Where the servers agree, no
\* later greeting changes what a connection has relied on.
LEMMA ReadHandshakeInv ==
    ASSUME ConnectInv, NEW c \in Conns, ReadHandshakePacket(c)
    PROVE  ConnectInv' /\ (SecretInv => SecretInv') /\ cfg'.unix = cfg.unix
PROOF
  <1> DEFINE m == Packet(c)
  <1>1. /\ client[c] \in ClientStates /\ client \in [Conns -> ClientStates]
        /\ TypeOK /\ server \in [Conns -> ServerStates] /\ net[c].toClient \in Seq(ToClient)
        /\ cfg \in ConfigRecords
    BY OneConn DEF ConnectInv, TypeOK
  <1>2. /\ client[c].pc = "greet" /\ server' = server /\ faults' = faults /\ net[c].toClient # <<>>
        /\ Drop(c)
    BY DEF ReadHandshakePacket, Receives
  <1>3. m = net[c].toClient[1] /\ m \in ToClient
    BY <1>1, <1>2, QueueFacts DEF Packet
  <1>4. CASE Fail(c) /\ UNCHANGED cfg
    <2>1. Kept(c)
      BY <1>2, <1>4, DropFailKept
    <2>2. QED
      BY <1>4, <2>1, KeptInv
  <1>5. CASE /\ m.type = "greet"
             /\ client' = [client EXCEPT ![c].pc = "auth",
                                         ![c].plugin = IF m.plugin = "" THEN DefaultPlugin ELSE m.plugin]
             /\ cfg' = [cfg EXCEPT !.tls = @ /\ m.ssl]
    <2>1. m.plugin \in Plugins \cup {""} /\ m.ssl \in BOOLEAN
      BY <1>3, <1>5, PacketFields
    <2> DEFINE p == IF m.plugin = "" THEN DefaultPlugin ELSE m.plugin
               x == [client[c] EXCEPT !.pc = "auth", !.plugin = p]
               b == cfg.tls /\ m.ssl
    <2>2. p \in Plugins \cup {DefaultPlugin}
      BY <2>1
    <2>3. client' = [client EXCEPT ![c] = x]
      BY <1>1, <1>5 DEF ClientStates
    <2>4. b \in BOOLEAN
      OBVIOUS
    <2>5. cfg' = [cfg EXCEPT !.tls = b]
      BY <1>5
    <2> HIDE DEF p
    <2>6. /\ x \in ClientStates /\ x.pc = "auth" /\ x.tls = client[c].tls
      BY <1>1, <2>2 DEF ClientStates, Steps
    <2>7. /\ client' \in [Conns -> ClientStates] /\ client'[c] = x
          /\ \A d \in Conns \ {c} : client'[d] = client[d]
      BY <1>1, <2>3, <2>6
    <2> HIDE DEF x
    <2>8. /\ server[c].pc = "response" /\ ForClient(net[c], {"greet"}) /\ server[c].accepted = 0
          /\ m.ssl <=> server[c].ssl
      <3>1. Phase(client[c], server[c], net[c]) /\ Count(client[c], server[c], net[c], Len(Todo))
        BY OneConn
      <3>2. QED
        BY <1>2, <1>3, <1>5, <3>1 DEF Phase, Quiet, ForClient, Lone, Count
    <2>9. /\ net' \in [Conns -> NetStates] /\ \A d \in Conns \ {c} : net'[d] = net[d]
          /\ net'[c].toServer = <<>> /\ net'[c].toClient = <<>>
      <3>1. net[c].toServer = <<>> /\ Tail(net[c].toClient) = <<>>
        BY <1>1, <2>8, QueueFacts DEF ForClient, Lone
      <3>2. QED
        BY <1>1, <1>2, <3>1, DropFacts
    <2>10. /\ cfg' \in ConfigRecords /\ cfg'.maxPacket = cfg.maxPacket
           /\ cfg'.charsets = cfg.charsets /\ cfg'.params = cfg.params /\ cfg'.unix = cfg.unix
      <3> HIDE DEF b
      <3>1. QED
        BY <1>1, <2>4, <2>5 DEF ConfigRecords
    <2>11. cfg'.tls <=> cfg.tls /\ m.ssl
      <3>1. cfg'.tls = b
        <4> HIDE DEF b
        <4>1. QED
          BY <1>1, <2>5 DEF ConfigRecords
      <3>2. QED
        BY <3>1
    <2>12. Todo' = Todo
      BY <2>10, Zenon DEF Todo
    <2>13. Phase(x, server[c], net'[c])
      BY <2>6, <2>8, <2>9 DEF Phase, Quiet
    <2>14. Count(x, server[c], net'[c], Len(Todo))
      BY <2>6, <2>8 DEF Count
    <2>15. ASSUME NEW d \in Conns
           PROVE  /\ Phase(client'[d], server'[d], net'[d])
                  /\ Count(client'[d], server'[d], net'[d], Len(Todo))
      <3>1. CASE d = c
        BY <1>2, <2>7, <2>13, <2>14, <3>1
      <3>2. CASE d # c
        BY <1>2, <2>7, <2>9, <3>2 DEF ConnectInv, PhaseInv, CountInv
      <3>3. QED
        BY <3>1, <3>2
    <2>16. ConnectInv'
      <3>1. TypeOK'
        BY <1>1, <1>2, <2>7, <2>9, <2>10 DEF TypeOK
      <3>2. PhaseInv' /\ CountInv'
        BY <2>12, <2>15 DEF PhaseInv, CountInv
      <3>3. QED
        BY <3>1, <3>2 DEF ConnectInv
    <2>17. ASSUME SecretInv
           PROVE  SecretInv'
      <3>1. \A d, e \in Conns : server[d].ssl = server[e].ssl
        BY <2>17 DEF SecretInv
      <3>2. ASSUME NEW d \in Conns
            PROVE  Secret(client'[d], server'[d], net'[d], cfg'.tls)
        <4>1. Secret(client[d], server[d], net[d], cfg.tls)
          BY <2>17 DEF SecretInv
        <4>2. cfg'.tls <=> cfg.tls /\ server[d].ssl
          <5>1. server[c].ssl = server[d].ssl
            BY <3>1
          <5>2. QED
            BY <2>8, <2>11, <5>1
        <4>3. CASE d = c
          <5>1. ~Clear(net'[c]) /\ ~x.tls
            BY <1>2, <2>6, <2>9, <4>1, <4>3 DEF Clear, Secret
          <5>2. Secret(x, server[c], net'[c], cfg'.tls)
            BY <2>6, <4>2, <4>3, <5>1 DEF Secret
          <5>3. QED
            BY <1>2, <2>7, <4>3, <5>2
        <4>4. CASE d # c
          <5>1. client'[d] = client[d] /\ server'[d] = server[d] /\ net'[d] = net[d]
            BY <1>2, <2>7, <2>9, <4>4
          <5>2. client[d].pc \notin {"new", "greet", "failed"} => (cfg'.tls <=> cfg.tls)
            BY <4>1, <4>2 DEF Secret
          <5>3. Secret(client[d], server[d], net[d], cfg'.tls)
            BY <4>1, <5>2 DEF Secret
          <5>4. QED
            BY <5>1, <5>3
        <4>5. QED
          BY <4>3, <4>4
      <3>3. QED
        BY <1>2, <2>10, <2>17, <3>1, <3>2 DEF SecretInv
    <2>18. QED
      BY <2>10, <2>16, <2>17
  <1>6. QED
    BY <1>4, <1>5 DEF ReadHandshakePacket

-----------------------------------------------------------------------------
(***************************************************************************)
(* The theorems.                                                           *)
(***************************************************************************)

\* Nothing has been sent when the connections are made.
LEMMA InitConnect ==
    ASSUME Init
    PROVE  ConnectInv /\ (SameTLS => cfg.unix \/ SecretInv)
PROOF
  <1>1. PICK ssl \in Offers :
            server = [c \in Conns |-> [pc |-> "greet", ssl |-> ssl[c], account |-> DefaultPlugin,
                                       accepted |-> 0]]
    BY DEF Init
  <1>2. ssl \in [Conns -> BOOLEAN]
    BY ConnectAssumption
  <1>3. \A c \in Conns : /\ client[c].pc = "new" /\ client[c].sock = "none" /\ ~client[c].tls
                         /\ server[c].pc = "greet" /\ server[c].ssl = ssl[c] /\ server[c].accepted = 0
                         /\ net[c].toServer = <<>> /\ net[c].toClient = <<>>
    BY <1>1 DEF Init
  <1>4. TypeOK
    <2>1. cfg \in ConfigRecords /\ faults \in 0..MaxFaults
      BY ConnectAssumption DEF Init
    <2>2. client \in [Conns -> ClientStates]
      <3>1. <<>> \in Seq({"var", "charset", "set"})
        OBVIOUS
      <3>2. QED
        BY <3>1 DEF Init, ClientStates, Steps
    <2>3. server \in [Conns -> ServerStates]
      BY <1>1, <1>2 DEF ServerStates
    <2>4. net \in [Conns -> NetStates]
      <3>1. <<>> \in Seq(ToServer) /\ <<>> \in Seq(ToClient)
        OBVIOUS
      <3>2. QED
        BY <3>1 DEF Init, NetStates
    <2>5. QED
      BY <2>1, <2>2, <2>3, <2>4 DEF TypeOK
  <1>5. PhaseInv
    BY <1>3 DEF PhaseInv, Phase, Quiet
  <1>6. CountInv
    BY <1>3 DEF CountInv, Count
  <1>7. SameTLS => cfg.unix \/ SecretInv
    <2>1. \A c \in Conns : ~Clear(net[c])
      BY <1>3 DEF Clear
    <2>2. \A c \in Conns : Secret(client[c], server[c], net[c], cfg.tls)
      BY <1>3, <2>1 DEF Secret
    <2>3. SameTLS => \A c, d \in Conns : server[c].ssl = server[d].ssl
      BY <1>3 DEF SameTLS
    <2>4. QED
      BY <2>2, <2>3 DEF SecretInv
  <1>8. QED
    BY <1>4, <1>5, <1>6, <1>7 DEF ConnectInv

\* Both invariants are inductive.
LEMMA NextConnect ==
    ASSUME ConnectInv, [Next]_vars
    PROVE  ConnectInv' /\ (SecretInv => SecretInv') /\ cfg'.unix = cfg.unix
PROOF
  <1>1. CASE UNCHANGED vars
    <2>1. /\ cfg' = cfg /\ client' = client /\ server' = server /\ net' = net /\ faults' = faults
      BY <1>1 DEF vars
    <2>2. Todo' = Todo
      BY <2>1, Zenon DEF Todo
    <2>3. TypeOK' /\ PhaseInv' /\ CountInv'
      BY <2>1, <2>2 DEF ConnectInv, TypeOK, PhaseInv, CountInv
    <2>4. SecretInv => SecretInv'
      BY <2>1 DEF SecretInv
    <2>5. QED
      BY <2>1, <2>3, <2>4 DEF ConnectInv
  <1>2. ASSUME NEW c \in Conns, ClientStep(c) \/ ServerStep(c) \/ DialFails(c) \/ Break(c)
        PROVE  ConnectInv' /\ (SecretInv => SecretInv') /\ cfg'.unix = cfg.unix /\ cfg'.unix = cfg.unix
    <2>1. CASE ReadHandshakePacket(c)
      BY <2>1, ReadHandshakeInv
    <2>2. CASE ~ReadHandshakePacket(c)
      <3>1. cfg' = cfg
        BY <1>2, <2>2 DEF ClientStep, ServerStep, Dial, Auth, WriteHandshakeResponse, SwitchToTLS,
             HandleAuthResult, ReadPublicKey, ReadResultOK, SendCommand, ReadReply, NetError,
             Greet, ServerReads, DialFails, Break
      <3>2. Kept(c)
        BY <1>2, <2>2, DialKept, AuthKept, WriteHandshakeResponseKept, SwitchToTLSKept,
           HandleAuthResultKept, ReadPublicKeyKept, ReadResultOKKept, SendCommandKept, ReadReplyKept,
           BreakKept, GreetKept, ServerReadsKept, DialFailsKept DEF ClientStep, ServerStep
      <3>3. QED
        BY <3>1, <3>2, KeptInv
    <2>3. QED
      BY <2>1, <2>2
  <1>3. QED
    BY <1>1, <1>2 DEF Next

\* The state of Connect keeps its type, whatever the servers send.
THEOREM ConnectTypes == Spec => []TypeOK
PROOF
  <1>1. Init => ConnectInv
    BY InitConnect
  <1>2. ConnectInv /\ [Next]_vars => ConnectInv'
    BY NextConnect
  <1>3. ConnectInv => TypeOK
    BY DEF ConnectInv
  <1>4. QED
    BY <1>1, <1>2, <1>3, PTL DEF Spec

\* The client begins with commands only when the server has accepted it, and
\* neither side reads an answer that belongs to another phase, for any number
\* of connections, any configuration and any plugins (handleAuthResult).
THEOREM ConnectSamePhase == Spec => []SamePhase
PROOF
  <1>1. Init => ConnectInv
    BY InitConnect
  <1>2. ConnectInv /\ [Next]_vars => ConnectInv'
    BY NextConnect
  <1>3. ConnectInv => SamePhase
    BY DEF ConnectInv, PhaseInv, Phase, Quiet, SamePhase
  <1>4. QED
    BY <1>1, <1>2, <1>3, PTL DEF Spec

\* A connection that Connect returns has max_allowed_packet, a charset and the
\* other parameters of its DSN, although charsets may be refused (handleParams).
THEOREM ConnectParamsApplied == Spec => []ParamsApplied
PROOF
  <1>1. Init => ConnectInv
    BY InitConnect
  <1>2. ConnectInv /\ [Next]_vars => ConnectInv'
    BY NextConnect
  <1>3. ConnectInv => ParamsApplied
    BY DEF ConnectInv, CountInv, Count, ParamsApplied
  <1>4. QED
    BY <1>1, <1>2, <1>3, PTL DEF Spec

\* Where the servers of a Connector agree about TLS, the password itself is sent
\* only on an encrypted connection, on a unix socket or with the plugin that was
\* allowed to, although the connections share a Config that their greetings change.
THEOREM ConnectClearOnlyEncrypted == ASSUME SameTLS PROVE Spec => []ClearOnlyEncrypted
PROOF
  <1>1. Init => ConnectInv /\ (cfg.unix \/ SecretInv)
    BY InitConnect
  <1>2. ConnectInv /\ (cfg.unix \/ SecretInv) /\ [Next]_vars => ConnectInv' /\ (cfg.unix \/ SecretInv)'
    BY NextConnect
  <1>3. cfg.unix \/ SecretInv => ClearOnlyEncrypted
    BY DEF SecretInv, Secret, Clear, ClearOnlyEncrypted
  <1>4. QED
    BY <1>1, <1>2, <1>3, PTL DEF Spec

=============================================================================
