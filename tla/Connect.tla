------------------------------ MODULE Connect ------------------------------
(***************************************************************************)
(* mysql/connector.go and mysql/auth.go: Connect, from the dial to the     *)
(* parameters of the DSN, by several goroutines with one Connector.        *)
(*                                                                         *)
(* The Connector's Config is one object shared by all its connections      *)
(* (cfg: c.cfg), and readHandshakePacket changes it.  Passwords, scrambles *)
(* and keys are told apart only by the form in which a password travels:   *)
(* "scramble", "clear", "enc" (encrypted with the server's public key), or *)
(* "askKey", the request for that key.  The server is a MySQL server that  *)
(* follows the protocol; MaxFaults connections break, or are cancelled.    *)
(***************************************************************************)
EXTENDS Integers, Sequences, FiniteSets

CONSTANTS
    Conns,          \* connections a Connector makes
    Configs,        \* configurations
    Plugins,        \* authentication plugins of servers
    Offers,         \* which servers offer TLS: functions of Conns
    MaxFaults       \* bound: connections that break

DefaultPlugin == "native"

\* What Connect looks at of a Config; unix: the Net is "unix"; usable: the
\* plugins that may be used.
ConfigRecords ==
    [tls : BOOLEAN, unix : BOOLEAN, fallback : BOOLEAN, pubKey : BOOLEAN, usable : SUBSET Plugins,
     collation : BOOLEAN, maxPacket : BOOLEAN, charsets : Nat, params : BOOLEAN]

ASSUME ConnectAssumption ==
    /\ Offers \subseteq [Conns -> BOOLEAN]
    /\ MaxFaults \in Nat
    /\ Configs \subseteq ConfigRecords

VARIABLES
    cfg,        \* the Config that the connections share
    client,     \* Connect, per connection
    server,     \* the server's end
    net,        \* packets on their way
    faults      \* connections that broke

vars == <<cfg, client, server, net, faults>>

Steps == {"new", "greet", "auth", "respond", "tls", "result", "key", "ok",
          "command", "reply", "up", "failed"}

\* The forms in which a password travels.
Passwords == {"scramble", "clear", "enc", "askKey"}

ClientStates ==
    [pc : Steps, plugin : Plugins \cup {DefaultPlugin},
     resp : {"none"} \cup Passwords, tls : BOOLEAN, switched : BOOLEAN,
     sock : {"none", "open", "closed"}, todo : Seq({"var", "charset", "set"}), tries : Nat]

ServerStates ==
    [pc : {"greet", "response", "tls", "data", "command", "closed"}, ssl : BOOLEAN,
     account : Plugins \cup {DefaultPlugin}, accepted : Nat]

ToServer ==
    [type : {"ssl", "query"}]
        \cup [type : {"response"}, plugin : Plugins \cup {DefaultPlugin}, data : Passwords]
        \cup [type : {"data"}, data : Passwords]

ToClient ==
    [type : {"greet"}, plugin : Plugins \cup {""}, ssl : BOOLEAN]
        \cup [type : {"switch"}, plugin : Plugins]
        \cup [type : {"ok", "err", "fast", "full", "key"}]

NetStates == [toServer : Seq(ToServer), toClient : Seq(ToClient), up : BOOLEAN]

TypeOK ==
    /\ cfg \in ConfigRecords
    /\ client \in [Conns -> ClientStates]
    /\ server \in [Conns -> ServerStates]
    /\ net \in [Conns -> NetStates]
    /\ faults \in 0..MaxFaults

Init ==
    /\ cfg \in Configs
    /\ client = [c \in Conns |-> [pc |-> "new", plugin |-> DefaultPlugin, resp |-> "none", tls |-> FALSE,
                                  switched |-> FALSE, sock |-> "none", todo |-> <<>>, tries |-> 0]]
    /\ \E ssl \in Offers : server = [c \in Conns |-> [pc |-> "greet", ssl |-> ssl[c], account |-> DefaultPlugin,
                                                          accepted |-> 0]]
    /\ net = [c \in Conns |-> [toServer |-> <<>>, toClient |-> <<>>, up |-> TRUE]]
    /\ faults = 0

-----------------------------------------------------------------------------
(***************************************************************************)
(* The client.                                                             *)
(***************************************************************************)

\* Connect returns an error after cleanup, or Close.
Fail(c) == client' = [client EXCEPT ![c].pc = "failed", ![c].sock = IF @ = "none" THEN "none" ELSE "closed"]

Send(c, m) == net' = [net EXCEPT ![c].toServer = Append(@, m)]

Receives(c, pc) == client[c].pc = pc /\ net[c].toClient # <<>>

Packet(c) == Head(net[c].toClient)

Rest(c) == [net[c] EXCEPT !.toClient = Tail(@)]

Drop(c) == net' = [net EXCEPT ![c] = Rest(c)]

Answer(c, m) == net' = [net EXCEPT ![c] = [Rest(c) EXCEPT !.toServer = Append(@, m)]]

Dial(c) ==
    /\ client[c].pc = "new"
    /\ client' = [client EXCEPT ![c].pc = "greet", ![c].sock = "open"]
    /\ UNCHANGED <<cfg, server, net, faults>>

\* The dial fails, or the context has ended when the dial returns.
DialFails(c) ==
    /\ client[c].pc = "new"
    /\ faults < MaxFaults
    /\ \E sock \in {"none", "closed"} :
           client' = [client EXCEPT ![c].pc = "failed", ![c].sock = sock]
    /\ net' = [net EXCEPT ![c].up = FALSE]
    /\ faults' = faults + 1
    /\ UNCHANGED <<cfg, server>>

\* readHandshakePacket.  A server without TLS turns TLS off in the shared
\* Config if plaintext is allowed.
ReadHandshakePacket(c) ==
    /\ Receives(c, "greet")
    /\ LET m == Packet(c) IN
       \/ /\ m.type = "greet" => ~m.ssl /\ cfg.tls /\ ~cfg.fallback
          /\ Fail(c)
          /\ UNCHANGED cfg
       \/ /\ m.type = "greet" /\ (m.ssl \/ ~cfg.tls \/ cfg.fallback)
          /\ client' = [client EXCEPT ![c].pc = "auth", ![c].plugin = IF m.plugin = "" THEN DefaultPlugin ELSE m.plugin]
          /\ cfg' = [cfg EXCEPT !.tls = @ /\ m.ssl]
    /\ Drop(c)
    /\ UNCHANGED <<server, faults>>

\* auth: how a password is sent with a plugin, or "none" if it cannot be used.
\* For sha256_password only TLS counts, not a unix socket.
AuthResponse(plugin) ==
    CASE plugin \notin cfg.usable -> "none"
      [] plugin = "clear" -> "clear"
      [] plugin = "sha256" -> IF cfg.tls THEN "clear" ELSE IF cfg.pubKey THEN "enc" ELSE "askKey"
      [] OTHER -> "scramble"

\* auth, and again with the default plugin if that fails.
Auth(c) ==
    /\ client[c].pc = "auth"
    /\ LET p == IF AuthResponse(client[c].plugin) = "none" THEN DefaultPlugin ELSE client[c].plugin
       IN  IF AuthResponse(p) = "none" THEN Fail(c)
           ELSE client' = [client EXCEPT ![c].pc = "respond", ![c].plugin = p, ![c].resp = AuthResponse(p)]
    /\ UNCHANGED <<cfg, server, net, faults>>

\* writeHandshakeResponsePacket: the collation may be unknown; with TLS only the
\* SSL request is written before the handshake.
WriteHandshakeResponse(c) ==
    /\ client[c].pc = "respond"
    /\ \/ ~cfg.collation /\ Fail(c) /\ UNCHANGED net
       \/ /\ cfg.collation /\ cfg.tls
          /\ client' = [client EXCEPT ![c].pc = "tls"]
          /\ Send(c, [type |-> "ssl"])
       \/ /\ cfg.collation /\ ~cfg.tls
          /\ client' = [client EXCEPT ![c].pc = "result"]
          /\ Send(c, [type |-> "response", plugin |-> client[c].plugin, data |-> client[c].resp])
    /\ UNCHANGED <<cfg, server, faults>>

\* tlsConn.Handshake and the rest of writeHandshakeResponsePacket.
SwitchToTLS(c) ==
    /\ client[c].pc = "tls"
    /\ server[c].pc = "tls"
    /\ \/ /\ client' = [client EXCEPT ![c].pc = "result", ![c].tls = TRUE]
          /\ server' = [server EXCEPT ![c].pc = "response"]
          /\ Send(c, [type |-> "response", plugin |-> client[c].plugin, data |-> client[c].resp])
          /\ UNCHANGED faults
       \/ /\ faults < MaxFaults
          /\ Fail(c)
          /\ net' = [net EXCEPT ![c].up = FALSE]
          /\ faults' = faults + 1
          /\ UNCHANGED server
    /\ UNCHANGED cfg

\* What there is to do once the user is authenticated.
Todo == (IF cfg.maxPacket THEN <<>> ELSE <<"var">>)
            \o (IF cfg.charsets = 0 THEN <<>> ELSE <<"charset">>)
            \o (IF cfg.params THEN <<"set">> ELSE <<>>)

Authenticated(c) == client' = [client EXCEPT ![c].pc = "command", ![c].todo = Todo, ![c].tries = cfg.charsets]

\* The switch request: once, and to a plugin that can be used.
AuthSwitch(c, m) ==
    IF client[c].switched \/ AuthResponse(m.plugin) = "none" THEN Fail(c) /\ Drop(c)
    ELSE /\ client' = [client EXCEPT ![c].switched = TRUE, ![c].plugin = m.plugin]
         /\ Answer(c, [type |-> "data", data |-> AuthResponse(m.plugin)])

\* Mutant: the request for a full authentication is taken for its success.
AuthMoreDone(c, m) == Authenticated(c) /\ Drop(c)

\* Mutant: the public key is used whether or not there is TLS, and without it
\* the password is sent as it is.
FullAuthenticationClear == IF cfg.pubKey THEN "enc" ELSE "clear"

\* How the password is sent for a full authentication with caching_sha2_password:
\* as it is with TLS and on a unix socket.
FullAuthentication == IF cfg.tls \/ cfg.unix THEN "clear" ELSE IF cfg.pubKey THEN "enc" ELSE "askKey"

\* Mutant: the driver waits for the result of a full authentication it has not
\* begun.
AuthMoreWaits(c, m) == client' = [client EXCEPT ![c].pc = "ok"] /\ Drop(c)

\* The AuthMoreData packet of caching_sha2_password and sha256_password; the
\* other plugins take it for success.
AuthMore(c, m) ==
    LET plugin == client[c].plugin
        fast == plugin = "sha2" /\ m.type = "fast"
        full == plugin = "sha2" /\ m.type = "full"
        key == plugin = "sha256" /\ m.type = "key"
    IN  \/ fast /\ client' = [client EXCEPT ![c].pc = "ok"] /\ Drop(c)
        \/ /\ full
           /\ client' = [client EXCEPT ![c].pc = IF FullAuthentication = "askKey" THEN "key" ELSE "ok"]
           /\ Answer(c, [type |-> "data", data |-> FullAuthentication])
        \/ key /\ client' = [client EXCEPT ![c].pc = "ok"] /\ Answer(c, [type |-> "data", data |-> "enc"])
        \/ plugin \in {"sha2", "sha256"} /\ ~(fast \/ full \/ key) /\ Fail(c) /\ Drop(c)
        \/ plugin \notin {"sha2", "sha256"} /\ Authenticated(c) /\ Drop(c)

\* handleAuthResult.
HandleAuthResult(c) ==
    /\ Receives(c, "result")
    /\ LET m == Packet(c) IN
       \/ m.type = "ok" /\ Authenticated(c) /\ Drop(c)
       \/ m.type = "err" /\ Fail(c) /\ Drop(c)
       \/ m.type = "switch" /\ AuthSwitch(c, m)
       \/ m.type \in {"fast", "full", "key"} /\ AuthMore(c, m)
    /\ UNCHANGED <<cfg, server, faults>>

\* The public key that was asked for; the password follows, encrypted.
ReadPublicKey(c) ==
    /\ Receives(c, "key")
    /\ IF Packet(c).type = "key"
       THEN client' = [client EXCEPT ![c].pc = "ok"] /\ Answer(c, [type |-> "data", data |-> "enc"])
       ELSE Fail(c) /\ Drop(c)
    /\ UNCHANGED <<cfg, server, faults>>

\* readResultOK.
ReadResultOK(c) ==
    /\ Receives(c, "ok")
    /\ IF Packet(c).type = "ok" THEN Authenticated(c) ELSE Fail(c)
    /\ Drop(c)
    /\ UNCHANGED <<cfg, server, faults>>

\* getSystemVar and the commands of handleParams; when none is left, Connect
\* returns the connection.
SendCommand(c) ==
    /\ client[c].pc = "command"
    /\ IF client[c].todo = <<>>
       THEN client' = [client EXCEPT ![c].pc = "up"] /\ UNCHANGED net
       ELSE client' = [client EXCEPT ![c].pc = "reply"] /\ Send(c, [type |-> "query"])
    /\ UNCHANGED <<cfg, server, faults>>

\* Mutant: an unknown charset ends the loop, as a known one does.
ReplyFirstCharset(c) == client' = [client EXCEPT ![c].pc = "command", ![c].todo = Tail(@)]

\* The next charset is tried after an error.
ReplyError(c) ==
    IF Head(client[c].todo) = "charset" /\ client[c].tries > 1
    THEN client' = [client EXCEPT ![c].pc = "command", ![c].tries = @ - 1]
    ELSE Fail(c)

ReadReply(c) ==
    /\ Receives(c, "reply")
    /\ IF Packet(c).type = "ok"
       THEN client' = [client EXCEPT ![c].pc = "command", ![c].todo = Tail(@)]
       ELSE ReplyError(c)
    /\ Drop(c)
    /\ UNCHANGED <<cfg, server, faults>>

\* A read or a write fails on a connection that is broken or was cancelled.
NetError(c) ==
    /\ ~net[c].up
    /\ client[c].pc \notin {"new", "auth", "up", "failed"}
    /\ Fail(c)
    /\ UNCHANGED <<cfg, server, net, faults>>

-----------------------------------------------------------------------------
(***************************************************************************)
(* The server and the network.                                             *)
(***************************************************************************)

\* The server has read a packet, if one was there, and sends ms.
Reply(c, ms, state) ==
    /\ net' = [net EXCEPT ![c].toServer = IF @ = <<>> THEN @ ELSE Tail(@), ![c].toClient = @ \o ms]
    /\ server' = [server EXCEPT ![c] = state]

At(c, pc) == [server[c] EXCEPT !.pc = pc]

Greet(c) ==
    /\ server[c].pc = "greet" /\ client[c].sock = "open" /\ net[c].up
    /\ \/ \E plugin \in Plugins \cup {""} :
              Reply(c, <<[type |-> "greet", plugin |-> plugin, ssl |-> server[c].ssl]>>, At(c, "response"))
       \/ Reply(c, <<[type |-> "err"]>>, At(c, "closed"))
    /\ UNCHANGED <<cfg, client, faults>>

\* The password arrives in some form, for an account with a plugin.
Judge(c, account, data) ==
    LET To(pc) == [At(c, pc) EXCEPT !.account = account]
    IN  \/ data = "askKey" /\ Reply(c, <<[type |-> "key"]>>, To("data"))
        \/ /\ account = "sha2" /\ data = "scramble"
           /\ \/ Reply(c, <<[type |-> "fast"], [type |-> "ok"]>>, To("command"))
              \/ Reply(c, <<[type |-> "full"]>>, To("data"))
        \/ /\ data # "askKey" /\ ~(account = "sha2" /\ data = "scramble")
           /\ Reply(c, <<[type |-> "ok"]>>, To("command"))
        \/ data # "askKey" /\ Reply(c, <<[type |-> "err"]>>, To("closed"))

ServerReads(c) ==
    /\ net[c].toServer # <<>> /\ net[c].up
    /\ LET m == Head(net[c].toServer) IN
       \/ server[c].pc = "response" /\ m.type = "ssl" /\ Reply(c, <<>>, At(c, "tls"))
       \/ /\ server[c].pc = "response" /\ m.type = "response"
          /\ \E account \in Plugins :
                 IF account = m.plugin THEN Judge(c, account, m.data)
                 ELSE Reply(c, <<[type |-> "switch", plugin |-> account]>>,
                            [At(c, "data") EXCEPT !.account = account])
       \/ server[c].pc = "data" /\ m.type = "data" /\ Judge(c, server[c].account, m.data)
       \/ /\ server[c].pc = "command"
          /\ \/ Reply(c, <<[type |-> "ok"]>>, [server[c] EXCEPT !.accepted = @ + 1])
             \/ Reply(c, <<[type |-> "err"]>>, server[c])
    /\ UNCHANGED <<cfg, client, faults>>

\* The connection breaks, or its context ends and the watcher closes it.
Break(c) ==
    /\ faults < MaxFaults
    /\ client[c].sock = "open" /\ net[c].up
    /\ net' = [net EXCEPT ![c].up = FALSE]
    /\ faults' = faults + 1
    /\ UNCHANGED <<cfg, client, server>>

-----------------------------------------------------------------------------

ClientStep(c) ==
    \/ Dial(c) \/ ReadHandshakePacket(c) \/ Auth(c) \/ WriteHandshakeResponse(c) \/ SwitchToTLS(c)
    \/ HandleAuthResult(c) \/ ReadPublicKey(c) \/ ReadResultOK(c) \/ SendCommand(c) \/ ReadReply(c)
    \/ NetError(c)

ServerStep(c) == Greet(c) \/ ServerReads(c)

Next == \E c \in Conns : ClientStep(c) \/ ServerStep(c) \/ DialFails(c) \/ Break(c)

Spec == Init /\ [][Next]_vars

\* Goroutines that can go on do, and a server answers what it has read.
FairSpec ==
    /\ Spec
    /\ \A c \in Conns : WF_vars(ClientStep(c)) /\ WF_vars(ServerStep(c))

-----------------------------------------------------------------------------
(***************************************************************************)
(* Properties.                                                             *)
(***************************************************************************)

\* The client begins with commands only when the server has accepted it: neither
\* reads an answer that belongs to another phase (handleAuthResult).
SamePhase ==
    \A c \in Conns : client[c].pc \in {"command", "reply", "up"} =>
        server[c].pc = "command" /\ (client[c].pc # "reply" => net[c].toClient = <<>>)

\* The password itself is sent only on an encrypted connection, on a unix socket,
\* or with the plugin that was allowed to (auth, handleAuthResult).
ClearOnlyEncrypted ==
    \A c \in Conns : \A i \in DOMAIN net[c].toServer :
        net[c].toServer[i].type \in {"response", "data"} /\ net[c].toServer[i].data = "clear" =>
            client[c].tls \/ cfg.unix \/ client[c].plugin = "clear"

\* The Config with which auth has made its answer is the one with which
\* writeHandshakeResponsePacket writes it: the Config of a Connector is an
\* "immutable private copy" (connector.go:14).
AnswersByOneConfig ==
    \A c \in Conns : client[c].pc \in {"respond", "tls"} =>
        client[c].resp = AuthResponse(client[c].plugin)

\* A connection is returned only when max_allowed_packet is known, one of the
\* charsets was accepted and the other parameters are set (handleParams).
ParamsApplied ==
    \A c \in Conns : client[c].pc = "up" => server[c].accepted = Len(Todo)

\* Client and server never wait for each other: Connect returns.
ConnectReturns == \A c \in Conns : <>(client[c].pc \in {"up", "failed"})

=============================================================================
