----------------------------- MODULE MCConnect -----------------------------
(***************************************************************************)
(* Connect with configurations of every kind, and servers that agree about *)
(* TLS, or do not.                                                         *)
(***************************************************************************)
EXTENDS Connect

Config(tls, fallback, pubKey, usable, maxPacket, charsets, params) ==
    [tls |-> tls, unix |-> FALSE, fallback |-> fallback, pubKey |-> pubKey, usable |-> usable, collation |-> TRUE,
     maxPacket |-> maxPacket, charsets |-> charsets, params |-> params]

MCConfigs == {
    Config(FALSE, FALSE, FALSE, {"native", "sha2", "sha256"}, TRUE, 0, FALSE),
    Config(FALSE, FALSE, TRUE, {"sha2", "sha256"}, TRUE, 0, FALSE),
    [Config(FALSE, FALSE, FALSE, {"sha2", "sha256"}, TRUE, 0, FALSE) EXCEPT !.unix = TRUE],
    Config(TRUE, TRUE, FALSE, {"native", "sha2", "sha256", "clear"}, TRUE, 0, FALSE),
    Config(TRUE, FALSE, FALSE, {"native", "sha2"}, FALSE, 2, TRUE),
    [Config(FALSE, FALSE, FALSE, {"native"}, FALSE, 1, FALSE) EXCEPT !.collation = FALSE]}

\* TLS where the server offers it.
Preferred == {Config(TRUE, TRUE, FALSE, {"native", "sha256"}, TRUE, 0, FALSE)}

SameOffers == {[c \in Conns |-> ssl] : ssl \in BOOLEAN}

AnyOffers == [Conns -> BOOLEAN]
=============================================================================
