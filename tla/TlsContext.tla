----------------------------- MODULE TlsContext -----------------------------
(***************************************************************************)
(* The TLS set-up of a process: what socket_ssl_context_create makes of    *)
(* the files it is given, and whom a process with that set-up talks to.    *)
(*                                                                         *)
(* A set-up is a record [cert, key, ca, max_proto].  cert is the issuer of *)
(* the certificate and ca the issuer that is trusted, or NULL, or a file   *)
(* that cannot be read; key is NULL, unreadable, or a key that matches     *)
(* the certificate or does not; max_proto is max_proto_version.            *)
(***************************************************************************)

CONSTANTS
  Client,      \* client processes
  Issuer,      \* certificate authorities
  ServerTls,   \* the set-up of the server
  ClientTls    \* the set-up of each client

Files == {"NULL", "unreadable"}
Tls == [cert : Files \cup Issuer, key : Files \cup {"match", "mismatch"},
        ca : Files \cup Issuer, max_proto : {0, "TLS1_2_VERSION"}]

ASSUME TlsAssumption ==
  /\ ServerTls \in Tls
  /\ ClientTls \in [Client -> Tls]

\* socket_ssl_context_load_certs does nothing unless it is given both files.
CertsGiven(tls) == tls.cert # "NULL" /\ tls.key # "NULL"

\* socket_ssl_context_create and what it calls end the process.
ContextExits(role, tls) ==
  \/ role = "server" /\ ~CertsGiven(tls)
  \/ CertsGiven(tls) /\ (tls.cert = "unreadable" \/ tls.key # "match")
  \/ tls.ca = "unreadable"

\* Mutant: a server asks for certificates and does not insist.
VerifyModeLenient(role, tls) == IF tls.ca = "NULL" THEN {} ELSE {"PEER"}

\* socket_ssl_context_load_peer_CA: without a CA nobody is verified.
VerifyMode(role, tls) ==
  IF tls.ca = "NULL" THEN {}
  ELSE IF role = "client" THEN {"PEER"}
  ELSE {"PEER", "FAIL_IF_NO_PEER_CERT"}

\* What OpenSSL makes of the peer's certificate in this mode.
PeerAccepted(role, tls, peer_tls) ==
  "PEER" \in VerifyMode(role, tls) =>
    IF CertsGiven(peer_tls) THEN peer_tls.cert = tls.ca
    ELSE "FAIL_IF_NO_PEER_CERT" \notin VerifyMode(role, tls)

\* Clients that end before they speak TLS, that do not accept the server, that
\* the server does not accept, and that speak TLS 1.3 with it.
Misconfigured == {c \in Client : ContextExits("client", ClientTls[c])}
Distrusting == {c \in Client : ~PeerAccepted("client", ClientTls[c], ServerTls)}
Rejected == {c \in Client : ~PeerAccepted("server", ServerTls, ClientTls[c])}
SpeaksTls13 == {c \in Client : ServerTls.max_proto = 0 /\ ClientTls[c].max_proto = 0}

\* The clients that the server can come to serve.
Trusted == Client \ (Misconfigured \cup Distrusting \cup Rejected)
=============================================================================
