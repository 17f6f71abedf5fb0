------------------------------ MODULE MCProbe ------------------------------
(* Every template; two hysteria nodes of one server among other nodes, and  *)
(* one link of every kind.                                                  *)
EXTENDS Probe, TLC

MCRandom == [what \in {"user", "key", "id", "cert", "path"} |-> [n \in 0 .. MaxCalls |-> what \o ToString(n)]]

Request(name, publicHost, path, mode) ==
  [template |-> Templates[name], publicHost |-> publicHost, path |-> path, mode |-> mode]
MCRequests ==
  {Request(name, h, "", "") : name \in DOMAIN Templates, h \in {"", "example.com"}}
    \cup {Request(name, "example.com", "p", "stream-up") : name \in DOMAIN Templates}

\* An operator blanks what is to be generated anew, or moves the inbound to
\* another transport or security.  Bound: none that a link has no word for,
\* as reality and the mode of xhttp are for vmess and reality for trojan.
Anew == {[user |-> "", realityKey |-> "", cert |-> "", port |-> 0], [host |-> "cdn"], [tlsSNI |-> "example.org"]}
ToGRPC == [network |-> "grpc", path |-> "g"]
Moved == {ToGRPC, [network |-> "xhttp", path |-> "/y"]}
MCEdits ==
  [vless |-> Anew \cup Moved \cup {[security |-> "tls"], [security |-> "reality"]},
   vmess |-> Anew \cup {ToGRPC, [security |-> "tls"]},
   trojan |-> Anew \cup Moved,
   hysteria |-> Anew,
   caddy |-> Anew \cup {[path |-> "p"]},
   socks |-> {}]

At443(host) == <<host, 443>>
Hysteria(user, port) == Link("hysteria2", <<"h", port>>, user, [sni |-> "s", pinSHA256 |-> "AA:BB"])
Plain(user) == Link("vless", At443("v"), user, [type |-> "ws", security |-> "tls", path |-> "/x"])

Types == {"", "raw", "websocket", "gun", "h2", "splithttp", "mkcp", "quic", "httpupgrade"}
Securities ==
  {[security |-> "none"],
   [security |-> "tls", sni |-> "s", pcs |-> "AA:BB", vcn |-> "n", alpn |-> "h2"],
   [security |-> "reality", peer |-> "s", pbk |-> "k", sid |-> "1"]}
Extras == {[headerType |-> "http", host |-> "x"], [mode |-> "multi", path |-> "/x", serviceName |-> "g"]}
OneLink ==
  {<<Link(scheme, At443("v"), "u", [type |-> t] @@ s @@ e)>> :
      scheme \in Schemes \cup {"wireguard"}, t \in Types, s \in Securities, e \in Extras}

Mixes ==
  {<<Hysteria("a", 1), Hysteria("b", 1), Plain("a")>>, <<Hysteria("a", 1), Plain("a"), Hysteria("b", 1)>>,
   <<Hysteria("a", 1), Hysteria("b", 2), Hysteria("a", 2)>>}

MCBodies == OneLink \cup Mixes
MCVias == {None, ParseLink(Hysteria("a", 1))}
=============================================================================
