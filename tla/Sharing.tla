------------------------------ MODULE Sharing ------------------------------
(***************************************************************************)
(* The box's own inbounds: made from a template (template.go), given to    *)
(* xray (config.go) and to a client as a link (sharelink.go).              *)
(*                                                                         *)
(* What is generated - credentials, keys, a certificate, a path - is looked *)
(* up by the number of the call that generated it.  An inbound behind Caddy *)
(* listens on a socket, and Caddy on the public domain.                     *)
(***************************************************************************)
EXTENDS Links, FiniteSetsExt

CONSTANT Random   \* what the generators of keygen.go return: kind -> call -> value

Template(protocol, network, security) ==
  [protocol |-> protocol, network |-> network, security |-> security,
   flow |-> Blank, listen |-> "public", path |-> Blank]
At(t, path) == [t EXCEPT !.path = path]
Vision(t) == [t EXCEPT !.flow = "xtls-rprx-vision"]

Templates ==
  [ vlessReality      |-> Vision(Template("vless", "tcp", "reality")),
    vlessRealityGRPC  |-> At(Template("vless", "grpc", "reality"), "grpc"),
    vlessRealityXHTTP |-> At(Template("vless", "xhttp", "reality"), "/"),
    vlessTLS          |-> Vision(Template("vless", "tcp", "tls")),
    vlessTLSWS        |-> At(Template("vless", "ws", "tls"), "/"),
    vlessTLSXHTTP     |-> At(Template("vless", "xhttp", "tls"), "/"),
    vlessCaddyXHTTP   |-> [Template("vless", "xhttp", "none") EXCEPT !.listen = "socket"],
    vlessTLSGRPC      |-> At(Template("vless", "grpc", "tls"), "grpc"),
    vlessTLSUpgrade   |-> At(Template("vless", "httpupgrade", "tls"), "/"),
    vmessWS           |-> At(Template("vmess", "ws", "none"), "/"),
    vmessTCP          |-> Template("vmess", "tcp", "none"),
    vmessTLSWS        |-> At(Template("vmess", "ws", "tls"), "/"),
    trojanTLS         |-> Template("trojan", "tcp", "tls"),
    trojanTLSWS       |-> At(Template("trojan", "ws", "tls"), "/"),
    hysteria2         |-> Template("hysteria", "hysteria", "tls"),
    socks             |-> [Template("socks", "tcp", "none") EXCEPT !.listen = "loopback"],
    socksPublic       |-> Template("socks", "tcp", "none") ]

IsUnixInbound(in) == in.listen = "socket"
IsCaddyXHTTP(in) == in.network = "xhttp" /\ in.security = "none" /\ IsUnixInbound(in)
PublicKey(key) == "public of " \o key
Modes == {"auto", "packet-up", "stream-up", "stream-one"}
\* A path that lacks a slash at either end.
CaddyPath(path) == IF path = "p" THEN "/p/" ELSE path

\* Materialize, in call n.  A loopback socks inbound needs no credential.
Generated(what, n) == Random[what][n]
Materialize(in, n) ==
  LET reality == in.security = "reality"
      open == in.protocol = "socks" /\ in.listen = "loopback"
      newKey == reality /\ in.realityKey = Blank
      key == IF newKey THEN Generated("key", n) ELSE in.realityKey
  IN  [in EXCEPT
         !.mode = IF in.network = "xhttp" THEN OrDefault(@, "auto") ELSE @,
         !.path = IF IsCaddyXHTTP(in) THEN CaddyPath(@) ELSE @,
         !.user = IF open THEN @ ELSE OrDefault(@, Generated("user", n)),
         !.realityKey = key,
         !.realityPublicKey = IF newKey THEN PublicKey(key) ELSE @,
         !.realityShortID = IF reality THEN OrDefault(@, Generated("id", n)) ELSE @,
         !.realitySNI = IF reality THEN OrDefault(@, "www.microsoft.com") ELSE @,
         !.cert = IF in.security = "tls" THEN OrDefault(@, Generated("cert", n)) ELSE @]
Refused(in) ==
  \/ in.network = "xhttp" /\ in.mode \notin Modes
  \/ IsCaddyXHTTP(in) /\ in.publicHost = Blank

\* CreateInbound: the lowest port no other inbound has, or an error.
Lacks(in) == in.port = 0 /\ ~IsUnixInbound(in)
NextFreePort(used) ==
  LET free == (11800 .. 11899) \ used
  IN  IF free = {} THEN 0 ELSE Min(free)
Assigned(in, used) == [in EXCEPT !.port = IF Lacks(in) THEN NextFreePort(used) ELSE @]

(***************************************************************************)
(* InboundAdd: what the request says over what the template has.           *)
(***************************************************************************)
CaddyEndpoint(in, n) == [in EXCEPT !.path = "/" \o Generated("path", n) \o "/"]

NewInboundFromTemplate(t, n) ==
  LET blank == [port |-> 0, publicHost |-> Blank, host |-> Blank, mode |-> Blank, tlsSNI |-> Blank,
                realitySNI |-> Blank, user |-> Blank, realityKey |-> Blank, realityPublicKey |-> Blank,
                realityShortID |-> Blank, cert |-> Blank, users |-> {}]
      in == t ++ blank
  IN  Materialize(IF IsCaddyXHTTP(in) THEN [CaddyEndpoint(in, n) EXCEPT !.mode = "packet-up"] ELSE in, n)

InboundAdd(req, n) ==
  Materialize([NewInboundFromTemplate(req.template, n) EXCEPT
                 !.publicHost = req.publicHost, !.path = OrDefault(req.path, @),
                 !.mode = OrDefault(req.mode, @)], n)

\* InboundSetConfig: what was blanked is generated anew, but for the port.
InboundSetConfig(cur, edit, n) ==
  LET edited == Materialize(edit ++ cur, n)
  IN  [edited EXCEPT !.port = IF Lacks(edited) THEN cur.port ELSE @]

\* DuplicateInbound: what an inbound has of its own is blanked, though not
\* what a hysteria or a socks client gives.
DuplicateInbound(src, n) ==
  LET dup == [src EXCEPT !.port = 0, !.users = {},
                !.realityKey = Blank, !.realityPublicKey = Blank, !.realityShortID = Blank, !.cert = Blank,
                !.user = IF src.protocol \in {"hysteria", "socks"} THEN @ ELSE Blank]
  IN  Materialize(IF IsCaddyXHTTP(src) THEN CaddyEndpoint(dup, n) ELSE dup, n)

\* NewInboundUser: a credential for one more client.
TakesUsers(in) == in.protocol # "socks"
NewInboundUser(n) == [credential |-> Generated("user", n), enabled |-> TRUE]

(***************************************************************************)
(* ShareLink, for the inbound's own credential or that of another user.    *)
(***************************************************************************)
CertSHA256(cert) == IF cert = Blank THEN Blank ELSE "sha256 of " \o cert

\* Mutant of SelfSignedPin: the client is trusted to skip the check.
SelfSignedNoPin(in) == [alpn |-> Blank]

\* allowInsecure is there too, and no longer means anything.
SelfSignedPin(in) == [pcs |-> CertSHA256(in.cert)]

ShareTLS(in) == [security |-> "tls", fp |-> "chrome", sni |-> in.tlsSNI] ++ SelfSignedPin(in)
ShareReality(in) ==
  [security |-> "reality", sni |-> in.realitySNI, fp |-> "chrome",
   pbk |-> in.realityPublicKey, sid |-> in.realityShortID]

\* A host is only said if the inbound has one.
HostQuery(in) == IF in.host = Blank THEN <<>> ELSE [host |-> in.host]
SetTransportQuery(in) ==
  CASE in.network \in {"ws", "httpupgrade"} -> [path |-> OrDefault(in.path, "/")] ++ HostQuery(in)
    [] in.network = "xhttp" -> [path |-> OrDefault(in.path, "/"),
                                mode |-> OrDefault(in.mode, "auto")] ++ HostQuery(in)
    [] in.network = "grpc"  -> [serviceName |-> in.path]
    [] OTHER                -> <<>>

ShareHost(in, host) == OrDefault(host, OrDefault(in.publicHost, "SERVER_IP"))
SharePort(in) == IF IsCaddyXHTTP(in) THEN 443 ELSE in.port

\* Caddy's TLS is that of the public domain.
ShareVLESS(in, host) ==
  SetTransportQuery(in)
    ++ (CASE IsCaddyXHTTP(in) -> [security |-> "tls", sni |-> host, fp |-> "chrome", host |-> host]
          [] in.security = "reality" -> ShareReality(in)
          [] in.security = "tls"     -> ShareTLS(in)
          [] OTHER                   -> <<>>)
    ++ [encryption |-> "none", type |-> in.network, flow |-> in.flow]
ShareTrojan(in) ==
  SetTransportQuery(in) ++ (IF in.security = "tls" THEN ShareTLS(in) ELSE <<>>)
    ++ [type |-> in.network]
ShareVMess(in) ==
  [type |-> in.network, headerType |-> "none", scy |-> "auto", host |-> in.host, path |-> in.path]
    ++ (IF in.security = "tls"
        THEN [security |-> "tls", sni |-> in.tlsSNI, pcs |-> CertSHA256(in.cert)]
        ELSE [security |-> Blank])
ShareHysteria2(in) == [pinSHA256 |-> CertSHA256(in.cert), sni |-> in.tlsSNI]

ShareLink(in, override) ==
  LET host == ShareHost(in, override)
      L(scheme, q) == Link(scheme, <<host, SharePort(in)>>, in.user, q)
  IN CASE in.protocol = "vless"    -> L("vless", ShareVLESS(in, host))
       [] in.protocol = "vmess"    -> L("vmess", ShareVMess(in))
       [] in.protocol = "trojan"   -> L("trojan", ShareTrojan(in))
       [] in.protocol = "hysteria" -> L("hysteria2", ShareHysteria2(in))
       [] in.protocol = "socks"    -> L("socks", [type |-> Blank])
ShareLinkForUser(in, override, u) == ShareLink([in EXCEPT !.user = u.credential], override)

\* The links as the daemon shows them, ip being what it found out about itself.
InboundInfo(in, ip) == ShareLink(in, OrDefault(in.publicHost, ip))
InboundUserInfo(in, ip, u) == ShareLinkForUser(in, OrDefault(in.publicHost, ip), u)

(***************************************************************************)
(* buildInbound: what xray serves.                                         *)
(***************************************************************************)
InboundClients(in) == {in.user} \cup {u.credential : u \in {v \in in.users : v.enabled}}

InboundSecurity(in) ==
  CASE in.security = "reality" -> [security |-> "reality", names |-> {in.realitySNI},
                                   key |-> in.realityKey, ids |-> {in.realityShortID}]
    [] in.security = "tls" -> [security |-> "tls", cert |-> in.cert]
    [] OTHER -> [security |-> Blank]

InboundTransport(in) ==
  CASE in.network \in {"ws", "httpupgrade"} -> [path |-> OrDefault(in.path, "/"), host |-> in.host]
    [] in.network = "xhttp" -> [path |-> OrDefault(in.path, "/"), host |-> in.host,
                                mode |-> OrDefault(in.mode, "auto")]
    [] in.network = "grpc" -> [serviceName |-> in.path]
    [] OTHER -> [path |-> Blank]

BuildInbound(in) ==
  [protocol |-> in.protocol, port |-> in.port, clients |-> InboundClients(in), flow |-> in.flow,
   network |-> in.network, security |-> InboundSecurity(in), transport |-> InboundTransport(in)]
=============================================================================
