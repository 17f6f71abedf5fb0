------------------------------- MODULE Links -------------------------------
(***************************************************************************)
(* Share links and what they stand for: the outbound a link is parsed into *)
(* (core/xray/link.go), and the link an outbound is shown as               *)
(* (entrylink.go).  The box's own inbounds are in Sharing.                 *)
(*                                                                         *)
(* A link is its scheme, address, credential and parameters, a vmess link  *)
(* too, whose base64 JSON names some of them differently.  Strings are     *)
(* opaque, Blank included; labels and the escaping of text are left out.   *)
(***************************************************************************)
EXTENDS Naturals, Sequences

Blank == ""
None == [protocol |-> Blank]
OrDefault(v, default) == IF v = Blank THEN default ELSE v

\* The record f, and what it lacks from g.
f ++ g == [x \in DOMAIN f \cup DOMAIN g |-> IF x \in DOMAIN f THEN f[x] ELSE g[x]]

Params == {"type", "security", "sni", "peer", "fp", "alpn", "pcs", "pinSHA256", "vcn",
           "pbk", "sid", "spx", "host", "path", "serviceName", "mode", "headerType",
           "encryption", "flow", "scy"}
Settings == {"network", "security", "sni", "fp", "alpn", "pin", "vcn", "pbk", "sid", "spx",
             "host", "path", "serviceName", "mode", "header"}

\* A query and a streamSettings object: what is absent is blank.
Query(q) == q ++ [p \in Params |-> Blank]
Stream(s) == s ++ [f \in Settings |-> Blank]
Link(scheme, address, user, q) ==
  [scheme |-> scheme, address |-> address, user |-> user, query |-> Query(q)]
Outbound(protocol, address, user, more, s) ==
  [protocol |-> protocol, address |-> address, user |-> user, more |-> more, stream |-> Stream(s)]

(***************************************************************************)
(* ParseLink.                                                              *)
(***************************************************************************)
NormNetwork(t) ==
  CASE t \in {Blank, "tcp", "raw"}   -> "tcp"
    [] t \in {"ws", "websocket"}     -> "ws"
    [] t \in {"grpc", "gun"}         -> "grpc"
    [] t \in {"h2", "http"}          -> "http"
    [] t \in {"xhttp", "splithttp"}  -> "xhttp"
    [] t \in {"kcp", "mkcp"}         -> "kcp"
    [] t \in {"httpupgrade", "quic"} -> t
    [] OTHER                         -> "tcp"

\* A fingerprint in capitals and with colons, and xray's form of it.
NormalizeCertPin(pin) == IF pin = "AA:BB" THEN "aabb" ELSE pin
CertPin(q) == [pin |-> NormalizeCertPin(OrDefault(q.pcs, q.pinSHA256)), vcn |-> q.vcn]

ApplyTLS(q, fallback) ==
  CertPin(q) ++ [security |-> "tls", sni |-> OrDefault(OrDefault(q.sni, q.peer), fallback),
                 fp |-> q.fp, alpn |-> q.alpn]

RealitySettings(q) ==
  [security |-> "reality", sni |-> OrDefault(q.sni, q.peer),
   fp |-> q.fp, pbk |-> q.pbk, sid |-> q.sid, spx |-> q.spx]

Security(q) ==
  CASE q.security = "reality"        -> RealitySettings(q)
    [] q.security \in {Blank, "none"} -> [security |-> Blank]
    [] OTHER                         -> ApplyTLS(q, Blank)

Transport(network, q) ==
  LET path == OrDefault(q.path, "/")
  IN CASE network \in {"ws", "httpupgrade", "http"} -> [path |-> path, host |-> q.host]
       [] network = "xhttp" -> [path |-> path, host |-> q.host, mode |-> OrDefault(q.mode, "auto")]
       [] network = "grpc"  -> [serviceName |-> q.serviceName,
                                mode |-> IF q.mode = "multi" THEN "multi" ELSE Blank]
       [] network = "tcp" /\ q.headerType = "http" -> [header |-> "http", host |-> q.host]
       [] OTHER -> [header |-> Blank]

BuildStream(q) ==
  LET network == NormNetwork(q.type)
  IN  [network |-> network] ++ Security(q) ++ Transport(network, q)

ParseVLESS(l) ==
  Outbound("vless", l.address, l.user,
           <<OrDefault(l.query.encryption, "none"), l.query.flow>>, BuildStream(l.query))

\* TLS, if the link does not say.
ParseTrojan(l) ==
  LET s == BuildStream(l.query)
  IN  Outbound("trojan", l.address, l.user, <<>>,
               IF s.security # Blank THEN s ELSE ApplyTLS(l.query, l.address[1]) ++ s)

\* Only the name and the pin of the certificate are looked at.
ParseHysteria2(l) ==
  Outbound("hysteria", l.address, l.user, <<>>,
           CertPin(l.query) ++ [network |-> "hysteria", security |-> "tls", sni |-> l.query.sni])

\* The path of a grpc link is its service.
ParseVMess(l) ==
  LET q == [p \in Params |->
              IF p = "serviceName" THEN l.query.path
              ELSE IF p \in {"type", "security", "host", "path", "sni", "fp", "alpn", "pcs", "vcn", "headerType"}
              THEN l.query[p] ELSE Blank]
  IN  Outbound("vmess", l.address, l.user, <<OrDefault(l.query.scy, "auto")>>, BuildStream(q))

ParseSS(l) == Outbound("shadowsocks", l.address, l.user, <<>>, [network |-> Blank])

Schemes == {"vless", "trojan", "hysteria2", "vmess", "ss"}
ParseLink(l) ==
  IF l.scheme \notin Schemes \/ l.address = <<>> \/ l.user = Blank THEN None
  ELSE CASE l.scheme = "vless"     -> ParseVLESS(l)
         [] l.scheme = "trojan"    -> ParseTrojan(l)
         [] l.scheme = "hysteria2" -> ParseHysteria2(l)
         [] l.scheme = "vmess"     -> ParseVMess(l)
         [] l.scheme = "ss"        -> ParseSS(l)

(***************************************************************************)
(* OutboundLink.                                                           *)
(***************************************************************************)
SecurityQuery(s) ==
  CASE s.security = "reality" -> [security |-> "reality", sni |-> s.sni, fp |-> s.fp,
                                  pbk |-> s.pbk, sid |-> s.sid, spx |-> s.spx]
    [] s.security = "tls" -> [security |-> "tls", sni |-> s.sni, fp |-> s.fp, alpn |-> s.alpn,
                              pcs |-> s.pin, vcn |-> s.vcn]
    [] OTHER -> [security |-> Blank]

\* Mutant of TransportQuery: a grpc link that does not say it is multi.
TransportQueryGun(network, s) ==
  CASE network \in {"ws", "httpupgrade", "http"} -> [path |-> s.path, host |-> s.host]
    [] network = "xhttp" -> [path |-> s.path, host |-> s.host, mode |-> s.mode]
    [] network = "grpc"  -> [serviceName |-> s.serviceName]
    [] network = "tcp" /\ s.header = "http" -> [headerType |-> "http", host |-> s.host]
    [] OTHER -> [headerType |-> Blank]

TransportQuery(network, s) ==
  CASE network \in {"ws", "httpupgrade", "http"} -> [path |-> s.path, host |-> s.host]
    [] network = "xhttp" -> [path |-> s.path, host |-> s.host, mode |-> s.mode]
    [] network = "grpc"  -> [serviceName |-> s.serviceName, mode |-> s.mode]
    [] network = "tcp" /\ s.header = "http" -> [headerType |-> "http", host |-> s.host]
    [] OTHER -> [headerType |-> Blank]

StreamQuery(s) ==
  LET network == NormNetwork(s.network)
  IN  [type |-> network] ++ SecurityQuery(s) ++ TransportQuery(network, s)

VLESSLink(o) ==
  Link("vless", o.address, o.user,
       [encryption |-> OrDefault(o.more[1], "none"), flow |-> o.more[2]] ++ StreamQuery(o.stream))

TrojanLink(o) ==
  LET q == StreamQuery(o.stream)
  IN  Link("trojan", o.address, o.user, [security |-> OrDefault(q.security, "none")] ++ q)

VMessLink(o) ==
  LET q == Query(StreamQuery(o.stream))
      path == IF q.type = "grpc" THEN q.serviceName ELSE q.path
  IN  Link("vmess", o.address, o.user,
           [scy |-> OrDefault(o.more[1], "auto"), path |-> path, headerType |-> OrDefault(q.headerType, "none"),
            type |-> q.type, host |-> q.host, security |-> q.security, sni |-> q.sni, alpn |-> q.alpn,
            fp |-> q.fp, pcs |-> q.pcs, vcn |-> q.vcn])

Hysteria2Link(o) ==
  Link("hysteria2", o.address, o.user, [sni |-> o.stream.sni, pinSHA256 |-> o.stream.pin])

OutboundLink(o) ==
  CASE o.protocol = "vless"       -> VLESSLink(o)
    [] o.protocol = "trojan"      -> TrojanLink(o)
    [] o.protocol = "vmess"       -> VMessLink(o)
    [] o.protocol = "hysteria"    -> Hysteria2Link(o)
    [] o.protocol = "shadowsocks" -> Link("ss", o.address, o.user, [type |-> Blank])
=============================================================================
