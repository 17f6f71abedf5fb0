------------------------------- MODULE Probe -------------------------------
(***************************************************************************)
(* The inbounds of this box (Sharing) and what their links are worth to     *)
(* whoever subscribes to them, which is found out as the Test call          *)
(* (server_probe.go) does with a throwaway xray (core/xray/probe.go): the   *)
(* nodes of a subscription are dialled in batches, each batch through an    *)
(* xray of its own.  The subscriber's box runs the same program.            *)
(*                                                                          *)
(* What a node is worth is chosen as it is subscribed to: "good" carries    *)
(* traffic, "dead" does not, and "poison" is an outbound xray does not      *)
(* start with.  A link of this box's is good if it reaches an inbound.      *)
(***************************************************************************)
EXTENDS Sharing, SequencesExt

CONSTANTS Requests,    \* what InboundAdd is asked for
          Edits,       \* what an operator writes over an inbound, by its kind
          PublicIPs,   \* what publicIP finds out about this box, if anything
          Bodies,      \* the links of other servers a subscription may have
          Vias,        \* what its nodes are dialled through: an outbound, or None
          Batch,       \* nodes per throwaway xray
          Parallel,    \* nodes tried at a time
          Attempts,    \* requests per node
          MaxCalls,    \* bound: calls about inbounds
          MaxHiccups   \* bound: times xray fails to start for no fault of a node

ASSUME ProbeAssumption ==
  /\ Attempts \in Nat \ {0} /\ MaxCalls \in Nat
  /\ \A body \in Bodies : body \in Seq(ToSet(body))
  /\ \A req \in Requests : \E name \in DOMAIN Templates : req.template = Templates[name]

\* No credential is generated twice, and a fingerprint is in xray's form.
ASSUME RandomAssumption ==
  \A n \in 0 .. MaxCalls - 1 :
    /\ Generated("user", n) # Blank
    /\ \A m \in 0 .. MaxCalls - 1 : Generated("user", m) = Generated("user", n) => m = n
    /\ NormalizeCertPin(CertSHA256(Generated("cert", n))) = CertSHA256(Generated("cert", n))

\* The transports and securities that a link has words for, by kind of inbound.
Spoken == {"tcp", "ws", "httpupgrade", "grpc"}
Sayable ==
  [ vless    |-> [networks |-> Spoken \cup {"xhttp"}, securities |-> {"none", "tls", "reality"}],
    caddy    |-> [networks |-> {"xhttp"}, securities |-> {"none"}],
    vmess    |-> [networks |-> Spoken, securities |-> {"none", "tls"}],
    trojan   |-> [networks |-> Spoken \cup {"xhttp"}, securities |-> {"tls"}],
    hysteria |-> [networks |-> {"hysteria"}, securities |-> {"tls"}],
    socks    |-> [networks |-> {"tcp"}, securities |-> {"none"}] ]

\* Bound: an operator changes no inbound to what its link has no word for, and
\* blanks what is generated, and the port, but does not make it up.
ASSUME EditsAssumption ==
  \A kind \in DOMAIN Edits : \A edit \in Edits[kind] :
    /\ kind \in DOMAIN Sayable
    /\ DOMAIN edit \cap {"protocol", "listen", "users", "realityPublicKey"} = {}
    /\ \A f \in DOMAIN edit \cap {"user", "realityKey", "cert"} : edit[f] = Blank
    /\ "port" \in DOMAIN edit => edit.port = 0
    /\ "network" \in DOMAIN edit => edit.network \in Sayable[kind].networks
    /\ "security" \in DOMAIN edit => edit.security \in Sayable[kind].securities

VARIABLES inbounds,    \* the inbounds of this box
          calls,       \* calls that generated something
          items,       \* what is tested
          fate,        \* what each of them is worth
          queue,       \* the batches left, the first one the one at hand
          tries,       \* requests made to each of that batch
          result,      \* what is found
          latency,     \* what is stored for each node
          ctx,         \* the caller is still there
          hiccups,
          pc
probeVars == <<inbounds, calls, items, fate, queue, tries, result, latency, ctx, hiccups, pc>>
given == <<inbounds, calls, items, fate>>
test == <<items, fate, queue, tries, result, latency, ctx, hiccups, pc>>

Stored == 9   \* what was stored for every node before the test

(***************************************************************************)
(* The calls about inbounds.                                               *)
(***************************************************************************)
Kind(in) == IF IsCaddyXHTTP(in) THEN "caddy" ELSE in.protocol
Used(ins) == {ins[k].port : k \in DOMAIN ins} \ {0}
Managing == pc = "managing" /\ calls < MaxCalls /\ calls' = calls + 1 /\ UNCHANGED test

Add ==
  /\ Managing
  /\ inbounds = <<>>
  /\ \E req \in Requests :
        LET in == InboundAdd(req, calls)
        IN  ~Refused(in) /\ ~Lacks(Assigned(in, {})) /\ inbounds' = <<Assigned(in, {})>>
Edit ==
  /\ Managing
  /\ \E k \in DOMAIN inbounds :
        /\ Kind(inbounds[k]) \in DOMAIN Edits
        /\ \E edit \in Edits[Kind(inbounds[k])] :
             LET in == InboundSetConfig(inbounds[k], edit, calls)
             IN  ~Refused(in) /\ inbounds' = [inbounds EXCEPT ![k] = in]
Duplicate ==
  /\ Managing
  /\ \E k \in DOMAIN inbounds :
        LET in == Assigned(DuplicateInbound(inbounds[k], calls), Used(inbounds))
        IN  ~Lacks(in) /\ inbounds' = Append(inbounds, in)
UserAdd ==
  /\ Managing
  /\ \E k \in DOMAIN inbounds :
        /\ TakesUsers(inbounds[k])
        /\ inbounds' = [inbounds EXCEPT ![k].users = @ \cup {NewInboundUser(calls)}]
UserDisable ==
  /\ Managing
  /\ \E k \in DOMAIN inbounds : \E u \in inbounds[k].users :
        /\ u.enabled
        /\ inbounds' = [inbounds EXCEPT ![k].users = (@ \ {u}) \cup {[u EXCEPT !.enabled = FALSE]}]

(***************************************************************************)
(* The body, and the nodes it has: a link that is not understood and an    *)
(* outbound that is there already are passed over.                         *)
(***************************************************************************)
SharedLinks(in, ip) == {InboundInfo(in, ip)} \cup {InboundUserInfo(in, ip, u) : u \in in.users}

ParseSubscriptionBody(lines) ==
  LET Parsed(nodes, link) ==
        LET o == ParseLink(link)
        IN  IF o = None \/ o \in ToSet(nodes) THEN nodes ELSE Append(nodes, o)
  IN  FoldLeft(Parsed, <<>>, lines)

(***************************************************************************)
(* What xray's servers answer: an outbound reaches an inbound.             *)
(***************************************************************************)
SecurityAgrees(o, sv) ==
  CASE sv.security.security = "reality" ->
         /\ o.security = "reality"
         /\ o.sni \in sv.security.names
         /\ o.sid \in sv.security.ids
         /\ o.pbk = PublicKey(sv.security.key)
    [] sv.security.security = "tls" -> o.security = "tls" /\ o.pin = CertSHA256(sv.security.cert)
    [] OTHER -> o.security = IF sv.port = 0 THEN "tls" ELSE Blank
TransportAgrees(o, sv) ==
  \A f \in DOMAIN sv.transport :
     CASE f = "path" -> sv.network \in {"ws", "httpupgrade", "xhttp"} => o.path = sv.transport.path
       [] f = "mode" -> sv.transport.mode \in {"auto", o.mode}
       [] f = "host" -> sv.transport.host \in {Blank, o.host}
       [] f = "serviceName" -> o.serviceName = sv.transport.serviceName
Reaches(o, sv) ==
  /\ o.protocol = sv.protocol
  /\ o.address[2] = IF sv.port = 0 THEN 443 ELSE sv.port
  /\ o.user \in sv.clients
  /\ o.protocol = "vless" => o.more[2] = sv.flow
  /\ o.stream.network = sv.network
  /\ SecurityAgrees(o.stream, sv)
  /\ TransportAgrees(o.stream, sv)

(***************************************************************************)
(* planProbeBatches: the first batch with room that has no other node of   *)
(* the same hysteria server, since xray's client has one session for all   *)
(* of them.                                                                *)
(***************************************************************************)
\* What a node's listener leads to: the node, by way of the one it names and
\* no other, or nothing.
Dialled(it) == IF it.via = None THEN it.out ELSE it.via

HysteriaEndpoint(o) == IF o.protocol = "hysteria" THEN o.address ELSE <<>>
ProbeHysteriaEndpoint(it) == HysteriaEndpoint(Dialled(it))
SameSession(its, i, j) ==
  LET ep == ProbeHysteriaEndpoint(its[i])
  IN  ep # <<>> /\ ep = ProbeHysteriaEndpoint(its[j])

\* Mutant of PlanProbeBatches: batches are filled in order.
PlanProbeBatchesFull(its, size) ==
  LET Place(batches, i) ==
        LET fits == {b \in DOMAIN batches : Len(batches[b]) < size}
        IN  IF fits = {} THEN Append(batches, <<i>>)
            ELSE [batches EXCEPT ![Min(fits)] = Append(@, i)]
  IN  FoldLeft(Place, <<>>, [i \in DOMAIN its |-> i])

PlanProbeBatches(its, size) ==
  LET Fits(b, i) == Len(b) < size /\ \A j \in ToSet(b) : ~SameSession(its, i, j)
      Place(batches, i) ==
        LET fits == {b \in DOMAIN batches : Fits(batches[b], i)}
        IN  IF fits = {} THEN Append(batches, <<i>>)
            ELSE [batches EXCEPT ![Min(fits)] = Append(@, i)]
  IN  FoldLeft(Place, <<>>, [i \in DOMAIN its |-> i])

(***************************************************************************)
(* Test is called for the nodes of a subscription, to links of this box or *)
(* of others, each perhaps dialled through another as chain probes do.     *)
(***************************************************************************)
Fates == {"good", "dead", "poison"}
Untested == [ms |-> 0, passed |-> 0, err |-> Blank]
Items(body, via) ==
  LET nodes == ParseSubscriptionBody(body)
  IN  [i \in DOMAIN nodes |-> [out |-> nodes[i], via |-> via]]
ReachesOne(o) == \E k \in DOMAIN inbounds : Reaches(o, BuildInbound(inbounds[k]))

Init ==
  /\ inbounds = <<>> /\ calls = 0
  /\ items = <<>> /\ fate = <<>> /\ queue = <<>> /\ tries = <<>> /\ result = <<>> /\ latency = <<>>
  /\ ctx = TRUE
  /\ hiccups = 0
  /\ pc = "managing"

\* Bound: links of others are only looked at when there is no inbound, and
\* those of this box while it could still change them.
Subscribed(body, via) ==
  /\ items' = Items(body, via)
  /\ fate' \in {f \in [DOMAIN items' -> Fates] :
                  \A i \in DOMAIN items' : ReachesOne(items'[i].out) => f[i] = "good"}
  /\ queue' = PlanProbeBatches(items', Batch)
  /\ tries' = [i \in DOMAIN items' |-> 0]
  /\ result' = [i \in DOMAIN items' |-> Untested]
  /\ latency' = [i \in DOMAIN items' |-> Stored]
Subscribe ==
  /\ pc = "managing"
  /\ pc' = "start"
  /\ IF inbounds = <<>>
     THEN \E body \in Bodies, via \in Vias : Subscribed(body, via)
     ELSE /\ calls < MaxCalls
          /\ \E ip \in PublicIPs :
               Subscribed(SetToSeq(UNION {SharedLinks(inbounds[k], ip) : k \in DOMAIN inbounds}), None)
  /\ UNCHANGED <<inbounds, calls, ctx, hiccups>>

(***************************************************************************)
(* probeBatch: an xray that does not come up is tried again with either    *)
(* half, until the one node it does not start with is found.               *)
(***************************************************************************)
batch == ToSet(Head(queue))

StartXray ==
  /\ pc = "start" /\ queue # <<>> /\ ctx
  /\ \A i \in batch : fate[i] # "poison"
  /\ tries' = [i \in DOMAIN items |-> IF i \in batch THEN 0 ELSE Attempts]
  /\ pc' = "probing"
  /\ UNCHANGED <<given, queue, result, latency, ctx, hiccups>>

HalvesSkip(b) ==
  LET half == Len(b) \div 2
  IN  <<SubSeq(b, 1, half), SubSeq(b, half + 2, Len(b))>>

Halves(b) ==
  LET half == Len(b) \div 2
  IN  <<SubSeq(b, 1, half), SubSeq(b, half + 1, Len(b))>>

StartFails ==
  /\ pc = "start" /\ queue # <<>> /\ ctx
  /\ \/ (\E i \in batch : fate[i] = "poison") /\ UNCHANGED hiccups
     \/ hiccups < MaxHiccups /\ hiccups' = hiccups + 1
  /\ IF Len(Head(queue)) = 1
     THEN /\ result' = [result EXCEPT ![Head(queue)[1]].err = "start"]
          /\ queue' = Tail(queue)
     ELSE /\ queue' = Halves(Head(queue)) \o Tail(queue)
          /\ UNCHANGED result
  /\ UNCHANGED <<given, tries, latency, ctx, pc>>

\* A batch that was cancelled, and the ones after it.
StartCancelled ==
  /\ pc = "start" /\ queue # <<>> /\ ~ctx
  /\ queue' = <<>>
  /\ UNCHANGED <<given, tries, result, latency, ctx, hiccups, pc>>

(***************************************************************************)
(* One request through node i: it comes back in ms, or not.  A hysteria    *)
(* server answers a session, whichever of the batch's nodes opened it.     *)
(***************************************************************************)
MayPass(i) ==
  \/ fate[i] = "good"
  \/ \E j \in batch : SameSession(items, i, j) /\ fate[j] = "good"
Running == {i \in batch : tries[i] \in 1..Attempts - 1}

Passed(r, ms) ==
  [r EXCEPT !.passed = @ + 1, !.ms = IF r.passed = 0 \/ ms < @ THEN ms ELSE @]
Failed(r, last) == IF last /\ r.passed = 0 THEN [r EXCEPT !.err = "request"] ELSE r

ProbeThrough(i) ==
  /\ pc = "probing"
  /\ i \in batch /\ tries[i] < Attempts
  /\ i \in Running \/ Cardinality(Running) < Parallel
  /\ tries' = [tries EXCEPT ![i] = @ + 1]
  /\ \/ /\ ctx /\ MayPass(i)
        /\ \E ms \in 1..2 : result' = [result EXCEPT ![i] = Passed(@, ms)]
     \/ result' = [result EXCEPT ![i] = Failed(@, tries'[i] = Attempts)]
  /\ UNCHANGED <<given, queue, latency, ctx, hiccups, pc>>

EndBatch ==
  /\ pc = "probing"
  /\ \A i \in batch : tries[i] = Attempts
  /\ queue' = IF ctx THEN Tail(queue) ELSE <<>>
  /\ pc' = "start"
  /\ UNCHANGED <<given, tries, result, latency, ctx, hiccups>>

(***************************************************************************)
(* Test stores what it found, a node it never tried included.              *)
(***************************************************************************)
Test ==
  /\ pc = "start" /\ queue = <<>>
  /\ latency' = [i \in DOMAIN items |-> result[i].ms]
  /\ pc' = "done"
  /\ UNCHANGED <<given, queue, tries, result, ctx, hiccups>>

Cancel ==
  /\ ctx /\ pc \in {"start", "probing"}
  /\ ctx' = FALSE
  /\ UNCHANGED <<given, queue, tries, result, latency, hiccups, pc>>

Step ==
  \/ StartXray \/ StartFails \/ StartCancelled
  \/ \E i \in DOMAIN items : ProbeThrough(i)
  \/ EndBatch \/ Test
Next ==
  \/ Add \/ Edit \/ Duplicate \/ UserAdd \/ UserDisable
  \/ Subscribe \/ Step \/ Cancel

Spec == Init /\ [][Next]_probeVars

(***************************************************************************)
(* Properties.                                                             *)
(***************************************************************************)
\* A figure is only shown or stored for a node that carries traffic itself,
\* not for one that shares a server with such a node (planProbeBatches).
NoFalsePass ==
  \A i \in DOMAIN items :
     result[i].passed > 0 \/ latency[i] \in 1..2 => fate[i] = "good"

\* The halving ends with exactly the nodes xray does not start with blamed
\* for it, and every other node tried as often as was asked (probeBatch).
BlameIsRight ==
  pc = "done" /\ ctx /\ hiccups = 0 =>
     \A i \in DOMAIN items :
        /\ result[i].err = "start" <=> fate[i] = "poison"
        /\ result[i].err = Blank <=> result[i].passed > 0
        /\ result[i].passed <= Attempts

\* A link a client is handed, for the inbound's own credential or a user's,
\* is read back as an outbound that reaches that inbound as xray serves it,
\* unless the user is disabled, and never another one: whatever an inbound is
\* made from, copied or edited to, both sides agree on all they must.
Reaching(in, link) ==
  LET o == ParseLink(link)
  IN  o # None /\ Reaches(o, BuildInbound(in))
ShareReaches ==
  pc = "managing" =>
    \A k, m \in DOMAIN inbounds, ip \in PublicIPs :
       LET in == inbounds[k]
       IN  TakesUsers(in) =>
             /\ Reaching(inbounds[m], InboundInfo(in, ip)) <=> k = m
             /\ \A u \in in.users :
                  Reaching(inbounds[m], InboundUserInfo(in, ip, u)) <=> k = m /\ u.enabled

\* The link a node is shown as is read back as the same node: nothing the
\* node was told to do is dropped on the way (but hysteria's name to verify).
LinkRoundTrips ==
  \A i \in DOMAIN items :
     LET o == items[i].out
         kept == IF o.protocol = "hysteria" THEN [o EXCEPT !.stream.vcn = Blank] ELSE o
     IN  ParseLink(OutboundLink(o)) = kept
=============================================================================
