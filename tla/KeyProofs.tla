----------------------------- MODULE KeyProofs -----------------------------
(* Proofs about KeySearch with its web server and alerts: no alert vanishes, *)
(* the index of the key set is exact, and every accepted frame is published  *)
(* once, decrypted if a key for it was there, for every set of keys, frames, *)
(* specs and connections and every size of the queues and tables.            *)
EXTENDS KeySearch, SequenceTheorems, TLAPS

-----------------------------------------------------------------------------
(* Alerts *)

\* The webhook's books balance; nothing is freed unsent before the thread left.
HookInv ==
  /\ hookq \in Seq(Allowlist)
  /\ hook.pc \in {"loop", "post", "gone"}
  /\ tally \in [posted : Nat, dropped : Nat, unsent : Nat]
  /\ owed \in Nat
  /\ hook.pc # "gone" => tally.unsent = 0
  /\ AlertsAccounted

LEMMA HookPublish ==
  ASSUME HookInv, NEW e, WebhookPublish(e)
  PROVE  HookInv'
<1>1. CASE ~EventAllowed(e)
  BY <1>1 DEF WebhookPublish, HookInv, AlertsAccounted
<1>2. CASE EventAllowed(e) /\ Len(hookq) >= HookCap
  <2>1. /\ UNCHANGED <<hookq, hook>> /\ owed' = owed + 1
        /\ tally' = [tally EXCEPT !.dropped = @ + 1]
    BY <1>2 DEF WebhookPublish
  <2>2. tally' \in [posted : Nat, dropped : Nat, unsent : Nat]
        /\ tally'.posted = tally.posted /\ tally'.dropped = tally.dropped + 1
        /\ tally'.unsent = tally.unsent
    BY <2>1 DEF HookInv
  <2>3. Len(hookq) \in Nat /\ tally.posted \in Nat /\ tally.dropped \in Nat /\ tally.unsent \in Nat
    BY DEF HookInv
  <2>4. AlertsAccounted'
    BY <2>1, <2>2, <2>3, SMTT(30) DEF HookInv, AlertsAccounted
  <2> QED
    BY <2>1, <2>2, <2>4 DEF HookInv
<1>3. CASE EventAllowed(e) /\ ~(Len(hookq) >= HookCap)
  <2>1. /\ UNCHANGED <<tally, hook>> /\ owed' = owed + 1
        /\ hookq' = Append(hookq, e) /\ e \in Allowlist
    BY <1>3 DEF WebhookPublish, EventAllowed
  <2>2. hookq' \in Seq(Allowlist) /\ Len(hookq') = Len(hookq) + 1 /\ Len(hookq) \in Nat
    BY <2>1 DEF HookInv
  <2> QED
    BY <2>1, <2>2, SMTT(30) DEF HookInv, AlertsAccounted
<1> QED
  BY <1>1, <1>2, <1>3

LEMMA HookThreadKeeps ==
  ASSUME HookInv, HookTake \/ PostOne
  PROVE  HookInv'
<1>1. CASE HookTake /\ hookRun
  <2>1. /\ hook.pc = "loop" /\ hookq # <<>> /\ hook'.pc = "post"
        /\ hookq' = Tail(hookq) /\ UNCHANGED <<tally, owed>>
    BY <1>1 DEF HookTake
  <2>2. hookq' \in Seq(Allowlist) /\ Len(hookq) \in Nat /\ Len(hookq') = Len(hookq) - 1
    BY <2>1 DEF HookInv
  <2> QED
    BY <2>1, <2>2 DEF HookInv, AlertsAccounted
<1>2. CASE HookTake /\ ~hookRun
  <2>1. /\ hook.pc = "loop" /\ hook'.pc = "gone" /\ hookq' = <<>>
        /\ tally' = [tally EXCEPT !.unsent = Len(hookq)] /\ UNCHANGED owed
    BY <1>2 DEF HookTake
  <2>2. Len(hookq) \in Nat
    BY DEF HookInv
  <2>3. tally' \in [posted : Nat, dropped : Nat, unsent : Nat]
        /\ tally'.posted = tally.posted /\ tally'.dropped = tally.dropped
        /\ tally'.unsent = Len(hookq) /\ tally.unsent = 0
    BY <2>1, <2>2 DEF HookInv
  <2>4. hookq' \in Seq(Allowlist) /\ Len(hookq') = 0
    BY <2>1
  <2> QED
    BY <2>1, <2>2, <2>3, <2>4 DEF HookInv, AlertsAccounted
<1>3. CASE PostOne
  <2>1. /\ hook.pc = "post" /\ hook'.pc = "loop" /\ UNCHANGED <<hookq, owed>>
        /\ tally' = [tally EXCEPT !.posted = @ + 1]
    BY <1>3 DEF PostOne
  <2>2. Len(hookq) \in Nat
    BY DEF HookInv
  <2>3. tally' \in [posted : Nat, dropped : Nat, unsent : Nat]
        /\ tally'.posted = tally.posted + 1 /\ tally'.dropped = tally.dropped
        /\ tally'.unsent = tally.unsent
    BY <2>1 DEF HookInv
  <2> QED
    BY <2>1, <2>2, <2>3 DEF HookInv, AlertsAccounted
<1> QED
  BY <1>1, <1>2, <1>3

\* What a step may do to the webhook.
LEMMA HookSteps ==
  ASSUME Next
  PROVE  \/ UNCHANGED hookVars
         \/ \E e : WebhookPublish(e)
         \/ HookTake \/ PostOne
         \/ WebhookStop
<1>1. CASE LoadKeys
  BY <1>1 DEF LoadKeys, outVars, alertVars
<1>2. CASE \E f \in Frames : Decode(f)
  BY <1>2, Zenon DEF Decode, outVars, alertVars
<1>3. CASE RxStep
  BY <1>3, Zenon DEF RxStep, ReplayCheck, GeofenceCheck, EmitEvent, EnqueueFrame, outVars, alertVars
<1>4. CASE PskStep
  BY <1>4 DEF PskStep, TakeFrame, TryCandidate, AddDiscovered, Announce, outVars, alertVars
<1>5. CASE WebStep \/ Client
  BY <1>5 DEF WebStep, Client, Elsewhere, RouteKeys, AddRequested, alertVars
<1>6. CASE StopWeb \/ MainStep
  BY <1>6 DEF StopWeb, MainStep, JoinWeb, StopSearch, JoinSearch, StopHook, JoinHook,
              outVars, alertVars
<1>7. CASE HookThread
  BY <1>7 DEF HookThread
<1> QED
  BY <1>1, <1>2, <1>3, <1>4, <1>5, <1>6, <1>7 DEF Next, Running

\* Every alert the operator asked for is accounted for, whatever the sizes of
\* the queue and of the tables and whichever threads raise alerts.
THEOREM NoAlertVanishes == Spec => []AlertsAccounted
<1>1. Init => HookInv
  <2> SUFFICES ASSUME Init PROVE HookInv
    OBVIOUS
  <2>1. /\ hookq = <<>> /\ owed = 0 /\ hook.pc \in {"loop", "gone"}
        /\ tally = [posted |-> 0, dropped |-> 0, unsent |-> 0]
    BY DEF Init, AlertInit
  <2> QED
    BY <2>1 DEF HookInv, AlertsAccounted
<1>2. HookInv /\ [Next]_vars => HookInv'
  <2> SUFFICES ASSUME HookInv, [Next]_vars PROVE HookInv'
    OBVIOUS
  <2>1. CASE UNCHANGED vars \/ UNCHANGED hookVars \/ WebhookStop
    <3>1. UNCHANGED <<hookq, hook, tally, owed>>
      BY <2>1 DEF vars, outVars, alertVars, hookVars, WebhookStop
    <3> QED
      BY <3>1 DEF HookInv, AlertsAccounted
  <2>2. CASE \E e : WebhookPublish(e)
    BY <2>2, HookPublish
  <2>3. CASE HookTake \/ PostOne
    BY <2>3, HookThreadKeeps
  <2> QED
    BY <2>1, <2>2, <2>3, HookSteps
<1>3. HookInv => AlertsAccounted
  BY DEF HookInv
<1> QED
  BY <1>1, <1>2, <1>3, PTL DEF Spec

-----------------------------------------------------------------------------
(* Streams *)

Requests == {NoReq} \cup UNION {Ask[c] : c \in Conns}
Connection == [st : {"none", "queued", "open", "sse", "closed"}, req : Requests,
               gone : BOOLEAN, sock : Seq(Nat), got : Seq(Nat)]
Parse == [new : Seq(Entry), specs : Seq(Specs)]
Idle == [pc : {"accept", "down"}]
Reading == [pc : {"recv", "route"}, c : Conns]
Replaying == [pc : {"replay"}, c : Conns, k : Nat]
Adding == [pc : {"adding"}, c : Conns, todo : Parse]
Serving == Reading \cup Replaying \cup Adding

\* Types of the web server's state; the connection being served is open.
WebTypes ==
  /\ conn \in [Conns -> Connection]
  /\ lines \in Nat /\ history \in Seq(Nat) /\ sse \subseteq Conns
  /\ web \in Idle \cup Serving
  /\ web \in Serving => conn[web.c].st = "open"

\* What a connection has been sent, read or not.
Sent(c) == conn[c].got \o conn[c].sock

\* q holds the newest lines up to n.
UpTo(q, n) == \A i \in 1..Len(q) : q[i] = n - Len(q) + i

\* The history is a run of the newest lines; during a replay, which holds the
\* lock, the connection has been sent a beginning of it, and then all of it.
StreamInv ==
  /\ WebTypes
  /\ gLock = "replay" <=> web.pc = "replay"
  /\ UpTo(history, lines)
  /\ \A c \in sse : conn[c].st = "sse" /\ (~conn[c].gone => UpTo(Sent(c), lines))
  /\ \A c \in Conns : conn[c].st \in {"none", "queued"} => Sent(c) = <<>>
  /\ \A c \in Conns : conn[c].st = "open" /\ ~(web.pc = "replay" /\ web.c = c) => Sent(c) = <<>>
  /\ web.pc = "replay" => /\ web.k \in 1..(Len(history) + 1)
                          /\ Sent(web.c) = SubSeq(history, 1, web.k - 1)

LEMMA SpecEntriesType ==
  ASSUME NEW sp \in Specs
  PROVE  SpecEntries(sp) \in Seq(Entry)
<1>1. sp.entry \in Entry /\ <<sp.entry>> \in Seq(Entry) /\ <<>> \in Seq(Entry)
  BY DEF Specs
<1>2. Presets \in Seq(Entry)
  BY InputAssumption
<1> HIDE DEF Entry
<1> QED
  BY ONLY <1>1, <1>2 DEF SpecEntries, ShareEntries

LEMMA ParseTypes ==
  ASSUME NEW p \in Parse
  PROVE  /\ p.new # <<>> => Head(p.new) \in Entry /\ TakeEntry(p) \in Parse
         /\ p.specs # <<>> => ParseSpec(p) \in Parse
<1>1. ASSUME p.new # <<>> PROVE Head(p.new) \in Entry /\ TakeEntry(p) \in Parse
  <2>1. p.new \in Seq(Entry)
    BY DEF Parse
  <2>2. Head(p.new) \in Entry /\ Tail(p.new) \in Seq(Entry)
    BY <1>1, <2>1, HeadTailProperties
  <2> QED
    BY <2>2, Zenon DEF TakeEntry, Parse
<1>2. ASSUME p.specs # <<>> PROVE ParseSpec(p) \in Parse
  <2>1. p.specs \in Seq(Specs)
    BY DEF Parse
  <2>2. Head(p.specs) \in Specs /\ Tail(p.specs) \in Seq(Specs)
    BY <1>2, <2>1, HeadTailProperties
  <2>3. SpecEntries(Head(p.specs)) \in Seq(Entry)
    BY <2>2, SpecEntriesType
  <2> QED
    BY <2>2, <2>3 DEF ParseSpec, Parse
<1> QED
  BY <1>1, <1>2

LEMMA BodyType ==
  ASSUME NEW r \in Requests, r.kind = "keys"
  PROVE  Parsing(r.body) \in Parse
<1>1. r # NoReq
  BY DEF NoReq
<1>2. r.body \in Seq(Specs)
  BY <1>1, InputAssumption DEF Requests
<1> QED
  BY <1>2 DEF Parsing, Parse

LEMMA AppendUpTo ==
  ASSUME NEW h \in Seq(Nat), NEW n \in Nat, UpTo(h, n)
  PROVE  UpTo(Append(h, n + 1), n + 1)
<1>1. /\ Append(h, n + 1) \in Seq(Nat) /\ Len(Append(h, n + 1)) = Len(h) + 1 /\ Len(h) \in Nat
      /\ \A i \in 1..Len(h) : Append(h, n + 1)[i] = h[i]
      /\ Append(h, n + 1)[Len(h) + 1] = n + 1
  BY AppendProperties
<1> QED
  BY <1>1 DEF UpTo

LEMMA NewestUpTo ==
  ASSUME NEW h \in Seq(Nat), NEW n \in Nat, UpTo(h, n), NEW m \in Nat \ {0}
  PROVE  /\ Newest(Append(h, n + 1), m) \in Seq(Nat)
         /\ UpTo(Newest(Append(h, n + 1), m), n + 1)
<1> DEFINE a == Append(h, n + 1)
           from == IF Len(a) > m THEN Len(a) - m + 1 ELSE 1
<1>1. /\ a \in Seq(Nat) /\ Len(a) = Len(h) + 1 /\ Len(h) \in Nat
      /\ \A i \in 1..Len(h) : a[i] = h[i]
      /\ a[Len(h) + 1] = n + 1
  BY AppendProperties
<1>2. \A i \in 1..Len(a) : a[i] = n + 1 - Len(a) + i
  BY <1>1 DEF UpTo
<1>3. from \in 1..Len(a)
  BY <1>1
<1>4. Newest(a, m) = SubSeq(a, from, Len(a))
  BY DEF Newest
<1> HIDE DEF a, from
<1>5. /\ SubSeq(a, from, Len(a)) \in Seq(Nat)
      /\ Len(SubSeq(a, from, Len(a))) = Len(a) - from + 1
      /\ \A i \in 1..(Len(a) - from + 1) : SubSeq(a, from, Len(a))[i] = a[from + i - 1]
  <2>1. from \in Int /\ Len(a) \in Int /\ from <= Len(a) /\ \A i \in from..Len(a) : a[i] \in Nat
    BY <1>1, <1>3
  <2> QED
    BY <2>1, SubSeqProperties
<1>6. UpTo(Newest(a, m), n + 1)
  BY <1>1, <1>2, <1>3, <1>4, <1>5 DEF UpTo
<1> QED
  BY <1>4, <1>5, <1>6, Zenon DEF a

LEMMA OneMore ==
  ASSUME NEW h \in Seq(Nat), NEW k \in 1..Len(h)
  PROVE  Append(SubSeq(h, 1, k - 1), h[k]) = SubSeq(h, 1, k)
OBVIOUS

LEMMA LinesAssociate ==
  ASSUME NEW g \in Seq(Nat), NEW h \in Seq(Nat), NEW t \in Seq(Nat)
  PROVE  (g \o h) \o t = g \o (h \o t)
BY ConcatAssociative, SMTT(60)

LEMMA ReadKeepsSent ==
  ASSUME NEW g \in Seq(Nat), NEW s \in Seq(Nat), s # <<>>
  PROVE  /\ Append(g, Head(s)) \in Seq(Nat) /\ Tail(s) \in Seq(Nat)
         /\ Append(g, Head(s)) \o Tail(s) = g \o s
<1>1. Head(s) \in Nat /\ <<Head(s)>> \in Seq(Nat) /\ Tail(s) \in Seq(Nat)
  BY HeadTailProperties
<1>2. <<Head(s)>> \o Tail(s) = s
  OBVIOUS
<1>3. Append(g, Head(s)) \in Seq(Nat) /\ Append(g, Head(s)) = g \o <<Head(s)>>
  BY <1>1, AppendProperties, AppendIsConcat
<1>4. (g \o <<Head(s)>>) \o Tail(s) = g \o (<<Head(s)>> \o Tail(s))
  BY ONLY <1>1, g \in Seq(Nat), LinesAssociate, Zenon
<1> QED
  BY ONLY <1>1, <1>2, <1>3, <1>4, Zenon

LEMMA AppendToSent ==
  ASSUME NEW g \in Seq(Nat), NEW s \in Seq(Nat), NEW x \in Nat
  PROVE  Append(s, x) \in Seq(Nat) /\ g \o Append(s, x) = Append(g \o s, x)
<1>1. Append(s, x) = s \o <<x>> /\ Append(g \o s, x) = (g \o s) \o <<x>>
  BY AppendIsConcat, ConcatProperties, Zenon
<1> QED
  BY <1>1, ConcatAssociative, AppendProperties

-----------------------------------------------------------------------------
(* The steps of the web server keep its types *)

\* What a step may do to the web server.
LEMMA WebSteps ==
  ASSUME Next
  PROVE  \/ UNCHANGED webVars
         \/ PublishLine \/ ClientNext \/ WebThread \/ RouteKeys \/ AddRequested
         \/ StopListening \/ CloseStreams
<1>1. CASE LoadKeys \/ \E f \in Frames : Decode(f)
  BY <1>1 DEF LoadKeys, Decode, outVars
<1>3. CASE RxStep
  BY <1>3, Zenon DEF RxStep, ReplayCheck, GeofenceCheck, EmitEvent, EnqueueFrame, outVars
<1>4. CASE PskStep
  BY <1>4 DEF PskStep, TakeFrame, TryCandidate, AddDiscovered, Announce, outVars
<1>5. CASE WebStep \/ Client
  BY <1>5 DEF WebStep, Client
<1>6. CASE StopWeb \/ MainStep
  BY <1>6 DEF StopWeb, MainStep, JoinWeb, StopSearch, JoinSearch, StopHook, JoinHook, outVars
<1>7. CASE HookThread
  BY <1>7 DEF HookThread
<1> QED
  BY <1>1, <1>3, <1>4, <1>5, <1>6, <1>7 DEF Next, Running

LEMMA PublishKeeps ==
  ASSUME StreamInv, PublishLine
  PROVE  StreamInv'
<1>1. lines' = lines + 1 /\ lines \in Nat /\ lines' \in Nat
  BY DEF PublishLine, WebTypes, StreamInv
<1>2. history' \in Seq(Nat) /\ UpTo(history', lines')
  BY <1>1, NewestUpTo, WebAssumption DEF PublishLine, WebTypes, StreamInv
<1>3. /\ sse \subseteq Conns /\ sse' = {c \in sse : Takes(c)} /\ web' = web /\ gLock' = gLock
      /\ web.pc # "replay"
  BY DEF PublishLine, WebTypes, StreamInv
<1>4. ASSUME NEW c \in Conns
      PROVE  /\ conn'[c] \in Connection
             /\ c \notin sse => conn'[c] = conn[c]
             /\ c \in sse \ sse' => conn'[c].st = "closed"
             /\ c \in sse' => conn'[c] = [conn[c] EXCEPT !.sock = Append(@, lines')]
  <2>1. conn[c] \in Connection /\ Append(conn[c].sock, lines') \in Seq(Nat)
    BY <1>1, AppendProperties DEF WebTypes, Connection, StreamInv
  <2>2. /\ c \notin sse => conn'[c] = conn[c]
        /\ c \in sse \ sse' => conn'[c] = [conn[c] EXCEPT !.st = "closed"]
        /\ c \in sse' => conn'[c] = [conn[c] EXCEPT !.sock = Append(@, lines')]
    BY <1>3 DEF PublishLine, Takes
  <2> QED
    BY <1>3, <2>1, <2>2, Zenon DEF Connection
<1>5. \A c \in sse : conn[c].st = "sse"
  BY DEF StreamInv
<1>6. WebTypes'
  <2>1. conn' \in [Conns -> Connection]
    BY <1>4, Zenon DEF PublishLine
  <2>2. web \in Serving => web.c \in Conns /\ web.c \notin sse
    BY <1>3, <1>5 DEF StreamInv, WebTypes, Serving, Reading, Replaying, Adding
  <2> QED
    BY <1>1, <1>2, <1>3, <1>4, <2>1, <2>2 DEF StreamInv, WebTypes
<1>7. ASSUME NEW c \in sse'
      PROVE  conn'[c].st = "sse" /\ (~conn'[c].gone => UpTo(Sent(c)', lines'))
  <2>1. /\ c \in sse /\ c \in Conns /\ conn[c].st = "sse" /\ ~conn[c].gone
        /\ UpTo(Sent(c), lines) /\ conn[c] \in Connection
    BY <1>3, <1>5 DEF Takes, Peer, StreamInv, WebTypes
  <2>2. /\ conn[c].got \in Seq(Nat) /\ conn[c].sock \in Seq(Nat)
        /\ conn'[c].st = "sse" /\ conn'[c].got = conn[c].got
        /\ conn'[c].sock = Append(conn[c].sock, lines')
    <3>1. conn'[c] = [conn[c] EXCEPT !.sock = Append(@, lines')]
      BY <1>4, <2>1
    <3> QED
      BY ONLY <2>1, <3>1 DEF Connection
  <2>3. Sent(c)' = Append(Sent(c), lines') /\ Sent(c) \in Seq(Nat)
    <3>1. Sent(c)' = conn[c].got \o Append(conn[c].sock, lines')
      BY <2>2 DEF Sent
    <3>2. Sent(c) \in Seq(Nat)
      BY <2>2, ConcatProperties DEF Sent
    <3> QED
      BY <1>1, <2>2, <3>1, <3>2, AppendToSent, Zenon DEF Sent
  <2>4. UpTo(Append(Sent(c), lines'), lines')
    BY <1>1, <2>1, <2>3, AppendUpTo
  <2> QED
    BY <2>2, <2>3, <2>4
<1>8. ASSUME NEW c \in Conns, conn'[c].st \in {"none", "queued", "open"}
      PROVE  conn'[c] = conn[c]
  BY <1>3, <1>4, <1>7, <1>8, ZenonT(30)
<1> QED
  BY <1>2, <1>3, <1>6, <1>7, <1>8, Zenon DEF StreamInv, Sent

\* A client's step leaves what it has been sent as it is.
LEMMA ClientStep ==
  ASSUME WebTypes, NEW c \in Conns, Connect(c) \/ SendRequest(c) \/ HangUp(c) \/ ReadLine(c)
  PROVE  /\ UNCHANGED <<lines, history, gLock, sse, web>>
         /\ conn' \in [Conns -> Connection]
         /\ \A d \in Conns \ {c} : conn'[d] = conn[d]
         /\ Sent(c)' = Sent(c)
         /\ conn'[c].st = conn[c].st \/ (conn[c].st = "none" /\ conn'[c].st = "queued")
         /\ conn[c].gone => conn'[c].gone
<1>1. conn \in [Conns -> Connection] /\ conn[c] \in Connection
  BY DEF WebTypes
<1>2. CASE Connect(c)
  BY <1>1, <1>2, Zenon DEF Connect, Connection, Sent
<1>3. CASE SendRequest(c)
  <2>1. PICK r \in Ask[c] : conn' = [conn EXCEPT ![c].req = r]
    BY <1>3, Zenon DEF SendRequest
  <2>2. r \in Requests
    BY DEF Requests
  <2> QED
    BY <1>1, <1>3, <2>1, <2>2, Zenon DEF SendRequest, Connection, Sent
<1>4. CASE HangUp(c)
  BY <1>1, <1>4, Zenon DEF HangUp, Connection, Sent
<1>5. CASE ReadLine(c)
  <2> DEFINE g == Append(conn[c].got, Head(conn[c].sock))
             t == Tail(conn[c].sock)
  <2>1. conn' = [conn EXCEPT ![c].got = g, ![c].sock = t]
    BY <1>5 DEF ReadLine
  <2>2. conn[c].got \in Seq(Nat) /\ conn[c].sock \in Seq(Nat) /\ conn[c].sock # <<>>
    BY <1>1, <1>5 DEF ReadLine, Connection
  <2>3. g \in Seq(Nat) /\ t \in Seq(Nat) /\ g \o t = Sent(c)
    BY <2>2, ReadKeepsSent, Zenon DEF Sent
  <2> HIDE DEF g, t
  <2>4. /\ conn' \in [Conns -> Connection] /\ conn'[c].got = g /\ conn'[c].sock = t
        /\ conn'[c].st = conn[c].st /\ conn'[c].gone = conn[c].gone
        /\ \A d \in Conns \ {c} : conn'[d] = conn[d]
    BY <1>1, <2>1, <2>3, Zenon DEF Connection
  <2>5. Sent(c)' = Sent(c)
    BY <2>3, <2>4, Zenon DEF Sent
  <2> QED
    BY <1>5, <2>4, <2>5 DEF ReadLine
<1> QED
  BY <1>2, <1>3, <1>4, <1>5

LEMMA ClientKeeps ==
  ASSUME StreamInv, ClientNext
  PROVE  StreamInv'
<1>1. PICK c \in Conns : Connect(c) \/ SendRequest(c) \/ HangUp(c) \/ ReadLine(c)
  BY DEF ClientNext
<1>2. WebTypes
  BY DEF StreamInv
<1>3. /\ UNCHANGED <<lines, history, gLock, sse, web>>
      /\ conn' \in [Conns -> Connection]
      /\ \A d \in Conns \ {c} : conn'[d] = conn[d]
      /\ Sent(c)' = Sent(c)
      /\ conn'[c].st = conn[c].st \/ (conn[c].st = "none" /\ conn'[c].st = "queued")
      /\ conn[c].gone => conn'[c].gone
  BY <1>1, <1>2, ClientStep, Zenon
<1>4. \A d \in Conns : Sent(d)' = Sent(d)
  BY <1>3, Zenon DEF Sent
<1>5. \A d \in Conns : /\ conn[d].st \in {"open", "sse"} => conn'[d].st = conn[d].st
                       /\ conn'[d].st \in {"open", "sse", "none"} => conn'[d].st = conn[d].st
                       /\ conn'[d].st = "queued" => conn[d].st \in {"none", "queued"}
                       /\ conn[d].gone => conn'[d].gone
  BY <1>3
<1>6. web \in Serving => web.c \in Conns
  BY <1>2 DEF Serving, Reading, Replaying, Adding
<1>7. web.pc = "replay" => web \in Serving
  BY <1>2 DEF WebTypes, Idle
<1>8. WebTypes'
  BY <1>2, <1>3, <1>5, <1>6 DEF WebTypes
<1>9. sse \subseteq Conns
  BY <1>2 DEF WebTypes
<1>10. \A d \in sse' : conn'[d].st = "sse" /\ (~conn'[d].gone => UpTo(Sent(d)', lines'))
  BY <1>3, <1>4, <1>5, <1>9 DEF StreamInv
<1>11. \A d \in Conns : /\ conn'[d].st \in {"none", "queued"} => Sent(d)' = <<>>
                        /\ conn'[d].st = "open" /\ ~(web.pc = "replay" /\ web.c = d) => Sent(d)' = <<>>
  BY <1>4, <1>5 DEF StreamInv
<1> QED
  BY <1>3, <1>4, <1>6, <1>7, <1>8, <1>10, <1>11 DEF StreamInv

\* Serving a connection outside of a replay: at most it is opened or closed.
LEMMA ServeKeeps ==
  ASSUME StreamInv, WebTypes', UNCHANGED <<lines, history, gLock, sse>>,
         web.pc # "replay", web'.pc # "replay",
         \A d \in Conns : \/ conn'[d] = conn[d]
                          \/ /\ conn[d].st \in {"queued", "open"} /\ conn'[d].st \in {"open", "closed"}
                             /\ Sent(d)' = Sent(d)
  PROVE  StreamInv'
<1>1. \A d \in Conns : Sent(d)' = Sent(d)
  BY Zenon DEF Sent
<1>2. sse \subseteq Conns
  BY DEF StreamInv, WebTypes
<1>3. \A d \in sse' : conn'[d].st = "sse" /\ (~conn'[d].gone => UpTo(Sent(d)', lines'))
  <2> SUFFICES ASSUME NEW d \in sse
               PROVE  conn'[d].st = "sse" /\ (~conn'[d].gone => UpTo(Sent(d)', lines'))
    OBVIOUS
  <2>1. conn[d].st = "sse" /\ (~conn[d].gone => UpTo(Sent(d), lines)) /\ d \in Conns
    BY <1>2 DEF StreamInv
  <2>2. conn'[d] = conn[d]
    BY <2>1
  <2> QED
    BY <1>1, <2>1, <2>2
<1>4. \A d \in Conns : conn'[d].st \in {"none", "queued", "open"} => Sent(d)' = <<>>
  BY <1>1 DEF StreamInv
<1> QED
  BY <1>1, <1>3, <1>4 DEF StreamInv

LEMMA ServingFacts ==
  ASSUME WebTypes
  PROVE  /\ web \in Serving => web.c \in Conns /\ conn[web.c] \in Connection /\ conn[web.c].st = "open"
         /\ web.pc \in {"recv", "route"} => web \in Reading /\ web \in Serving
         /\ web.pc = "replay" => web \in Replaying /\ web \in Serving
         /\ web.pc = "adding" => web \in Adding /\ web \in Serving
<1>1. web \in Serving => web.c \in Conns
  BY DEF Serving, Reading, Replaying, Adding
<1>2. web \in Idle \cup Serving
  BY DEF WebTypes
<1>3. /\ web \in Idle => web.pc \in {"accept", "down"}
      /\ web \in Reading => web.pc \in {"recv", "route"}
      /\ web \in Replaying => web.pc = "replay"
      /\ web \in Adding => web.pc = "adding"
  BY DEF Idle, Reading, Replaying, Adding
<1>4. web \in Serving => conn[web.c] \in Connection /\ conn[web.c].st = "open"
  BY <1>1 DEF WebTypes
<1> QED
  BY <1>1, <1>2, <1>3, <1>4 DEF Serving

LEMMA RespondKeeps ==
  ASSUME StreamInv, web \in Serving, web.pc # "replay", Respond,
         UNCHANGED <<lines, history, gLock, sse>>
  PROVE  StreamInv'
<1>1. WebTypes /\ web.c \in Conns /\ conn[web.c] \in Connection /\ conn[web.c].st = "open"
  BY ServingFacts DEF StreamInv
<1>2. conn \in [Conns -> Connection] /\ conn' = [conn EXCEPT ![web.c].st = "closed"]
  BY <1>1 DEF WebTypes, Respond, Closed
<1>3. /\ conn' \in [Conns -> Connection] /\ conn'[web.c].st = "closed"
      /\ conn'[web.c].got = conn[web.c].got /\ conn'[web.c].sock = conn[web.c].sock
      /\ \A d \in Conns \ {web.c} : conn'[d] = conn[d]
  BY ONLY <1>1, <1>2, Zenon DEF Connection
<1>5. \A d \in Conns : \/ conn'[d] = conn[d]
                       \/ /\ conn[d].st \in {"queued", "open"} /\ conn'[d].st \in {"open", "closed"}
                          /\ Sent(d)' = Sent(d)
  BY <1>1, <1>3, Zenon DEF Sent
<1>6. web' = Accepting /\ web' \in Idle /\ web' \notin Serving /\ web'.pc # "replay"
  BY DEF Respond, Accepting, Idle, Serving, Reading, Replaying, Adding
<1>7. WebTypes'
  BY <1>1, <1>3, <1>6 DEF WebTypes
<1> QED
  BY <1>5, <1>6, <1>7, ServeKeeps

LEMMA AcceptKeeps ==
  ASSUME StreamInv, Accept
  PROVE  StreamInv'
<1>1. WebTypes /\ UNCHANGED <<lines, history, gLock, sse>> /\ web.pc # "replay"
  BY DEF StreamInv, Accept, Accepting
<1>2. CASE web' = [pc |-> "down"] /\ conn' = conn
  <2>1. web' \in Idle /\ web' \notin Serving /\ web'.pc # "replay"
    BY <1>2 DEF Idle, Serving, Reading, Replaying, Adding
  <2>2. WebTypes'
    BY <1>1, <1>2, <2>1 DEF WebTypes
  <2> QED
    BY <1>1, <1>2, <2>1, <2>2, ServeKeeps
<1>3. CASE ~(web' = [pc |-> "down"] /\ conn' = conn)
  <2>1. PICK c \in Conns : /\ conn[c].st = "queued" /\ web' = [pc |-> "recv", c |-> c]
                           /\ conn' = [conn EXCEPT ![c].st = "open"]
    BY <1>3 DEF Accept
  <2>2. conn \in [Conns -> Connection] /\ conn[c] \in Connection
    BY <1>1 DEF WebTypes
  <2>3. /\ conn' \in [Conns -> Connection] /\ conn'[c].st = "open"
        /\ conn'[c].got = conn[c].got /\ conn'[c].sock = conn[c].sock
        /\ \A d \in Conns \ {c} : conn'[d] = conn[d]
    BY ONLY <2>1, <2>2, Zenon DEF Connection
  <2>4. web' \in Serving /\ web'.c = c /\ web'.pc # "replay"
    BY <2>1 DEF Serving, Reading
  <2>5. WebTypes'
    BY <1>1, <2>3, <2>4 DEF WebTypes
  <2>6. \A d \in Conns : \/ conn'[d] = conn[d]
                         \/ /\ conn[d].st \in {"queued", "open"} /\ conn'[d].st \in {"open", "closed"}
                            /\ Sent(d)' = Sent(d)
    BY <2>1, <2>3, Zenon DEF Sent
  <2> QED
    BY <1>1, <2>4, <2>5, <2>6, ServeKeeps
<1> QED
  BY <1>2, <1>3

\* The connection served stays as it is while its request is looked at.
LEMMA SameConnKeeps ==
  ASSUME StreamInv, web \in Serving, web.pc # "replay", UNCHANGED <<conn, lines, history, gLock, sse>>,
         web' \in Reading \cup Adding, web'.c = web.c
  PROVE  StreamInv'
<1>1. web' \in Serving /\ web'.pc # "replay"
  BY DEF Serving, Reading, Adding
<1>2. WebTypes'
  BY <1>1 DEF StreamInv, WebTypes
<1> QED
  BY <1>1, <1>2, ServeKeeps

LEMMA RequestKeeps ==
  ASSUME StreamInv, RecvRequest \/ RouteRead \/ RouteKeys \/ AddRequested
  PROVE  StreamInv'
<1>1. WebTypes /\ UNCHANGED <<lines, history, gLock, sse>> /\ web.pc # "replay" /\ web \in Serving
  BY ServingFacts DEF StreamInv, RecvRequest, RouteRead, RouteKeys, AddRequested
<1>2. CASE Respond
  BY <1>1, <1>2, RespondKeeps
<1>3. CASE RecvRequest /\ ~Respond
  <2>1. web \in Reading /\ web' = [web EXCEPT !.pc = "route"] /\ UNCHANGED conn
    BY <1>1, <1>3, ServingFacts DEF RecvRequest, Respond
  <2>2. web' \in Reading /\ web'.c = web.c
    BY <2>1 DEF Reading
  <2> QED
    BY <1>1, <2>1, <2>2, SameConnKeeps
<1>4. CASE RouteKeys
  <2>1. /\ web.c \in Conns /\ conn[web.c] \in Connection /\ conn[web.c].req.kind = "keys" /\ UNCHANGED conn
        /\ web' = [pc |-> "adding", c |-> web.c, todo |-> Parsing(conn[web.c].req.body)]
    BY <1>1, <1>4, ServingFacts, Zenon DEF RouteKeys
  <2>2. Parsing(conn[web.c].req.body) \in Parse
    BY <2>1, BodyType, Zenon DEF Connection
  <2>3. web' \in Adding /\ web'.c = web.c
    BY <2>1, <2>2 DEF Adding
  <2> QED
    BY <1>1, <2>1, <2>3, SameConnKeeps, Zenon
<1>5. CASE AddRequested /\ ~Respond
  <2>1. web \in Adding /\ web.todo \in Parse
    BY <1>1, <1>5, ServingFacts DEF AddRequested, Adding
  <2>2. PICK p \in Parse : web' = [web EXCEPT !.todo = p] /\ UNCHANGED conn
    BY <1>5, <2>1, ParseTypes DEF AddRequested
  <2>3. web' \in Adding /\ web'.c = web.c
    BY <2>1, <2>2 DEF Adding
  <2> QED
    BY <1>1, <2>2, <2>3, SameConnKeeps
<1>6. ~RouteRead \/ Respond
  BY DEF RouteRead
<1> QED
  BY <1>2, <1>3, <1>4, <1>5, <1>6, Zenon

LEMMA PromoteKeeps ==
  ASSUME StreamInv, Promote
  PROVE  StreamInv'
<1>1. /\ WebTypes /\ UNCHANGED <<conn, lines, history, sse>> /\ web.pc = "route" /\ web \in Serving
      /\ web.c \in Conns /\ gLock' = "replay" /\ web' = [pc |-> "replay", c |-> web.c, k |-> 1]
  BY ServingFacts DEF StreamInv, Promote
<1>2. web' \in Serving /\ web'.c = web.c /\ web'.pc = "replay" /\ web'.k = 1
  BY <1>1 DEF Serving, Replaying
<1>3. WebTypes'
  BY <1>1, <1>2 DEF WebTypes
<1>4. history \in Seq(Nat) /\ Len(history) \in Nat /\ SubSeq(history, 1, 0) = <<>>
  BY <1>1 DEF WebTypes
<1>5. \A d \in Conns : Sent(d)' = Sent(d) /\ conn'[d] = conn[d]
  BY <1>1, Zenon DEF Sent
<1>6. conn[web.c].st = "open" /\ Sent(web.c) = <<>>
  BY <1>1, ServingFacts DEF StreamInv
<1>7. web'.k \in 1..(Len(history') + 1) /\ SubSeq(history', 1, web'.k - 1) = <<>>
  BY <1>1, <1>2, <1>4
<1>8. Sent(web.c)' = <<>>
  BY <1>1, <1>2, <1>5, <1>6 DEF Sent
<1>9. \A d \in sse : UpTo(Sent(d), lines)' <=> UpTo(Sent(d), lines)
  BY <1>1 DEF Sent
<1> QED
  BY <1>1, <1>2, <1>3, <1>5, <1>7, <1>8, <1>9, Zenon DEF StreamInv

LEMMA ReplayLineKeeps ==
  ASSUME StreamInv, ReplayLine
  PROVE  StreamInv'
<1> DEFINE c == web.c
           x == history[web.k]
<1>1. /\ WebTypes /\ UNCHANGED <<lines, history, gLock, sse>> /\ web.pc = "replay" /\ web \in Replaying
      /\ c \in Conns /\ conn[c] \in Connection /\ conn[c].st = "open" /\ web.k <= Len(history)
      /\ conn' = [conn EXCEPT ![c].sock = Append(@, x)]
      /\ web' = [web EXCEPT !.k = @ + 1]
  BY ServingFacts DEF StreamInv, ReplayLine
<1>2. /\ history \in Seq(Nat) /\ Len(history) \in Nat /\ web.k \in Nat /\ web.k \in 1..Len(history)
      /\ Sent(c) = SubSeq(history, 1, web.k - 1) /\ conn \in [Conns -> Connection]
  BY <1>1 DEF StreamInv, WebTypes, Replaying
<1>3. x \in Nat /\ conn[c].got \in Seq(Nat) /\ conn[c].sock \in Seq(Nat)
  <2>1. x \in Nat
    BY ONLY <1>2
  <2> QED
    BY ONLY <1>1, <2>1 DEF Connection
<1>4. web' \in Serving /\ web'.c = c /\ web'.pc = "replay" /\ web'.k = web.k + 1
  <2>1. web \in Replaying /\ web' = [web EXCEPT !.k = @ + 1]
    BY <1>1
  <2>2. web' \in Replaying /\ web'.c = web.c /\ web'.pc = "replay" /\ web'.k = web.k + 1
    BY ONLY <2>1 DEF Replaying
  <2> QED
    BY <2>2 DEF Serving
<1> HIDE DEF c, x
<1>5. Append(conn[c].sock, x) \in Seq(Nat) /\ conn[c].got \o Append(conn[c].sock, x) = Append(Sent(c), x)
  BY <1>3, AppendToSent, Zenon DEF Sent
<1>6. /\ conn' \in [Conns -> Connection] /\ conn'[c].st = "open"
      /\ conn'[c].got = conn[c].got /\ conn'[c].sock = Append(conn[c].sock, x)
      /\ \A d \in Conns \ {c} : conn'[d] = conn[d]
  BY ONLY <1>1, <1>2, <1>5, Zenon DEF Connection
<1>7. conn'[c].got \o conn'[c].sock = SubSeq(history, 1, web.k)
  <2>1. Append(SubSeq(history, 1, web.k - 1), history[web.k]) = SubSeq(history, 1, web.k)
    BY <1>2, OneMore
  <2> QED
    BY <1>2, <1>5, <1>6, <2>1, Zenon DEF x
<1>8. WebTypes'
  BY <1>1, <1>4, <1>6 DEF WebTypes
<1>9. c \notin sse /\ sse \subseteq Conns
  BY <1>1 DEF StreamInv, WebTypes
<1>10. \A d \in Conns \ {c} : Sent(d)' = Sent(d)
  BY <1>6, Zenon DEF Sent
<1>11. Sent(web.c)' = SubSeq(history', 1, web'.k - 1) /\ web'.k \in 1..(Len(history') + 1)
  <2>1. web'.k - 1 = web.k /\ web'.k \in 1..(Len(history') + 1) /\ history' = history
    <3>1. history' = history
      BY <1>1
    <3> QED
      BY ONLY <1>2, <1>4, <3>1
  <2>2. Sent(web.c)' = conn'[c].got \o conn'[c].sock
    BY ONLY <1>4 DEF Sent
  <2> QED
    BY ONLY <1>7, <2>1, <2>2
<1>12. \A d \in sse' : conn'[d].st = "sse" /\ (~conn'[d].gone => UpTo(Sent(d)', lines'))
  BY <1>1, <1>6, <1>9, <1>10, SMTT(30) DEF StreamInv
<1>13. \A d \in Conns : /\ conn'[d].st \in {"none", "queued"} => Sent(d)' = <<>>
                        /\ conn'[d].st = "open" /\ ~(web'.pc = "replay" /\ web'.c = d) => Sent(d)' = <<>>
  BY <1>4, <1>6, <1>10, Zenon DEF StreamInv, c
<1> QED
  BY <1>1, <1>4, <1>8, <1>11, <1>12, <1>13 DEF StreamInv

LEMMA JoinSseKeeps ==
  ASSUME StreamInv, JoinSse
  PROVE  StreamInv'
<1> DEFINE c == web.c
<1>1. /\ WebTypes /\ UNCHANGED <<lines, history>> /\ web.pc = "replay"
      /\ c \in Conns /\ conn[c] \in Connection /\ conn[c].st = "open"
      /\ gLock' = "free" /\ web' = Accepting
      /\ web.k > Len(history) \/ ~Peer(c)
  BY ServingFacts DEF StreamInv, JoinSse
<1>2. PICK st \in {"sse", "closed"} : /\ conn' = [conn EXCEPT ![c].st = st]
                                     /\ sse' = IF st = "sse" THEN sse \cup {c} ELSE sse
  BY DEF JoinSse, Closed
<1>3. web' \in Idle /\ web' \notin Serving /\ web'.pc # "replay"
  BY <1>1 DEF Accepting, Idle, Serving, Reading, Replaying, Adding
<1>4. conn \in [Conns -> Connection] /\ sse \subseteq Conns /\ c \notin sse /\ history \in Seq(Nat)
  BY <1>1 DEF StreamInv, WebTypes
<1>5. ~conn[c].gone => Sent(c) = history
  <2> SUFFICES ASSUME ~conn[c].gone PROVE Sent(c) = history
    OBVIOUS
  <2>1. web.k > Len(history)
    BY <1>1 DEF Peer
  <2>2. web.k \in 1..(Len(history) + 1) /\ Sent(c) = SubSeq(history, 1, web.k - 1) /\ Len(history) \in Nat
    BY <1>1, <1>4 DEF StreamInv
  <2>3. web.k - 1 = Len(history)
    BY <2>1, <2>2
  <2>4. SubSeq(history, 1, Len(history)) = history
    BY ONLY <1>4
  <2> QED
    BY <2>2, <2>3, <2>4
<1> HIDE DEF c
<1>6. /\ conn' \in [Conns -> Connection] /\ conn'[c].st = st /\ conn'[c].gone = conn[c].gone
      /\ conn'[c].got = conn[c].got /\ conn'[c].sock = conn[c].sock
      /\ \A d \in Conns \ {c} : conn'[d] = conn[d]
  BY ONLY <1>1, <1>2, <1>4, Zenon DEF Connection
<1>7. WebTypes'
  BY <1>1, <1>2, <1>3, <1>4, <1>6 DEF WebTypes
<1>8. \A d \in Conns : conn'[d].got \o conn'[d].sock = Sent(d)
  BY <1>6, Zenon DEF Sent
<1>9. UpTo(history, lines)
  BY DEF StreamInv
<1>10. ASSUME NEW d \in sse'
       PROVE  conn'[d].st = "sse" /\ (~conn'[d].gone => UpTo(conn'[d].got \o conn'[d].sock, lines))
  <2>1. CASE d \in sse
    BY <1>4, <1>6, <1>8, <2>1, Zenon DEF StreamInv
  <2>2. CASE d \notin sse
    <3>1. d = c /\ st = "sse"
      BY <1>2, <2>2
    <3> QED
      BY <1>1, <1>5, <1>6, <1>8, <1>9, <3>1, Zenon
  <2> QED
    BY <2>1, <2>2
<1>11. \A d \in Conns : conn'[d].st \in {"none", "queued", "open"} =>
                         conn'[d].got \o conn'[d].sock = <<>>
  BY <1>2, <1>6, <1>8, Zenon DEF StreamInv, c
<1> QED
  BY <1>1, <1>3, <1>7, <1>9, <1>10, <1>11, Zenon DEF StreamInv, Sent

LEMMA CloseKeeps ==
  ASSUME StreamInv, CloseStreams
  PROVE  StreamInv'
<1>1. /\ WebTypes /\ UNCHANGED <<lines, gLock, web>> /\ web.pc = "down" /\ sse' = {} /\ history' = <<>>
      /\ sse \subseteq Conns /\ conn \in [Conns -> Connection]
  BY DEF StreamInv, CloseStreams, WebTypes
<1>2. \A d \in Conns : conn'[d] = conn[d] \/ conn'[d] = [conn[d] EXCEPT !.st = "closed"]
  BY DEF CloseStreams
<1>3. conn' \in [Conns -> Connection]
  <2>1. \A d \in Conns : conn'[d] \in Connection
    <3> SUFFICES ASSUME NEW d \in Conns PROVE conn'[d] \in Connection
      OBVIOUS
    <3>1. conn[d] \in Connection /\ [conn[d] EXCEPT !.st = "closed"] \in Connection
      BY <1>1, Zenon DEF Connection
    <3> QED
      BY <1>2, <3>1
  <2> QED
    BY <2>1 DEF CloseStreams
<1>4. web \notin Serving
  BY <1>1 DEF Serving, Reading, Replaying, Adding
<1>5. WebTypes' /\ UpTo(history', lines')
  BY <1>1, <1>3, <1>4 DEF WebTypes, UpTo
<1>6. \A d \in Conns : conn'[d].st \in {"none", "queued", "open"} => conn'[d] = conn[d]
  BY <1>1, <1>2, Zenon DEF Connection
<1> QED
  BY <1>1, <1>5, <1>6 DEF StreamInv, Sent

LEMMA StreamInit ==
  ASSUME Init
  PROVE  StreamInv
<1>1. /\ conn = [c \in Conns |-> Fresh] /\ lines = 0 /\ history = <<>>
      /\ gLock = "free" /\ sse = {} /\ web = Accepting
  BY DEF Init, WebInit
<1>2. Fresh \in Connection /\ Fresh.st = "none" /\ Fresh.got \o Fresh.sock = <<>>
  BY DEF Fresh, Connection, Requests
<1>3. web \in Idle /\ web \notin Serving /\ web.pc = "accept"
  BY <1>1 DEF Accepting, Idle, Serving, Reading, Replaying, Adding
<1>4. WebTypes /\ UpTo(history, lines)
  BY <1>1, <1>2, <1>3 DEF WebTypes, UpTo
<1> QED
  BY <1>1, <1>2, <1>3, <1>4 DEF StreamInv, Sent

LEMMA StreamInvKept ==
  ASSUME StreamInv, [Next]_vars
  PROVE  StreamInv'
<1>1. CASE UNCHANGED webVars \/ UNCHANGED vars \/ StopListening
  <2>1. UNCHANGED <<conn, lines, history, gLock, sse, web>>
    BY <1>1 DEF vars, outVars, webVars, StopListening
  <2> QED
    BY <2>1, Zenon DEF StreamInv, WebTypes, Sent
<1>2. CASE WebThread
  BY <1>2, AcceptKeeps, RequestKeeps, PromoteKeeps, ReplayLineKeeps, JoinSseKeeps DEF WebThread
<1> QED
  BY <1>1, <1>2, WebSteps, PublishKeeps, ClientKeeps, RequestKeeps, CloseKeeps, Zenon

LEMMA StreamInvGapless ==
  ASSUME StreamInv
  PROVE  StreamGapless
<1> SUFFICES ASSUME NEW c \in sse, Peer(c)
             PROVE  Sent(c) = [i \in 1..Len(Sent(c)) |-> lines - Len(Sent(c)) + i]
  BY Zenon DEF StreamGapless, Sent
<1>1. /\ UpTo(Sent(c), lines) /\ conn[c] \in Connection
  BY DEF StreamInv, WebTypes, Peer
<1>2. Sent(c) \in Seq(Nat)
  BY <1>1, ConcatProperties DEF Connection, Sent
<1>3. DOMAIN Sent(c) = 1..Len(Sent(c)) /\ Sent(c) = [i \in DOMAIN Sent(c) |-> Sent(c)[i]]
  BY <1>2
<1> QED
  BY <1>1, <1>3 DEF UpTo

\* A stream never has a gap, whatever the numbers of connections, streams and
\* lines kept, and whichever threads publish.
THEOREM StreamsGapless == Spec => []StreamGapless
<1>1. Init => StreamInv
  BY StreamInit
<1>2. StreamInv /\ [Next]_vars => StreamInv'
  BY StreamInvKept
<1>3. StreamInv => StreamGapless
  BY StreamInvGapless
<1> QED
  BY <1>1, <1>2, <1>3, PTL DEF Spec

-----------------------------------------------------------------------------
(* Keys *)

Tasks == [pc : {"loop", "asleep", "done", "announce"}]
           \cup [pc : {"try"}, f : Frames, left : SUBSET WordList]
           \cup [pc : {"add"}, f : Frames, key : Keys]
Deliveries == [pc : {"idle"}, lock : {FALSE}]
           \cup [pc : {"replay", "geo", "event", "enqueue"}, lock : BOOLEAN, f : Frames,
                 open : BOOLEAN, known : BOOLEAN, left : SUBSET UsablePolygons]

\* The key set, and whatever may still be added to it, is made of entries.
KeyInv ==
  /\ entries \in Seq(Entry) /\ bucket \in [Hashes -> Seq(Nat)]
  /\ boot \in Parse /\ queue \in Seq(Frames)
  /\ psk \in Tasks /\ rx \in Deliveries
  /\ IndexExact

LEMMA IndexSame ==
  ASSUME IndexExact, UNCHANGED <<entries, bucket>>
  PROVE  IndexExact'
<1>1. \A h \in Hashes : IndicesOf(h)' = IndicesOf(h)
  BY DEF IndicesOf
<1> QED
  BY <1>1 DEF IndexExact

LEMMA AddKeeps ==
  ASSUME entries \in Seq(Entry), bucket \in [Hashes -> Seq(Nat)], IndexExact,
         NEW e \in Entry, KeysetAdd(e)
  PROVE  entries' \in Seq(Entry) /\ bucket' \in [Hashes -> Seq(Nat)] /\ IndexExact'
<1>1. CASE UNCHANGED keyVars
  BY <1>1, IndexSame, Zenon DEF keyVars
<1>2. CASE ~UNCHANGED keyVars
  <2> DEFINE n == Len(entries) + 1
  <2>1. /\ entries' = Append(entries, e) /\ e.hash \in Hashes
        /\ bucket' = [bucket EXCEPT ![e.hash] = Append(@, n)]
    BY <1>2 DEF KeysetAdd, Entry
  <2>2. /\ entries' \in Seq(Entry) /\ Len(entries) \in Nat /\ n \in Nat /\ n > 0
        /\ DOMAIN entries = 1..Len(entries) /\ DOMAIN entries' = 1..n
        /\ \A i \in 1..Len(entries) : entries'[i] = entries[i]
        /\ entries'[n] = e
    BY <2>1, AppendProperties
  <2> HIDE DEF n
  <2>3. ASSUME NEW h \in Hashes, h # e.hash
        PROVE  bucket'[h] = bucket[h] /\ IndicesOf(h)' = IndicesOf(h)
    BY <2>1, <2>2, <2>3 DEF IndicesOf, n
  <2>4. IndicesOf(e.hash)' = IndicesOf(e.hash) \cup {n}
    BY <2>1, <2>2 DEF IndicesOf, n
  <2>5. \A i \in IndicesOf(e.hash) : i \in Nat /\ i < n
    BY <2>2 DEF IndicesOf, n
  <2> DEFINE b == bucket[e.hash]
             m == Len(b) + 1
  <2>6. b \in Seq(Nat) /\ bucket'[e.hash] = Append(b, n) /\ bucket' \in [Hashes -> Seq(Nat)]
    BY <2>1, <2>2
  <2> HIDE DEF b
  <2>7. /\ Len(b) \in Nat /\ DOMAIN b = 1..Len(b) /\ DOMAIN Append(b, n) = 1..m
        /\ \A i \in 1..Len(b) : Append(b, n)[i] = b[i]
        /\ Append(b, n)[m] = n
    BY <2>2, <2>6, AppendProperties, SMTT(30)
  <2>8. /\ {b[i] : i \in DOMAIN b} = IndicesOf(e.hash)
        /\ \A i, j \in DOMAIN b : i < j => b[i] < b[j]
    BY <2>1 DEF IndexExact, b
  <2>9. {Append(b, n)[i] : i \in DOMAIN Append(b, n)} = IndicesOf(e.hash) \cup {n}
    <3> DEFINE a == Append(b, n)
    <3>1. DOMAIN a = DOMAIN b \cup {m} /\ a[m] = n /\ \A i \in DOMAIN b : a[i] = b[i]
      BY <2>7
    <3> HIDE DEF a, m
    <3>2. {a[i] : i \in DOMAIN a} = {b[i] : i \in DOMAIN b} \cup {n}
      BY ONLY <3>1
    <3> QED
      BY <2>8, <3>2, Zenon DEF a
  <2>10. \A i, j \in DOMAIN Append(b, n) : i < j => Append(b, n)[i] < Append(b, n)[j]
    <3> SUFFICES ASSUME NEW i \in 1..m, NEW j \in 1..m, i < j
                 PROVE  Append(b, n)[i] < Append(b, n)[j]
      BY <2>7
    <3>1. i \in DOMAIN b /\ b[i] \in IndicesOf(e.hash) /\ Append(b, n)[i] = b[i]
      BY <2>7, <2>8
    <3>2. CASE j = m
      BY <2>5, <2>7, <3>1, <3>2, Zenon
    <3>3. CASE j # m
      BY <2>7, <2>8, <3>1, <3>3, SMTT(30)
    <3> QED
      BY <3>2, <3>3, Zenon
  <2>11. ASSUME NEW h \in Hashes
         PROVE  /\ {bucket'[h][i] : i \in DOMAIN bucket'[h]} = IndicesOf(h)'
                /\ \A i, j \in DOMAIN bucket'[h] : i < j => bucket'[h][i] < bucket'[h][j]
    <3>1. CASE h = e.hash
      BY <2>4, <2>6, <2>9, <2>10, <3>1, Zenon
    <3>2. CASE h # e.hash
      BY <2>3, <3>2 DEF IndexExact
    <3> QED
      BY <3>1, <3>2, Zenon
  <2> QED
    BY <2>2, <2>6, <2>11 DEF IndexExact
<1> QED
  BY <1>1, <1>2

LEMMA CandidateType ==
  ASSUME NEW n \in WordList
  PROVE  Candidate(n) \in Keys
<1>1. n \in DOMAIN Lines /\ LineEntries(n) # <<>> /\ Lines \in Seq(Specs)
  BY InputAssumption DEF WordList, KeyLines
<1>2. Lines[n] \in Specs
  BY <1>1
<1>3. [Lines[n] EXCEPT !.named = FALSE] \in Specs
  BY <1>2, Zenon DEF Specs
<1>4. LineEntries(n) \in Seq(Entry)
  BY <1>3, SpecEntriesType DEF LineEntries
<1>5. LineEntries(n)[1] \in Entry
  BY <1>1, <1>4
<1> QED
  BY <1>5 DEF Candidate, Entry

LEMMA LoadKeysKeeps ==
  ASSUME KeyInv, LoadKeys
  PROVE  KeyInv'
<1>1. UNCHANGED <<queue, psk, rx>> /\ boot \in Parse
  BY DEF LoadKeys, pskVars, rxVars, KeyInv
<1>2. CASE boot.new # <<>>
  <2>1. KeysetAdd(Head(boot.new)) /\ boot' = TakeEntry(boot)
    BY <1>2 DEF LoadKeys, Parsed
  <2>2. Head(boot.new) \in Entry /\ boot' \in Parse
    BY <1>1, <1>2, <2>1, ParseTypes
  <2>3. entries' \in Seq(Entry) /\ bucket' \in [Hashes -> Seq(Nat)] /\ IndexExact'
    BY <2>1, <2>2, AddKeeps DEF KeyInv
  <2> QED
    BY <1>1, <2>2, <2>3 DEF KeyInv
<1>3. CASE boot.new = <<>>
  <2>1. UNCHANGED <<entries, bucket>> /\ boot' \in Parse
    BY <1>1, <1>3, ParseTypes DEF LoadKeys, Parsed, keyVars
  <2> QED
    BY <1>1, <2>1, IndexSame DEF KeyInv
<1> QED
  BY <1>2, <1>3

LEMMA DecodeKeeps ==
  ASSUME KeyInv, NEW f \in Frames, Decode(f), UNCHANGED boot
  PROVE  KeyInv'
<1>1. UNCHANGED <<queue, psk, entries, bucket>>
  BY DEF Decode, pskVars, keyVars
<1>2. Info[f].size \in {"short", "bare", "full"} /\ Opened(f) \in BOOLEAN /\ Known(f) \in BOOLEAN
  BY InputAssumption DEF Opened, Known
<1>3. rx' \in Deliveries
  BY <1>2, Zenon DEF Decode, Deliveries, Quiet
<1> QED
  BY <1>1, <1>3, IndexSame DEF KeyInv

LEMMA BusyDelivery ==
  ASSUME rx \in Deliveries, rx.pc # "idle"
  PROVE  rx \in [pc : {"replay", "geo", "event", "enqueue"}, lock : BOOLEAN, f : Frames,
                 open : BOOLEAN, known : BOOLEAN, left : SUBSET UsablePolygons]
BY Zenon DEF Deliveries

LEMMA EnqueueType ==
  ASSUME queue \in Seq(Frames), NEW f \in Frames, Enqueue(f)
  PROVE  queue' \in Seq(Frames)
<1>1. CASE Len(queue) = QueueSlots - 1
  <2>1. queue # <<>>
    BY <1>1, KeyAssumption
  <2>2. Tail(queue) \in Seq(Frames)
    BY <2>1, HeadTailProperties
  <2> QED
    BY <1>1, <2>2, AppendProperties DEF Enqueue
<1>2. CASE Len(queue) # QueueSlots - 1
  BY <1>2, AppendProperties DEF Enqueue
<1> QED
  BY <1>1, <1>2

LEMMA WokenType ==
  ASSUME psk \in Tasks
  PROVE  Woken \in Tasks
BY DEF Woken, Tasks

LEMMA RxKeeps ==
  ASSUME KeyInv, RxStep, UNCHANGED boot
  PROVE  KeyInv'
<1>1. UNCHANGED <<entries, bucket>>
  BY Zenon DEF RxStep, ReplayCheck, GeofenceCheck, EmitEvent, EnqueueFrame, keyVars
<1>2. rx \in [pc : {"replay", "geo", "event", "enqueue"}, lock : BOOLEAN, f : Frames,
              open : BOOLEAN, known : BOOLEAN, left : SUBSET UsablePolygons]
  BY BusyDelivery, Zenon DEF RxStep, ReplayCheck, GeofenceCheck, EmitEvent, EnqueueFrame, KeyInv
<1>3. Quiet \in Deliveries
  BY Zenon DEF Quiet, Deliveries
<1>4. CASE ReplayCheck
  <2>1. rx' = [rx EXCEPT !.pc = "geo", !.left = UsablePolygons] \/ rx' = [rx EXCEPT !.pc = "event"]
    BY <1>4 DEF ReplayCheck
  <2>2. rx' \in Deliveries
    BY <1>2, <2>1, Zenon DEF Deliveries
  <2> QED
    BY <1>1, <1>4, <2>2, IndexSame DEF ReplayCheck, pskVars, KeyInv
<1>5. CASE GeofenceCheck
  <2>1. PICK i : rx' = [rx EXCEPT !.left = @ \ {i}, !.pc = IF rx.left = {i} THEN "event" ELSE "geo"]
    BY <1>5, Zenon DEF GeofenceCheck
  <2>2. rx' \in Deliveries
    BY <1>2, <2>1, Zenon DEF Deliveries
  <2> QED
    BY <1>1, <1>5, <2>2, IndexSame DEF GeofenceCheck, pskVars, KeyInv
<1>6. CASE EmitEvent
  <2>1. rx' = Quiet \/ rx' = [rx EXCEPT !.pc = "enqueue"]
    BY <1>6 DEF EmitEvent
  <2>2. rx' \in Deliveries
    BY <1>2, <1>3, <2>1, Zenon DEF Deliveries
  <2> QED
    BY <1>1, <1>6, <2>2, IndexSame DEF EmitEvent, pskVars, KeyInv
<1>7. CASE EnqueueFrame
  <2>1. rx' = Quiet /\ Enqueue(rx.f) /\ psk' = Woken /\ rx.f \in Frames
    BY <1>2, <1>7 DEF EnqueueFrame
  <2>2. queue' \in Seq(Frames) /\ psk' \in Tasks
    BY <2>1, EnqueueType, WokenType DEF KeyInv
  <2> QED
    BY <1>1, <1>3, <2>1, <2>2, IndexSame DEF KeyInv
<1> QED
  BY <1>4, <1>5, <1>6, <1>7, Zenon DEF RxStep

LEMMA PskKeeps ==
  ASSUME KeyInv, PskStep, UNCHANGED boot
  PROVE  KeyInv'
<1>1. psk \in Tasks /\ queue \in Seq(Frames)
  BY DEF KeyInv
<1>2. CASE TakeFrame
  <2>1. UNCHANGED <<entries, bucket, rx>>
    BY <1>2 DEF TakeFrame, keyVars, rxVars
  <2>2. CASE UNCHANGED queue /\ psk' \in {[pc |-> "done"], [pc |-> "asleep"]}
    <3>1. psk' \in Tasks
      BY <2>2 DEF Tasks
    <3> QED
      BY <2>1, <2>2, <3>1, IndexSame, Zenon DEF KeyInv
  <2>3. CASE ~(UNCHANGED queue /\ psk' \in {[pc |-> "done"], [pc |-> "asleep"]})
    <3>1. /\ queue # <<>> /\ psk' = [pc |-> "try", f |-> Head(queue), left |-> WordList]
          /\ queue' = Tail(queue)
      BY <1>2, <2>3 DEF TakeFrame
    <3>2. Head(queue) \in Frames /\ Tail(queue) \in Seq(Frames)
      BY <1>1, <3>1, HeadTailProperties
    <3>3. psk' \in Tasks
      BY <3>1, <3>2 DEF Tasks
    <3> QED
      BY <2>1, <3>1, <3>2, <3>3, IndexSame, Zenon DEF KeyInv
  <2> QED
    BY <2>2, <2>3
<1>3. CASE TryCandidate
  <2>1. UNCHANGED <<entries, bucket, rx>> /\ psk.pc = "try"
    BY <1>3 DEF TryCandidate, keyVars, rxVars
  <2>2. psk \in [pc : {"try"}, f : Frames, left : SUBSET WordList] /\ psk.f \in Frames
    BY <1>1, <2>1 DEF Tasks
  <2>3. CASE UNCHANGED queue /\ psk' = [pc |-> "loop"]
    <3>1. psk' \in Tasks
      BY <2>3, Zenon DEF Tasks
    <3> QED
      BY <2>1, <2>3, <3>1, IndexSame DEF KeyInv
  <2>4. CASE ~(UNCHANGED queue /\ psk' = [pc |-> "loop"])
    <3>1. PICK n \in psk.left :
            \/ psk' = [pc |-> "add", f |-> psk.f, key |-> Candidate(n)] /\ UNCHANGED queue
            \/ psk' = [psk EXCEPT !.left = @ \ {n}] /\ Enqueue(psk.f)
      BY <1>3, <2>4 DEF TryCandidate
    <3>2. Candidate(n) \in Keys
      BY <2>2, CandidateType
    <3>3. psk' \in Tasks
      BY <2>2, <3>1, <3>2 DEF Tasks
    <3>4. queue' \in Seq(Frames)
      BY <1>1, <2>2, <3>1, EnqueueType
    <3> QED
      BY <2>1, <3>3, <3>4, IndexSame DEF KeyInv
  <2> QED
    BY <2>3, <2>4
<1>4. CASE AddDiscovered
  <2> DEFINE e == [hash |-> Info[psk.f].hash, key |-> psk.key]
  <2>1. UNCHANGED <<queue, rx>> /\ psk.pc = "add" /\ KeysetAdd(e) /\ psk' = [pc |-> "announce"]
    BY <1>4, Zenon DEF AddDiscovered, rxVars
  <2>2. psk.f \in Frames /\ psk.key \in Keys
    BY <1>1, <2>1, Zenon DEF Tasks
  <2>3. e \in Entry
    BY <2>2 DEF Entry, Hashes
  <2> HIDE DEF e
  <2>4. entries' \in Seq(Entry) /\ bucket' \in [Hashes -> Seq(Nat)] /\ IndexExact'
    BY <2>1, <2>3, AddKeeps, Zenon DEF KeyInv
  <2>5. psk' \in Tasks
    BY <2>1, Zenon DEF Tasks
  <2> QED
    BY <2>1, <2>4, <2>5, Zenon DEF KeyInv
<1>5. CASE Announce
  <2>1. UNCHANGED <<entries, bucket, rx, queue>> /\ psk' = [pc |-> "loop"]
    BY <1>5, Zenon DEF Announce, keyVars, rxVars
  <2>2. psk' \in Tasks
    BY <2>1 DEF Tasks
  <2> QED
    BY <2>1, <2>2, IndexSame DEF KeyInv
<1> QED
  BY <1>2, <1>3, <1>4, <1>5 DEF PskStep

LEMMA AddRequestedKeeps ==
  ASSUME KeyInv, WebTypes, AddRequested, UNCHANGED boot
  PROVE  KeyInv'
<1>1. UNCHANGED <<queue, psk, rx>> /\ web.todo \in Parse
  BY ServingFacts DEF AddRequested, pskVars, rxVars, Adding
<1>2. CASE UNCHANGED keyVars
  BY <1>1, <1>2, IndexSame DEF keyVars, KeyInv
<1>3. CASE ~UNCHANGED keyVars
  <2>1. web.todo.new # <<>> /\ KeysetAdd(Head(web.todo.new))
    BY <1>3 DEF AddRequested
  <2>2. Head(web.todo.new) \in Entry
    BY <1>1, <2>1, ParseTypes
  <2>3. entries' \in Seq(Entry) /\ bucket' \in [Hashes -> Seq(Nat)] /\ IndexExact'
    BY <2>1, <2>2, AddKeeps DEF KeyInv
  <2> QED
    BY <1>1, <2>3 DEF KeyInv
<1> QED
  BY <1>2, <1>3

LEMMA KeyInvKept ==
  ASSUME KeyInv, WebTypes, [Next]_vars
  PROVE  KeyInv'
<1>1. CASE UNCHANGED vars
  BY <1>1, IndexSame DEF vars, keyVars, pskVars, rxVars, KeyInv
<1>2. CASE UNCHANGED <<keyVars, rxVars, queue, boot>> /\ psk' \in {psk, Woken}
  BY <1>2, WokenType, IndexSame DEF keyVars, rxVars, KeyInv
<1>3. CASE UNCHANGED boot /\ (WebStep \/ Client \/ HookThread \/ StopWeb \/ MainStep)
  <2>1. AddRequested \/ (UNCHANGED <<keyVars, rxVars, queue, boot>> /\ psk' \in {psk, Woken})
    BY <1>3, Zenon DEF WebStep, Client, HookThread, StopWeb, MainStep, Elsewhere, RouteKeys, pskVars,
                JoinWeb, StopSearch, JoinSearch, StopHook, JoinHook
  <2> QED
    BY <1>2, <1>3, <2>1, AddRequestedKeeps, Zenon
<1> QED
  BY <1>1, <1>3, LoadKeysKeeps, DecodeKeeps, RxKeeps, PskKeeps, Zenon DEF Next, Running

LEMMA KeyInit ==
  ASSUME Init
  PROVE  KeyInv
<1>1. /\ entries = <<>> /\ bucket = [h \in Hashes |-> <<>>] /\ boot = Parsing(Start)
      /\ queue = <<>> /\ psk = [pc |-> "loop"] /\ rx = Quiet
  BY Zenon DEF Init
<1>2. boot \in Parse
  <2>1. Start \in Seq(Specs)
    BY InputAssumption, Zenon
  <2> QED
    BY ONLY <1>1, <2>1 DEF Parsing, Parse
<1>3. psk \in Tasks /\ rx \in Deliveries
  BY <1>1 DEF Tasks, Deliveries, Quiet
<1>4. bucket \in [Hashes -> Seq(Nat)] /\ entries \in Seq(Entry) /\ queue \in Seq(Frames)
  BY <1>1
<1>5. IndexExact
  <2> SUFFICES ASSUME NEW h \in Hashes
               PROVE  /\ {bucket[h][i] : i \in DOMAIN bucket[h]} = IndicesOf(h)
                      /\ \A i, j \in DOMAIN bucket[h] : i < j => bucket[h][i] < bucket[h][j]
    BY DEF IndexExact
  <2>1. bucket[h] = <<>> /\ DOMAIN bucket[h] = {} /\ IndicesOf(h) = {}
    BY <1>1 DEF IndicesOf
  <2> QED
    BY ONLY <2>1, Zenon
<1> QED
  BY <1>2, <1>3, <1>4, <1>5 DEF KeyInv

\* The index of the key set is exact whatever is added by the configuration,
\* by requests and by the search, and however small the buckets are.
THEOREM IndexStaysExact == Spec => []IndexExact
<1>1. Init => StreamInv /\ KeyInv
  BY StreamInit, KeyInit, Zenon
<1>2. StreamInv /\ KeyInv /\ [Next]_vars => (StreamInv /\ KeyInv)'
  BY StreamInvKept, KeyInvKept, Zenon DEF StreamInv
<1>3. KeyInv => IndexExact
  BY Zenon DEF KeyInv
<1> QED
  BY <1>1, <1>2, <1>3, PTL DEF Spec

-----------------------------------------------------------------------------
(* Events *)

Heard(f) == \E i \in 1..heard : Air[i] = f

\* A frame is looked up and published at most once, and what a known key opens
\* is open.
EventInv ==
  /\ heard \in 0..Len(Air)
  /\ emitted \in [Frames -> Seq([dec : BOOLEAN, known : BOOLEAN])]
  /\ \A f \in Frames : emitted[f] # <<>> => Heard(f)
  /\ rx.pc # "idle" => Heard(rx.f) /\ (rx.known => rx.open)
  /\ rx.pc \in {"replay", "geo", "event"} => emitted[rx.f] = <<>>
  /\ OneTrueEvent

LEMMA KnownOpened ==
  ASSUME KeyInv, NEW f \in Frames, Known(f)
  PROVE  Opened(f)
<1> DEFINE h == Info[f].hash
<1>1. PICK i \in DOMAIN entries : entries[i].hash = h /\ Parses(entries[i].key, f)
  BY DEF Known
<1>2. h \in Hashes /\ i \in IndicesOf(h)
  BY <1>1, Zenon DEF Hashes, IndicesOf
<1>3. PICK j \in DOMAIN bucket[h] : bucket[h][j] = i
  BY <1>2, ZenonT(30) DEF KeyInv, IndexExact
<1> QED
  BY <1>1, <1>3, Zenon DEF Opened

LEMMA EventInvDecode ==
  ASSUME EventInv, KeyInv, NEW f \in Frames, Decode(f)
  PROVE  EventInv'
<1>1. /\ heard < Len(Air) /\ f = Air[heard + 1] /\ heard' = heard + 1 /\ emitted' = emitted
      /\ heard \in Nat /\ Len(Air) \in Nat /\ Air \in Seq(Frames)
      /\ \A i, j \in DOMAIN Air : Air[i] = Air[j] => i = j
  BY InputAssumption DEF Decode, EventInv
<1>2. heard' \in 0..Len(Air)
  BY <1>1
<1>3. ~Heard(f)
  <2> SUFFICES ASSUME NEW i \in 1..heard, Air[i] = f PROVE FALSE
    BY DEF Heard
  <2>1. i \in DOMAIN Air /\ heard + 1 \in DOMAIN Air
    BY <1>1
  <2>2. i = heard + 1
    BY <1>1, <2>1
  <2> QED
    BY <1>1, <2>2
<1>4. Heard(f)' /\ \A g \in Frames : Heard(g) => Heard(g)'
  BY <1>1 DEF Heard
<1>5. emitted[f] = <<>>
  BY <1>3, Zenon DEF EventInv
<1>6. Info[f].size \in {"short", "bare", "full"} /\ Opened(f) \in BOOLEAN /\ Known(f) \in BOOLEAN
  BY InputAssumption, Zenon DEF Opened, Known
<1>7. rx'.pc = "idle" \/ (rx'.f = f /\ (rx'.known => rx'.open))
  <2>1. CASE Info[f].size = "short"
    BY <2>1 DEF Decode, Quiet
  <2>2. CASE Info[f].size = "bare"
    BY <2>2 DEF Decode
  <2>3. CASE Info[f].size = "full"
    BY <2>3, KnownOpened, ZenonT(30) DEF Decode
  <2> QED
    BY <1>6, <2>1, <2>2, <2>3
<1>8. OneTrueEvent'
  BY <1>1 DEF EventInv, OneTrueEvent
<1> QED
  BY <1>1, <1>2, <1>4, <1>5, <1>7, <1>8 DEF EventInv

\* The steps of a delivery before and after its event.
LEMMA EventInvMove ==
  ASSUME EventInv, UNCHANGED <<heard, emitted>>, rx.pc # "idle",
         \/ rx'.pc = "idle"
         \/ /\ rx.pc \in {"replay", "geo"}
            /\ rx'.f = rx.f /\ rx'.known = rx.known /\ rx'.open = rx.open
  PROVE  EventInv'
<1>1. Heard(rx.f) /\ (rx.known => rx.open)
  BY DEF EventInv
<1>2. rx'.pc # "idle" => emitted[rx.f] = <<>>
  BY Zenon DEF EventInv
<1>3. OneTrueEvent'
  BY Zenon DEF EventInv, OneTrueEvent
<1> QED
  BY <1>1, <1>2, <1>3 DEF EventInv, Heard

LEMMA EventInvEmit ==
  ASSUME EventInv, KeyInv, EmitEvent
  PROVE  EventInv'
<1> DEFINE e == [dec |-> Decrypted, known |-> rx.known]
           g == rx.f
<1>1. /\ rx.pc = "event" /\ heard' = heard /\ g \in Frames
      /\ rx.known \in BOOLEAN /\ rx.open \in BOOLEAN /\ Info[g].crc \in BOOLEAN
      /\ emitted[g] = <<>> /\ Heard(g) /\ (rx.known => rx.open)
  <2>1. rx.pc = "event" /\ heard' = heard
    BY DEF EmitEvent
  <2>2. g \in Frames /\ rx.known \in BOOLEAN /\ rx.open \in BOOLEAN
    BY <2>1, BusyDelivery DEF KeyInv
  <2>3. emitted[g] = <<>> /\ Heard(g) /\ (rx.known => rx.open)
    BY <2>1, Zenon DEF EventInv
  <2> QED
    BY <2>1, <2>2, <2>3, InputAssumption
<1>2. e \in [dec : BOOLEAN, known : BOOLEAN] /\ (e.known /\ Info[g].crc => e.dec)
  BY <1>1, Zenon DEF Decrypted
<1>3. emitted' = [emitted EXCEPT ![g] = Append(@, e)]
  BY DEF EmitEvent
<1>4. emitted \in [Frames -> Seq([dec : BOOLEAN, known : BOOLEAN])]
  BY DEF EventInv
<1>5. rx' = Quiet \/ rx' = [rx EXCEPT !.pc = "enqueue"]
  BY DEF EmitEvent
<1> HIDE DEF e, g
<1>6. /\ Append(<<>>, e) \in Seq([dec : BOOLEAN, known : BOOLEAN])
      /\ Len(Append(<<>>, e)) = 1 /\ DOMAIN Append(<<>>, e) = {1} /\ Append(<<>>, e)[1] = e
  BY ONLY <1>2
<1>7. /\ emitted' \in [Frames -> Seq([dec : BOOLEAN, known : BOOLEAN])]
      /\ emitted'[g] = Append(<<>>, e)
      /\ \A f \in Frames \ {g} : emitted'[f] = emitted[f]
  BY ONLY <1>1, <1>3, <1>4, <1>6, Zenon
<1>8. ASSUME NEW f \in Frames
      PROVE  /\ Len(emitted'[f]) <= 1
             /\ \A i \in DOMAIN emitted'[f] : emitted'[f][i].known /\ Info[f].crc => emitted'[f][i].dec
             /\ emitted'[f] # <<>> => Heard(f)
  <2>1. CASE f = g
    <3>1. \A i \in DOMAIN Append(<<>>, e) : Append(<<>>, e)[i] = e
      BY ONLY <1>6
    <3>2. Len(emitted'[f]) <= 1
      <4>1. Len(emitted'[f]) = 1
        BY ONLY <1>6, <1>7, <2>1, Zenon
      <4> QED
        BY ONLY <4>1
    <3>3. \A i \in DOMAIN emitted'[f] : emitted'[f][i] = e
      BY ONLY <1>7, <2>1, <3>1, Zenon
    <3>4. Heard(f)
      BY <1>1, <2>1, Zenon
    <3> QED
      BY ONLY <1>2, <2>1, <3>2, <3>3, <3>4, Zenon
  <2>2. CASE f # g
    BY <1>7, <2>2, Zenon DEF EventInv, OneTrueEvent
  <2> QED
    BY <2>1, <2>2
<1>9. OneTrueEvent'
  BY <1>8 DEF OneTrueEvent
<1>10. rx'.pc = "idle" \/ (rx'.pc = "enqueue" /\ rx'.f = g /\ rx'.known = rx.known /\ rx'.open = rx.open)
  <2>1. rx \in [pc : {"replay", "geo", "event", "enqueue"}, lock : BOOLEAN, f : Frames,
                open : BOOLEAN, known : BOOLEAN, left : SUBSET UsablePolygons]
    BY <1>1, BusyDelivery, Zenon DEF KeyInv
  <2> QED
    BY <1>5, <2>1, SMTT(30) DEF Quiet, g
<1>11. \A f \in Frames : Heard(f)' <=> Heard(f)
  BY <1>1, Zenon DEF Heard
<1>12. rx'.pc # "idle" => Heard(rx.f)' /\ (rx'.known => rx'.open)
  BY <1>1, <1>10, <1>11 DEF Heard
<1> QED
  BY <1>1, <1>7, <1>8, <1>9, <1>10, <1>11, <1>12, Zenon DEF EventInv

LEMMA EventInvKept ==
  ASSUME EventInv, KeyInv, [Next]_vars
  PROVE  EventInv'
<1>1. CASE UNCHANGED <<heard, emitted, rx>>
  BY <1>1 DEF EventInv, Heard, OneTrueEvent
<1>2. CASE ReplayCheck \/ GeofenceCheck \/ EnqueueFrame
  <2>1. UNCHANGED <<heard, emitted>> /\ rx.pc # "idle"
    BY <1>2, Zenon DEF ReplayCheck, GeofenceCheck, EnqueueFrame
  <2>2. rx \in [pc : {"replay", "geo", "event", "enqueue"}, lock : BOOLEAN, f : Frames,
                open : BOOLEAN, known : BOOLEAN, left : SUBSET UsablePolygons]
    BY <2>1, BusyDelivery DEF KeyInv
  <2>3. \/ rx'.pc = "idle"
        \/ /\ rx.pc \in {"replay", "geo"}
           /\ rx'.f = rx.f /\ rx'.known = rx.known /\ rx'.open = rx.open
    <3>1. CASE ReplayCheck
      <4>1. /\ rx.pc = "replay"
            /\ \/ rx' = [rx EXCEPT !.pc = "geo", !.left = UsablePolygons]
               \/ rx' = [rx EXCEPT !.pc = "event"]
        BY <3>1 DEF ReplayCheck
      <4> QED
        BY ONLY <2>2, <4>1, Zenon
    <3>2. CASE GeofenceCheck
      <4>1. rx.pc = "geo"
        BY <3>2 DEF GeofenceCheck
      <4>2. PICK i : rx' = [rx EXCEPT !.left = @ \ {i}, !.pc = IF rx.left = {i} THEN "event" ELSE "geo"]
        BY <3>2, Zenon DEF GeofenceCheck
      <4> QED
        BY ONLY <2>2, <4>1, <4>2
    <3>3. CASE EnqueueFrame
      BY <3>3 DEF EnqueueFrame, Quiet
    <3> QED
      BY <1>2, <3>1, <3>2, <3>3
  <2> QED
    BY <2>1, <2>3, EventInvMove, Zenon
<1>3. CASE LoadKeys \/ PskStep \/ WebStep \/ Client \/ HookThread \/ StopWeb \/ MainStep \/ UNCHANGED vars
  <2>1. UNCHANGED rxVars
    BY <1>3 DEF LoadKeys, PskStep, WebStep, Client, HookThread, StopWeb, MainStep, Elsewhere, RouteKeys,
                AddRequested, TakeFrame, TryCandidate, AddDiscovered, Announce,
                JoinWeb, StopSearch, JoinSearch, StopHook, JoinHook, vars
  <2> QED
    BY <1>1, <2>1, ZenonT(30) DEF rxVars
<1> QED
  BY <1>2, <1>3, EventInvDecode, EventInvEmit, ZenonT(30) DEF Next, Running, RxStep

\* Every frame heard is published at most once, and as a decrypted one if its
\* checksum holds and any key present at its look-up opens it.
THEOREM EventsOnceAndTrue == Spec => []OneTrueEvent
<1>1. Init => StreamInv /\ KeyInv /\ EventInv
  <2> SUFFICES ASSUME Init PROVE EventInv
    BY StreamInit, KeyInit, ZenonT(30)
  <2>1. heard = 0 /\ rx = Quiet /\ emitted = [f \in Frames |-> <<>>] /\ Len(Air) \in Nat
    BY InputAssumption DEF Init
  <2>2. OneTrueEvent
    BY <2>1, SMTT(30) DEF OneTrueEvent
  <2> QED
    BY <2>1, <2>2 DEF EventInv, Quiet
<1>2. StreamInv /\ KeyInv /\ EventInv /\ [Next]_vars => (StreamInv /\ KeyInv /\ EventInv)'
  BY StreamInvKept, KeyInvKept, EventInvKept, Zenon DEF StreamInv
<1>3. EventInv => OneTrueEvent
  BY DEF EventInv
<1> QED
  BY <1>1, <1>2, <1>3, PTL DEF Spec
=============================================================================
