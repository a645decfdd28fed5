----------------------------- MODULE EventStore -----------------------------
(* The SQLite history of a MeshCore sensor.  One thread (drain) decodes what *)
(* the receiver hears and inserts it.  Others add channels while it runs:    *)
(* the dashboard's and the hub's handlers (Clients) and start-up (Main) look *)
(* through the history for rows the new key opens; the dictionary attack     *)
(* (Dict) only adds.  Between two processes the offline passes rewrite rows. *)
(* A row survives a crash; channels, queues and caches do not.               *)
EXTENDS ChannelSet

CONSTANTS
  Air,             \* the frames heard, in order
  Clients, Main, Dict,
  Forms,           \* lines a client may post
  MaxAdds,         \* bound on the lines posted
  MaxCrashes,      \* bound on stops of the process
  MaxPasses,       \* bound on rows an offline pass rewrites
  TagCap, RegCap,  \* queues of the two dictionaries
  RegionWords, MaxConfirmed,
  NodeCap,         \* NODE_DB_CAP
  TrustedOnly,     \* --trusted-only
  ViewKinds, Limit \* kinds of history a browser opens, rows per page

VARIABLES
  phase,    \* "down", "restore" or "live"
  rows,     \* table events
  nodes,    \* table nodes: id -> name
  chans,    \* the channel set
  wiped,    \* entry a writer has cleared and not yet filled
  adder,    \* threads that add channels
  drain,    \* the thread that publishes
  tagq, regq, regions,   \* dictionary queues, confirmed regions
  cache,    \* node_db in memory, oldest first
  heard, spent,
  view,     \* what one browser has scrolled through
  late, swept, bound   \* history variables, see the invariants

vars == <<phase, rows, nodes, chans, wiped, adder, drain, tagq, regq, regions,
          cache, heard, spent, view, late, swept, bound>>
live == <<chans, wiped, adder, drain, tagq, regq, regions, cache>>

Adders == Clients \cup {Main, Dict}
Quiet  == [pc |-> "idle", todo |-> <<>>, left |-> {}, row |-> 0, idx |-> 0]
Rest   == [pc |-> "idle", idx |-> 0, region |-> "none"]
NoView == [kind |-> "none", hash |-> 0, name |-> NoName, node |-> 0]
Closed == [on |-> FALSE, of |-> NoView, base |-> {}, shown |-> {},
           before |-> 0, done |-> FALSE]
RowTs(at) == 2 * at + 1
Fr(i) == Air[rows[i].at]

\* A full queue loses its oldest element.
Push(q, x, cap) == Append(IF Len(q) >= cap THEN Tail(q) ELSE q, x)

\* A frame for the hashtag dictionary, which runs only if it has a word.
DictStarted == Candidates # <<>>
TagEnqueue(at) == IF DictStarted THEN Push(tagq, at, TagCap) ELSE tagq

\* ----------------------------------------------------------------- regions
\* A transport code names its region only while the payload is intact.
CodeMatches(f, r) == f.mac /\ f.scope = r
ResolveFast(f) == \E r \in regions : CodeMatches(f, r)
ResolveFull(f) == \E r \in RegionWords : CodeMatches(f, r)
RegionSeen(f) == IF ResolveFast(f) THEN f.scope ELSE "none"
\* A code that no confirmed region explains goes to the worker.
RegionEnqueue(at) ==
  IF Air[at].scope # "none" /\ ~ResolveFast(Air[at]) THEN Push(regq, at, RegCap) ELSE regq
RememberConfirmed(f) ==
  IF Cardinality(regions) < MaxConfirmed THEN regions \cup {f.scope} ELSE regions

\* ------------------------------------------------------------ serialisation
Json(ev, ts) == [ts |-> ts, name |-> ev.name, text |-> ev.dec /\ ev.text,
                 region |-> ev.region]

\* Serialising an event that carries a node's identity remembers the node:
\* the label, or "" when the event has none.
Label(f) == IF f.type = "advert" THEN f.label ELSE ""
Sighting(f, ev) ==
  IF ev.dec /\ ((f.type = "advert" /\ f.label # "") \/ (f.type = "control" /\ f.sub = "resp"))
  THEN {f} ELSE {}

\* A new name replaces the old one; an empty one does not.
Kept(old, new) == IF new = "" THEN old ELSE new
FirstKept(old, new) == IF old = "" THEN new ELSE old

Upserted(table, id, name) ==
  [x \in DOMAIN table \cup {id} |->
     IF x # id THEN table[x]
     ELSE IF id \in DOMAIN table THEN Kept(table[id], name) ELSE name]
UpsertedOnce(table, id, name) ==
  [x \in DOMAIN table \cup {id} |->
     IF x # id THEN table[x]
     ELSE IF id \in DOMAIN table THEN FirstKept(table[id], name) ELSE name]
PersistHook(table, id, name) == Upserted(table, id, name)
Persisted(table, see) ==
  IF see = {} THEN table ELSE LET f == CHOOSE f \in see : TRUE IN PersistHook(table, f.who, Label(f))

Remembered(c, id, name) ==
  LET at == {k \in DOMAIN c : c[k].id = id} IN
  IF at # {} THEN [c EXCEPT ![MinOf(at)].name = Kept(@, name)]
  ELSE Push(c, [id |-> id, name |-> name], NodeCap)

\* A node read back from the table: not a sighting, so nothing is persisted.
NodeDbLoad(c, id, name) == Remembered(c, id, name)

\* ------------------------------------------------------------ the publisher
\* Decoding takes the read lock for the search of a key.
Hear ==
  /\ phase = "live" /\ drain.pc = "idle" /\ heard < Len(Air)
  /\ LET f == Air[heard + 1]
         idx == GrpDecrypt(chans, f)
     IN /\ f.type \in Group => wiped = 0
        /\ heard' = heard + 1
        /\ regq' = IF Parses(f) THEN RegionEnqueue(heard + 1) ELSE regq
        /\ drain' = IF Refused(f, idx) THEN drain
                    ELSE [pc |-> "store", idx |-> idx, region |-> RegionSeen(f)]
  /\ UNCHANGED <<phase, rows, nodes, chans, wiped, adder, tagq, regions, cache,
                 spent, view, late, swept, bound>>

\* What an entry shows without the lock: nothing while a writer rewrites it.
ReadEntry(idx) ==
  IF idx = 0 \/ wiped = idx THEN [name |-> NoName, hash |-> 0]
  ELSE [name |-> chans[idx].name, hash |-> HashOf(chans[idx].secret)]

NodeColumn(f, ev) ==
  IF f.type = "advert" \/ (f.type = "control" /\ ev.dec /\ f.sub = "resp") THEN f.who
  ELSE IF f.type \in Group THEN 100 + ev.hash ELSE 0

\* A row of the table; mac tells whether the bytes its columns were
\* decoded from are the ones that were sent.
Row(at, st) ==
  LET ev == st.ev IN
  [at |-> at, json |-> Json(ev, 2 * at), dec |-> ev.dec, crc |-> st.crc,
   bits |-> st.bits, name |-> ev.name, hash |-> IF ev.hash = 0 THEN NoHash ELSE ev.hash,
   mac |-> Air[at].mac, text |-> ev.dec /\ ev.text, tele |-> ev.dec /\ ev.tele, node |-> NodeColumn(Air[at], ev)]

\* The name is read after the lock is released; then the event is stamped,
\* serialised, inserted and, if the decoder could not open it, handed to the
\* dictionary.
StoreEvent ==
  /\ drain.pc = "store"
  /\ LET f   == Air[heard]
         ev  == DecodeEvent(f, drain.idx, ReadEntry(drain.idx), drain.region)
         st  == Stamp(f, ev)
         see == Sighting(f, st.ev)
         row == Row(heard, st)
         trusted == st.crc = "ok" \/ (st.crc = "none" /\ st.ev.dec)
     IN /\ IF TrustedOnly /\ ~trusted THEN UNCHANGED <<rows, nodes, cache, late>>
           ELSE /\ rows' = Append(rows, row)
                /\ nodes' = Persisted(nodes, see)
                /\ cache' = IF see = {} THEN cache ELSE Remembered(cache, f.who, Label(f))
                /\ late' = IF ~row.dec /\ \E e \in DOMAIN chans : Opens(chans[e].secret, f)
                           THEN late \cup {Len(rows) + 1} ELSE late
        /\ tagq' = IF f.type \in Group /\ ~ev.dec THEN TagEnqueue(heard) ELSE tagq
  /\ drain' = Rest
  /\ UNCHANGED <<phase, chans, wiped, adder, regq, regions, heard, spent, view, swept, bound>>

RegionWorker ==
  /\ regq # <<>>
  /\ LET f == Air[Head(regq)] IN
     regions' = IF ResolveFull(f) THEN RememberConfirmed(f) ELSE regions
  /\ regq' = Tail(regq)
  /\ UNCHANGED <<phase, rows, nodes, chans, wiped, adder, drain, tagq, cache, heard,
                 spent, view, late, swept, bound>>

\* ---------------------------------------------------------- adding channels
Task(es, scan) == [k \in DOMAIN es |-> [e |-> es[k], scan |-> scan]]
Working(w, todo) == [Quiet EXCEPT !.pc = IF todo = <<>> THEN "idle" ELSE "add", !.todo = todo]

PostForm(w) ==
  /\ phase = "live" /\ w \in Clients /\ adder[w].pc = "idle" /\ spent.adds < MaxAdds
  /\ \E t \in Forms : adder' = [adder EXCEPT ![w] = Working(w, Task(TokenEntries(t), TRUE))]
  /\ spent' = [spent EXCEPT !.adds = @ + 1]
  /\ UNCHANGED <<phase, rows, nodes, chans, wiped, drain, tagq, regq, regions, cache,
                 heard, view, late, swept, bound>>

DictThread ==
  /\ adder[Dict].pc = "idle" /\ tagq # <<>>
  /\ adder' = [adder EXCEPT ![Dict] = Working(Dict, Task(TryCandidates(Air[Head(tagq)]), FALSE))]
  /\ tagq' = Tail(tagq)
  /\ UNCHANGED <<phase, rows, nodes, chans, wiped, drain, regq, regions, cache, heard,
                 spent, view, late, swept, bound>>

\* What follows an added entry: the scan, the next entry, or the end.
Next1(a, scan) ==
  IF scan THEN [a EXCEPT !.pc = "query"]
  ELSE Working(0, Tail(a.todo))

\* History variable: the keys of the set that came with a scan.
SweptBy(item, cs) ==
  (swept \cup IF item.scan THEN {item.e.secret} ELSE {}) \cap {cs[i].secret : i \in DOMAIN cs}

\* The writer takes the lock.  A name already there is rewritten in place,
\* which a reader without the lock can see; a new one is appended, or refused
\* when the set is full.
AddChannel(w) ==
  /\ adder[w].pc = "add" /\ wiped = 0
  /\ LET item == Head(adder[w].todo)
         i == At(chans, item.e.name)
     IN \/ /\ i # 0
           /\ wiped' = i
           /\ adder' = [adder EXCEPT ![w].pc = "fill", ![w].idx = i]
           /\ UNCHANGED <<chans, swept, bound>>
        \/ /\ i = 0 /\ Len(chans) < MaxEntries
           /\ chans' = Append(chans, item.e)
           /\ swept' = SweptBy(item, chans')
           /\ bound' = bound \cup {<<item.e.name, item.e.secret>>}
           /\ adder' = [adder EXCEPT ![w] = Next1(@, item.scan)]
           /\ UNCHANGED wiped
        \/ /\ i = 0 /\ Len(chans) >= MaxEntries
           /\ adder' = [adder EXCEPT ![w] = Working(w, Tail(adder[w].todo))]
           /\ UNCHANGED <<chans, wiped, swept, bound>>
  /\ UNCHANGED <<phase, rows, nodes, drain, tagq, regq, regions, cache, heard, spent,
                 view, late>>

FillChannel(w) ==
  /\ adder[w].pc = "fill"
  /\ LET item == Head(adder[w].todo) IN
     /\ chans' = [chans EXCEPT ![adder[w].idx] = item.e]
     /\ swept' = SweptBy(item, chans')
     /\ bound' = bound \cup {<<item.e.name, item.e.secret>>}
     /\ adder' = [adder EXCEPT ![w] = Next1([@ EXCEPT !.idx = 0], item.scan)]
  /\ wiped' = 0
  /\ UNCHANGED <<phase, rows, nodes, drain, tagq, regq, regions, cache, heard, spent,
                 view, late>>

\* The rows a scan looks at, chosen by their hash column.
ClosedRows(h) == {i \in DOMAIN rows : rows[i].hash = h /\ ~rows[i].dec /\ Fr(i).type \in Group}
ClosedRowsButLast(h) == ClosedRows(h) \ {Len(rows)}
UndecryptedRows(h) == ClosedRows(h)

QueryRows(w) ==
  /\ adder[w].pc = "query"
  /\ LET a == adder[w]
         hit == UndecryptedRows(HashOf(Head(a.todo).e.secret))
     IN adder' = [adder EXCEPT ![w] = IF hit = {} THEN Working(w, Tail(a.todo))
                                      ELSE [a EXCEPT !.pc = "scan", !.left = hit]]
  /\ UNCHANGED <<phase, rows, nodes, chans, wiped, drain, tagq, regq, regions, cache,
                 heard, spent, view, late, swept, bound>>

\* One row: decrypted under the read lock with whatever the set now holds.
Reopen(w) ==
  /\ adder[w].pc = "scan" /\ wiped = 0
  /\ LET a == adder[w]
         i == MinOf(a.left)
         idx == GrpDecrypt(chans, Fr(i))
         rest == a.left \ {i}
     IN adder' = [adder EXCEPT ![w] =
          IF idx # 0 /\ Fr(i).sound
          THEN [a EXCEPT !.pc = "apply", !.left = rest, !.row = i, !.idx = idx]
          ELSE IF rest = {} THEN Working(w, Tail(a.todo)) ELSE [a EXCEPT !.left = rest]]
  /\ UNCHANGED <<phase, rows, nodes, chans, wiped, drain, tagq, regq, regions, cache,
                 heard, spent, view, late, swept, bound>>

\* The row is rewritten: not its hash, not its telemetry.
Reopened(r, ev) == [r EXCEPT !.dec = TRUE, !.name = ev.name, !.text = ev.text,
                             !.json = Json(ev, RowTs(r.at))]

ApplyRedecrypt(w) ==
  /\ adder[w].pc = "apply"
  /\ LET a  == adder[w]
         i  == a.row
         f  == Fr(i)
         ev == DecodeEvent(f, a.idx, ReadEntry(a.idx), RegionSeen(f))
     IN /\ rows' = [rows EXCEPT ![i] = Reopened(@, ev)]
        /\ regq' = RegionEnqueue(rows[i].at)
        /\ adder' = [adder EXCEPT ![w] =
             IF a.left = {} THEN Working(w, Tail(a.todo))
             ELSE [a EXCEPT !.pc = "scan", !.row = 0, !.idx = 0]]
  /\ UNCHANGED <<phase, nodes, chans, wiped, drain, tagq, regions, cache, heard, spent,
                 view, late, swept, bound>>

\* ------------------------------------------------------- stopping, starting
\* The process stops between any two steps.
Crash ==
  /\ phase # "down" /\ spent.crashes < MaxCrashes
  /\ phase' = "down"
  /\ spent' = [spent EXCEPT !.crashes = @ + 1]
  /\ chans' = <<>> /\ wiped' = 0 /\ adder' = [w \in Adders |-> Quiet] /\ drain' = Rest
  /\ tagq' = <<>> /\ regq' = <<>> /\ regions' = {} /\ cache' = <<>>
  /\ view' = Closed
  /\ late' = {} /\ swept' = {}
  /\ UNCHANGED <<rows, nodes, heard, bound>>

\* The names of the history, by hash; at most as many as the set has room for.
KnownChannelNames ==
  LET ps == {<<rows[i].hash, rows[i].name>> :
               i \in {i \in DOMAIN rows : rows[i].hash # NoHash /\ rows[i].name # NoName}}
      n  == Cardinality(ps)
      s  == CHOOSE s \in [1..n -> ps] :
              \A i, j \in 1..n : i < j => s[i] # s[j] /\ s[i][1] <= s[j][1]
  IN [k \in 1..(IF n < MaxEntries THEN n ELSE MaxEntries) |-> s[k][2]]

\* The node table read back, in the order of the ids, without touching it.
LoadedNodes ==
  LET ids == DOMAIN nodes
      nth(k) == CHOOSE i \in ids : Cardinality({j \in ids : j <= i}) = k
      L[k \in 0..Cardinality(ids)] ==
        IF k = 0 THEN <<>> ELSE NodeDbLoad(L[k - 1], nth(k), nodes[nth(k)])
  IN L[Cardinality(ids)]

RestoredEntries ==
  LET ns == KnownChannelNames IN Flatten([k \in DOMAIN ns |-> HashtagEntry(ns[k])])

Start ==
  /\ phase = "down"
  /\ phase' = "restore"
  /\ chans' = BuildChannels
  /\ bound' = bound \cup {<<BuildChannels[i].name, BuildChannels[i].secret>> : i \in DOMAIN BuildChannels}
  /\ cache' = LoadedNodes
  /\ adder' = [adder EXCEPT ![Main] = Working(Main, Task(RestoredEntries, TRUE))]
  /\ UNCHANGED <<rows, nodes, wiped, drain, tagq, regq, regions, heard, spent, view,
                 late, swept>>

GoLive ==
  /\ phase = "restore" /\ adder[Main].pc = "idle"
  /\ phase' = "live"
  /\ UNCHANGED <<rows, nodes, chans, wiped, adder, drain, tagq, regq, regions, cache,
                 heard, spent, view, late, swept, bound>>

\* ------------------------------------------------- the passes between runs
\* Each rewrites one candidate row; the keys are those of the command line.
Offline(i, row, see) ==
  /\ phase = "down" /\ spent.passes < MaxPasses
  /\ rows' = [rows EXCEPT ![i] = row]
  /\ nodes' = Persisted(nodes, see)
  /\ spent' = [spent EXCEPT !.passes = @ + 1]
  /\ UNCHANGED <<phase, live, heard, view, late, swept, bound>>

Redecoded(f, cs, region) ==
  LET idx == GrpDecrypt(cs, f)
      found == IF idx = 0 THEN [name |-> NoName, hash |-> 0]
               ELSE [name |-> cs[idx].name, hash |-> HashOf(cs[idx].secret)]
  IN DecodeEvent(f, idx, found, region)
Decodes(f, cs) == ~Refused(f, GrpDecrypt(cs, f))

\* The region worker of the pass may have confirmed the region by then.
MaybeRegion(f) == {"none"} \cup IF ResolveFull(f) THEN {f.scope} ELSE {}

\* What each pass selects and what it writes.
CrcFailRows         == {i \in DOMAIN rows : rows[i].crc = "fail"}
RegionScopeRows     == {i \in DOMAIN rows : Fr(i).scope # "none"}
ControlCandidates   == {i \in DOMAIN rows : Fr(i).type = "control" /\ ~rows[i].dec}
TelemetryCandidates == {i \in DOMAIN rows : Fr(i).type = "grp_data" /\ rows[i].dec /\ ~rows[i].tele}

ApplyCrcRecover(r, ev, fix) ==
  [r EXCEPT !.crc = "ok", !.bits = fix.bits, !.dec = ev.dec, !.name = ev.name, !.text = ev.text,
            !.mac = fix.mac, !.json = Json(ev, RowTs(r.at))]
ApplyRegionRecover(r, ev) == [r EXCEPT !.json = Json(ev, RowTs(r.at))]
ApplyControlRecover(r, f, ev) ==
  [r EXCEPT !.dec = TRUE, !.node = IF f.sub = "resp" THEN f.who ELSE @, !.json = Json(ev, RowTs(r.at))]
ApplyTelemetryRecover(r, ev) == [r EXCEPT !.tele = TRUE, !.json = Json(ev, RowTs(r.at))]

\* Flipping one or two bits makes the check pass, and the repair is trusted.
CrcRecover ==
  \E i \in CrcFailRows : \E fix \in Fr(i).repairs : \E region \in MaybeRegion(Fr(i)) :
    LET f  == [Fr(i) EXCEPT !.mac = fix.mac]
        ev == Redecoded(f, BuildChannels, region)
    IN /\ Decodes(f, BuildChannels)
       /\ NeedsGate(f, fix.bits) => Crc2bitTrusted(f, ev)
       /\ Offline(i, ApplyCrcRecover(rows[i], ev, fix), Sighting(f, ev))

\* The word list explains the transport code.
RegionRecover ==
  \E i \in RegionScopeRows :
    LET f == Fr(i)
        ev == Redecoded(f, BuildChannels, f.scope)
    IN /\ Decodes(f, BuildChannels) /\ ResolveFull(f)
       /\ Offline(i, ApplyRegionRecover(rows[i], ev), Sighting(f, ev))

ControlRecover ==
  \E i \in ControlCandidates : \E region \in MaybeRegion(Fr(i)) :
    LET f == Fr(i)
        ev == Redecoded(f, <<>>, region)
    IN /\ Decodes(f, <<>>) /\ ev.dec
       /\ Offline(i, ApplyControlRecover(rows[i], f, ev), Sighting(f, ev))

\* The one pass that also restores the names of the history.
TelemetryChannels ==
  LET es == RestoredEntries
      B[k \in 0..Len(es)] == IF k = 0 THEN BuildChannels ELSE Upsert(B[k - 1], es[k])
  IN B[Len(es)]

TelemetryRecover ==
  \E i \in TelemetryCandidates : \E region \in MaybeRegion(Fr(i)) :
    LET cs == TelemetryChannels
        ev == Redecoded(Fr(i), cs, region)
    IN /\ Decodes(Fr(i), cs) /\ ev.tele
       /\ Offline(i, ApplyTelemetryRecover(rows[i], ev), {})

\* ------------------------------------------------------------ history pages
\* Which rows a history selects.
MessageRows(v)  == {i \in DOMAIN rows : rows[i].hash = v.hash /\ rows[i].text}
NodeEvents(v)   == {i \in DOMAIN rows : rows[i].node = v.node}
TelemetryRows   == {i \in DOMAIN rows : rows[i].tele}
TopologyRows    == {i \in DOMAIN rows : Fr(i).path}
Selected(v) ==
  CASE v.kind = "messages"  -> MessageRows(v)
    [] v.kind = "node"      -> NodeEvents(v)
    [] v.kind = "telemetry" -> TelemetryRows
    [] v.kind = "topology"  -> TopologyRows
\* Colliding channels share a hash: the browser keeps the rows of its channel.
Mine(v, i) == v.kind = "messages" => rows[i].json.name = v.name

\* A cursor that steps over the row just before it.
NotNewerThan(before, i) == before <= 0 \/ RowTs(rows[i].at) < before - 1

\* Rows before the cursor; all of them without one.
OlderThan(before, i) == before <= 0 \/ RowTs(rows[i].at) < before

\* What the dashboard lists when it loads: the channels of the history, one
\* for each hash and name, and the nodes of the table.
ChannelNames ==
  {[NoView EXCEPT !.kind = "messages", !.hash = rows[i].hash, !.name = rows[i].name] :
     i \in {i \in DOMAIN rows : rows[i].hash # NoHash /\ rows[i].name # NoName}}
ListedNodes == {[NoView EXCEPT !.kind = "node", !.node = n] : n \in DOMAIN nodes}
Histories ==
  {v \in ChannelNames \cup ListedNodes
         \cup {[NoView EXCEPT !.kind = k] : k \in {"telemetry", "topology"}} : v.kind \in ViewKinds}

OpenView ==
  /\ phase = "live" /\ ~view.on
  /\ \E v \in Histories :
       /\ Selected(v) # {}
       /\ view' = [Closed EXCEPT !.on = TRUE, !.of = v, !.base = {i \in Selected(v) : Mine(v, i)},
                                 !.before = 2 * Len(Air) + 2]
  /\ UNCHANGED <<phase, rows, nodes, live, heard, spent, late, swept, bound>>

\* The answer to one request: the newest Limit rows before the cursor, and
\* whether there are more.
Page(v, before) ==
  LET sel == {i \in Selected(v) : OlderThan(before, i)}
  IN [ids |-> {i \in sel : Cardinality({j \in sel : j > i}) < Limit},
      more |-> Cardinality(sel) > Limit]

\* The next cursor is the time the oldest row kept so far shows.
LoadOlder ==
  /\ phase = "live" /\ view.on /\ ~view.done
  /\ LET page == Page(view.of, view.before)
         mine == {i \in page.ids : Mine(view.of, i)}
     IN view' = [view EXCEPT !.shown = @ \cup mine, !.done = ~page.more,
                   !.before = IF mine = {} THEN @ ELSE MinOf({rows[i].json.ts : i \in mine})]
  /\ UNCHANGED <<phase, rows, nodes, live, heard, spent, late, swept, bound>>

Init ==
  /\ phase = "down" /\ rows = <<>> /\ nodes = [x \in {} |-> ""]
  /\ chans = <<>> /\ wiped = 0 /\ adder = [w \in Adders |-> Quiet] /\ drain = Rest
  /\ tagq = <<>> /\ regq = <<>> /\ regions = {} /\ cache = <<>>
  /\ heard = 0 /\ spent = [adds |-> 0, crashes |-> 0, passes |-> 0]
  /\ view = Closed
  /\ late = {} /\ swept = {} /\ bound = {}

Next ==
  \/ Hear \/ StoreEvent \/ RegionWorker \/ DictThread
  \/ \E w \in Adders : \/ PostForm(w) \/ AddChannel(w) \/ FillChannel(w)
                       \/ QueryRows(w) \/ Reopen(w) \/ ApplyRedecrypt(w)
  \/ Crash \/ Start \/ GoLive
  \/ CrcRecover \/ RegionRecover \/ ControlRecover \/ TelemetryRecover
  \/ OpenView \/ LoadOlder

Spec == Init /\ [][Next]_vars

\* --------------------------------------------------------------- properties
\* A scan that will still look at row i for the key that opens it.
Awaited(i) ==
  \E w \in Adders :
    LET a == adder[w] IN
    \/ i \in a.left
    \/ a.pc = "apply" /\ a.row = i
    \/ \E k \in DOMAIN a.todo :
         /\ a.todo[k].scan /\ a.todo[k].e.secret = Fr(i).secret
         /\ k = 1 => a.pc \in {"add", "fill", "query"}

\* When a channel's key is added at start-up, from the dashboard or from the
\* hub, no message of the history that it opens stays closed once the scan is
\* over, whatever is heard, added or rewritten meanwhile
\* (meshcore_redecrypt_channel, run_live).  Excepted are the rows stored
\* closed while the key was already there (late): a frame whose check failed,
\* or decoded just before the key came.
HistoryOpened ==
  \A i \in DOMAIN rows :
    LET f == Fr(i) IN
    (/\ ~rows[i].dec /\ f.type \in Group /\ f.sound /\ f.mac
     /\ rows[i].hash = HashOf(f.secret)
     /\ f.secret \in swept /\ \E e \in DOMAIN chans : chans[e].secret = f.secret /\ wiped # e
     /\ i \notin late)
    => Awaited(i)

\* What a row presents as sent was sent: a message it shows open verified
\* under a key, is filed under a name that was bound to that key (or none), and
\* a row whose check passes only by flipped bits verified too, unless one bit
\* was flipped in a frame that carries nothing to verify (on_mesh_event,
\* meshcore_crc_recover_scan, grp_decrypt).
RowsTrue ==
  \A i \in DOMAIN rows :
    LET r == rows[i]  f == Fr(i) IN
    /\ r.dec /\ f.type \in Group =>
         r.mac /\ (r.name = NoName \/ <<r.name, f.secret>> \in bound)
    /\ r.bits > 0 /\ (r.bits > 1 \/ f.type \in Group \cup {"advert"}) => r.mac

\* Paging back through a history skips nothing: a row that was there when the
\* browser began, and is still of that history, has been shown once the cursor
\* is past it, and every one has when the server says there is no more,
\* although rows are inserted, decrypted and re-serialised between two pages
\* (db_sqlite_query_messages_json and its siblings, loadOlderMessages).
NoHoles ==
  view.on =>
    \A i \in view.base :
      (i \in Selected(view.of) /\ Mine(view.of, i)
       /\ (view.done \/ RowTs(rows[i].at) >= view.before))
      => i \in view.shown

\* The nodes in memory and in the database tell the same story: a name in
\* memory is the one on disk, across renames, nameless sightings, evictions
\* and restarts (node_db_remember, node_db_persist_hook, db_sqlite_load_nodes).
CacheAgrees ==
  \A k \in DOMAIN cache :
    /\ cache[k].id \in DOMAIN nodes
    /\ cache[k].name \in {"", nodes[cache[k].id]}

\* A message whose text the table holds is served with its text: the JSON the
\* history pages return carries it.
TextServed == \A i \in DOMAIN rows : rows[i].text => rows[i].json.text
=============================================================================
