----------------------------- MODULE KeySearch -----------------------------
(***************************************************************************)
(* Keys and the frames they open: the read-write-locked key set (keyset.c),*)
(* the decoder that tries the keys of a frame's hash (mesh_packet.c), the  *)
(* word-list thread that searches keys for frames none opened (psk_dict.c),*)
(* the event callback with its replay ring (main.c), and the requests that *)
(* add keys (web.c, c2.c), composed with the HTTP server of SensorWeb and  *)
(* the webhook and geofence of Alerts.                                     *)
(*                                                                         *)
(* A cipher is the relation Opens between keys and frames: what a key does *)
(* to a frame is whether the result parses.  A write section of the key    *)
(* set is one step; the read section lasts as long as the callback it      *)
(* covers, which publishes.                                                *)
(***************************************************************************)
EXTENDS SensorWeb, Alerts

CONSTANTS
  Frames,     \* frames on the air
  Keys,       \* channel keys
  Air,        \* the order they are received in: sequence of Frames
  Info,       \* [Frames -> size, hash, id (from, packet id), crc, node, pos]
              \* pos is the <<lat, lon>> a frame's payload carries, or <<>>
  Opens,      \* the <<key, frame>> pairs where decryption parses
  Presets,    \* the entries the bare spec "default" stands for
  Start,      \* specs of the command line, the keys file and the share URL
  Lines,      \* specs of the word list, in file order
  MaxCands,   \* PSK_MAX_CANDIDATES
  MaxKeys,    \* KEYSET_MAX_ENTRIES
  BucketCap,  \* usable slots of a hash bucket
  QueueSlots, \* PSK_QUEUE_SIZE
  RingSize,   \* REPLAY_RING_SIZE
  FreshFor,   \* REPLAY_FRESH_WINDOW_S
  MaxNow,     \* bound: clock
  MaxTries    \* bound: frames the search thread takes

Hashes == {Info[f].hash : f \in Frames}
Entry == [hash : Hashes, key : Keys]
Specs == [form : {"default", "key", "share"}, named : BOOLEAN, padded : BOOLEAN, len : Nat, entry : Entry]

ASSUME KeyAssumption ==
  /\ MaxKeys \in Nat /\ BucketCap \in Nat /\ QueueSlots \in Nat \ {0, 1}
  /\ RingSize \in Nat \ {0} /\ FreshFor \in Nat /\ MaxNow \in Nat /\ MaxTries \in Nat
  /\ MaxCands \in Nat

\* Specs stand for entries; a reception is one frame, and has a checksum.
ASSUME InputAssumption ==
  /\ Presets \in Seq(Entry) /\ Start \in Seq(Specs) /\ Lines \in Seq(Specs)
  /\ \A c \in Conns : \A r \in Ask[c] : r.kind = "keys" => r.body \in Seq(Specs)
  /\ Air \in Seq(Frames) /\ \A i, j \in DOMAIN Air : Air[i] = Air[j] => i = j
  /\ \A f \in Frames : Info[f].crc \in BOOLEAN /\ Info[f].size \in {"short", "bare", "full"}

VARIABLES
  entries,    \* keyset entries: [hash, key]
  bucket,     \* hash -> indices into entries
  rx,         \* the thread that delivers frames
  heard,      \* how many of Air have been received
  emitted,    \* frame -> the events published for it
  ring,       \* replay ring: slots of [id, at, alerted], in slot order
  slot,       \* g_replay_next_slot
  now,        \* seconds
  queue,      \* frames waiting for the search
  psk,        \* the search thread
  searching,  \* g_run
  tries,      \* frames taken, counted
  boot,       \* the specs main() has still to add
  main        \* where run_live is

keyVars == <<entries, bucket>>
rxVars == <<rx, heard, emitted, ring, slot>>
pskVars == <<queue, psk, searching, tries>>
outVars == <<webVars, alertVars>>
vars == <<outVars, keyVars, rxVars, pskVars, now, boot, main>>

-----------------------------------------------------------------------------
(* keyset.c *)

\* An add that forgets to take the entry back when its bucket is full.
KeysetAddNoRollback(e) ==
  IF Len(entries) >= MaxKeys THEN UNCHANGED keyVars
  ELSE /\ entries' = Append(entries, e)
       /\ bucket' = IF Len(bucket[e.hash]) < BucketCap
                    THEN [bucket EXCEPT ![e.hash] = Append(@, Len(entries) + 1)]
                    ELSE bucket

\* keyset_add and keyset_add_raw under the write lock: full, or the bucket is
\* full and the entry is taken back, or the entry and its index are in.
KeysetAdd(e) ==
  IF Len(entries) >= MaxKeys \/ Len(bucket[e.hash]) >= BucketCap THEN UNCHANGED keyVars
  ELSE /\ entries' = Append(entries, e)
       /\ bucket' = [bucket EXCEPT ![e.hash] = Append(@, Len(entries) + 1)]

\* The write lock waits for the reader.
WriteLock == ~rx.lock

\* keyset_add_psk: a key of one byte is expanded to sixteen.
Usable(len) == len \in {0, 1, 16, 32}

\* decode_channel_share: a channel of a share URL, which must have a key.
ShareEntries(sp) == IF Usable(sp.len) /\ sp.len > 0 THEN <<sp.entry>> ELSE <<>>

\* keyset_parse_spec: what one spec adds.  The name ends at the first '=', so
\* an unnamed base64 key with padding loses its value.
SpecEntries(sp) ==
  CASE sp.form = "share" -> ShareEntries(sp)
    [] sp.form = "default" /\ ~sp.named -> Presets
    [] sp.form \in {"default", "key"} /\ (sp.padded => sp.named) /\ Usable(sp.len) -> <<sp.entry>>
    [] OTHER -> <<>>

\* keyset_parse_csv over a list of specs: of the spec at hand the entries not
\* yet added, and the specs not yet looked at.
Parsing(specs) == [new |-> <<>>, specs |-> specs]
Parsed(p) == p.new = <<>> /\ p.specs = <<>>
ParseSpec(p) == [new |-> SpecEntries(Head(p.specs)), specs |-> Tail(p.specs)]
TakeEntry(p) == [p EXCEPT !.new = Tail(@)]

\* parse_psk_spec: the text of a word-list line up to the first '=' is cut off
\* before parsing, so no line counts as named, and of the entries the line
\* stands for only the first one's key is used.
LineEntries(n) == SpecEntries([Lines[n] EXCEPT !.named = FALSE])
Candidate(n) == LineEntries(n)[1].key

\* load_wordlist: the lines that give a key, as many as there is room for.
KeyLines == {n \in DOMAIN Lines : LineEntries(n) # <<>> /\ Lines[n].len # 0}
WordList == {n \in KeyLines : Cardinality({k \in KeyLines : k < n}) < MaxCands}

\* keyset_lookup
IndicesOf(h) == {i \in DOMAIN entries : entries[i].hash = h}

-----------------------------------------------------------------------------
(* mesh_packet_decode_with_radio *)

\* AES-CTR with the frame's nonce, and the result is a Data envelope.
Parses(key, f) == <<key, f>> \in Opens

\* Only the first key of the bucket is tried.
OpenedFirstOnly(f) ==
  LET b == bucket[Info[f].hash] IN b # <<>> /\ Parses(entries[b[1]].key, f)

\* Some key of the frame's bucket decrypts to something that parses.
Opened(f) == \E i \in DOMAIN bucket[Info[f].hash] :
               Parses(entries[bucket[Info[f].hash][i]].key, f)

\* Some entry of the key set would open the frame.
Known(f) == \E i \in DOMAIN entries :
              entries[i].hash = Info[f].hash /\ Parses(entries[i].key, f)

Quiet == [pc |-> "idle", lock |-> FALSE]

\* A frame is delivered: too short, header only, or looked up under the read
\* lock, which is kept for the callback of a frame that was opened.  The
\* clock, which only the replay ring reads, moves on between two frames.
Decode(f) ==
  /\ main = "run" /\ rx = Quiet /\ heard < Len(Air) /\ f = Air[heard + 1]
  /\ heard' = heard + 1 /\ now' \in (IF ring = <<>> THEN {now} ELSE now..MaxNow)
  /\ rx' = CASE Info[f].size = "short" -> Quiet
             [] Info[f].size = "bare" ->
                  [pc |-> "replay", lock |-> FALSE, f |-> f, open |-> TRUE, known |-> FALSE,
                   left |-> {}]
             [] Info[f].size = "full" ->
                  [pc |-> "replay", lock |-> Opened(f), f |-> f, open |-> Opened(f),
                   known |-> Known(f), left |-> {}]
  /\ UNCHANGED <<outVars, keyVars, pskVars, emitted, ring, slot, main>>

-----------------------------------------------------------------------------
(* on_mesh_event *)

InRing(id) == {i \in DOMAIN ring : ring[i].id = id}

\* The event of a frame that was opened but whose checksum failed does not
\* count as decrypted.
Decrypted == rx.open /\ Info[rx.f].crc

\* serialize_event comes to a position: one that is set, in a decrypted event.
Located == Decrypted /\ Info[rx.f].pos \notin {<<>>, <<0, 0>>} /\ UsablePolygons # {}

\* replay_check: a packet heard again after the fresh window is reported
\* once; a packet not in the ring takes the oldest slot.
ReplayCheck ==
  LET id == Info[rx.f].id
      i == CHOOSE x \in InRing(id) : \A y \in InRing(id) : x <= y
  IN
  /\ rx.pc = "replay"
  /\ IF InRing(id) = {}
     THEN /\ ring' = IF Len(ring) < RingSize THEN Append(ring, [id |-> id, at |-> now, alerted |-> FALSE])
                     ELSE [ring EXCEPT ![slot] = [id |-> id, at |-> now, alerted |-> FALSE]]
          /\ slot' = (slot % RingSize) + 1
          /\ UNCHANGED outVars
     ELSE /\ UNCHANGED slot
          /\ IF ~ring[i].alerted /\ now - ring[i].at > FreshFor
             THEN /\ PublishLine /\ WebhookPublish("REPLAY_SUSPECTED") /\ UNCHANGED fence
                  /\ ring' = [ring EXCEPT ![i].alerted = TRUE]
             ELSE UNCHANGED <<outVars, ring>>
  /\ rx' = IF Located THEN [rx EXCEPT !.pc = "geo", !.left = UsablePolygons] ELSE [rx EXCEPT !.pc = "event"]
  /\ UNCHANGED <<keyVars, pskVars, heard, emitted, now, main>>

\* geofence_check, one polygon after the other under the geofence's lock: a
\* crossing is published before the event that shows it.
GeofenceCheck ==
  /\ rx.pc = "geo"
  /\ LET i == CHOOSE i \in rx.left : \A j \in rx.left : i <= j
         c == Crossing(Info[rx.f].node, i, Info[rx.f].pos)
     IN /\ fence' = c.table
        /\ IF c.event = NoEvent THEN UNCHANGED <<webVars, hookVars>>
           ELSE PublishLine /\ WebhookPublish(c.event)
        /\ rx' = [rx EXCEPT !.left = @ \ {i}, !.pc = IF rx.left = {i} THEN "event" ELSE "geo"]
  /\ UNCHANGED <<keyVars, pskVars, heard, emitted, ring, slot, now, main>>

\* feed_publish_event; then the read lock is released.  A frame that was not
\* opened goes on to the search.
EmitEvent ==
  /\ rx.pc = "event"
  /\ PublishLine
  /\ emitted' = [emitted EXCEPT ![rx.f] = Append(@, [dec |-> Decrypted, known |-> rx.known])]
  /\ rx' = IF rx.open THEN Quiet ELSE [rx EXCEPT !.pc = "enqueue"]
  /\ UNCHANGED <<alertVars, keyVars, pskVars, heard, ring, slot, now, main>>

-----------------------------------------------------------------------------
(* psk_dict.c *)

\* psk_dict_enqueue: one slot stays empty, and a full queue drops its oldest.
Enqueue(f) ==
  queue' = Append(IF Len(queue) = QueueSlots - 1 THEN Tail(queue) ELSE queue, f)

Woken == IF psk.pc = "asleep" THEN [pc |-> "loop"] ELSE psk

EnqueueFrame ==
  /\ rx.pc = "enqueue"
  /\ Enqueue(rx.f)
  /\ psk' = Woken
  /\ rx' = Quiet
  /\ UNCHANGED <<outVars, keyVars, searching, tries, heard, emitted, ring, slot, now, main>>

\* The head of psk_thread's loop: stop, sleep, or take the oldest frame.
TakeFrame ==
  /\ psk.pc = "loop"
  /\ \/ ~searching /\ psk' = [pc |-> "done"] /\ UNCHANGED <<queue, tries>>
     \/ searching /\ queue = <<>> /\ psk' = [pc |-> "asleep"] /\ UNCHANGED <<queue, tries>>
     \/ /\ searching /\ queue # <<>> /\ tries < MaxTries
        /\ psk' = [pc |-> "try", f |-> Head(queue), left |-> WordList]
        /\ queue' = Tail(queue) /\ tries' = tries + 1
  /\ UNCHANGED <<outVars, keyVars, rxVars, searching, now, main>>

\* One candidate against the frame, in a key set of its own.  The trial runs
\* the ordinary decoder, which hands a frame it cannot open to the search.
TryCandidate ==
  /\ psk.pc = "try"
  /\ \/ /\ ~searching \/ psk.left = {}
        /\ psk' = [pc |-> "loop"] /\ UNCHANGED queue
     \/ \E n \in psk.left :
          /\ searching /\ \A k \in psk.left : n <= k
          /\ \/ /\ Parses(Candidate(n), psk.f)
                /\ psk' = [pc |-> "add", f |-> psk.f, key |-> Candidate(n)] /\ UNCHANGED queue
             \/ /\ ~Parses(Candidate(n), psk.f)
                /\ psk' = [psk EXCEPT !.left = @ \ {n}] /\ Enqueue(psk.f)
  /\ UNCHANGED <<outVars, keyVars, rxVars, searching, tries, now, main>>

\* The candidate goes into the live key set under the frame's hash.
AddDiscovered ==
  /\ psk.pc = "add" /\ WriteLock
  /\ KeysetAdd([hash |-> Info[psk.f].hash, key |-> psk.key])
  /\ psk' = [pc |-> "announce"]
  /\ UNCHANGED <<outVars, rxVars, queue, searching, tries, now, main>>

\* emit_discovery
Announce ==
  /\ psk.pc = "announce"
  /\ PublishLine /\ WebhookPublish("PSK_DISCOVERED")
  /\ psk' = [pc |-> "loop"]
  /\ UNCHANGED <<fence, keyVars, rxVars, queue, searching, tries, now, main>>

-----------------------------------------------------------------------------
(* POST /api/keys and POST /api/share-url *)

\* c2_keys_add, c2_share_url: what the specs of the body stand for is added
\* entry by entry, and the request answered.
RouteKeys ==
  /\ web.pc = "route" /\ conn[web.c].req.kind = "keys" /\ Authorised(web.c)
  /\ web' = [pc |-> "adding", c |-> web.c, todo |-> Parsing(conn[web.c].req.body)]
  /\ UNCHANGED <<conn, lines, history, gLock, sse, listening, alertVars, keyVars, rxVars, pskVars, now, main>>

AddRequested ==
  /\ web.pc = "adding"
  /\ \/ /\ web.todo.new # <<>> /\ WriteLock
        /\ KeysetAdd(Head(web.todo.new))
        /\ web' = [web EXCEPT !.todo = TakeEntry(@)] /\ UNCHANGED conn
     \/ /\ web.todo.new = <<>> /\ web.todo.specs # <<>>
        /\ web' = [web EXCEPT !.todo = ParseSpec(@)] /\ UNCHANGED <<conn, keyVars>>
     \/ Parsed(web.todo) /\ Respond /\ UNCHANGED keyVars
  /\ UNCHANGED <<lines, history, gLock, sse, listening, alertVars, rxVars, pskVars, now, main>>

-----------------------------------------------------------------------------
(* run_live *)

\* The keys of the command line, the keys file and the share URL are added
\* before any other thread is started.
LoadKeys ==
  /\ main = "load"
  /\ \/ /\ boot.new # <<>> /\ KeysetAdd(Head(boot.new))
        /\ boot' = TakeEntry(boot) /\ UNCHANGED main
     \/ /\ boot.new = <<>> /\ boot.specs # <<>>
        /\ boot' = ParseSpec(boot) /\ UNCHANGED <<keyVars, main>>
     \/ Parsed(boot) /\ main' = "run" /\ UNCHANGED <<keyVars, boot>>
  /\ UNCHANGED <<outVars, rxVars, pskVars, now>>

\* The receiver has stopped; web_shutdown begins.
StopWeb ==
  /\ main = "run" /\ rx = Quiet
  /\ StopListening /\ main' = "web"
  /\ UNCHANGED <<alertVars, keyVars, rxVars, pskVars, now>>

JoinWeb ==
  /\ main = "web" /\ CloseStreams
  /\ main' = "psk"
  /\ UNCHANGED <<alertVars, keyVars, rxVars, pskVars, now>>

\* psk_dict_shutdown that clears the flag without waking the thread.
StopSearchSilent ==
  /\ main = "psk"
  /\ searching' = FALSE /\ UNCHANGED psk
  /\ main' = "join"
  /\ UNCHANGED <<outVars, keyVars, rxVars, queue, tries, now>>

\* psk_dict_shutdown: flag and broadcast under the queue's lock.
StopSearch ==
  /\ main = "psk"
  /\ searching' = FALSE /\ psk' = Woken
  /\ main' = "join"
  /\ UNCHANGED <<outVars, keyVars, rxVars, queue, tries, now>>

JoinSearch ==
  /\ main = "join" /\ psk.pc = "done"
  /\ main' = "hook"
  /\ UNCHANGED <<outVars, keyVars, rxVars, pskVars, now>>

\* webhook_stop
StopHook ==
  /\ main = "hook" /\ WebhookStop
  /\ main' = "unhook"
  /\ UNCHANGED <<webVars, fence, keyVars, rxVars, pskVars, now>>

JoinHook ==
  /\ main = "unhook" /\ hook.pc = "gone"
  /\ main' = "down"
  /\ UNCHANGED <<outVars, keyVars, rxVars, pskVars, now>>

HookThread ==
  /\ HookTake \/ PostOne
  /\ UNCHANGED <<webVars, fence, keyVars, rxVars, pskVars, now, main>>

Init ==
  /\ WebInit /\ AlertInit
  /\ entries = <<>> /\ bucket = [h \in Hashes |-> <<>>]
  /\ boot = Parsing(Start)
  /\ rx = Quiet /\ heard = 0 /\ emitted = [f \in Frames |-> <<>>]
  /\ ring = <<>> /\ slot = 1 /\ now = 0
  /\ queue = <<>> /\ psk = [pc |-> "loop"] /\ searching = TRUE
  /\ tries = 0
  /\ main = "load"

RxStep == ReplayCheck \/ GeofenceCheck \/ EmitEvent \/ EnqueueFrame
PskStep == TakeFrame \/ TryCandidate \/ AddDiscovered \/ Announce
Elsewhere == UNCHANGED <<alertVars, keyVars, rxVars, pskVars, now, main>>
WebStep == (WebThread /\ Elsewhere) \/ RouteKeys \/ AddRequested
MainStep == JoinWeb \/ StopSearch \/ JoinSearch \/ StopHook \/ JoinHook
Client == ClientNext /\ Elsewhere

\* What the threads do once they are started.
Running(A) == main # "load" /\ A /\ UNCHANGED boot

Next ==
  \/ LoadKeys
  \/ Running(\/ \E f \in Frames : Decode(f)
             \/ RxStep \/ PskStep \/ WebStep \/ Client \/ HookThread
             \/ StopWeb \/ MainStep)

\* Every thread is scheduled.  A connected client sends its request, reads
\* what it is sent or hangs up: recv() and the replay's send() wait for it.  A
\* post ends because its timeout is at most thirty seconds.
Fairness ==
  /\ WF_vars(Running(RxStep)) /\ WF_vars(Running(PskStep)) /\ WF_vars(Running(WebStep))
  /\ WF_vars(Running(MainStep)) /\ WF_vars(Running(HookThread))
  /\ \A c \in Conns : WF_vars(Running((SendRequest(c) \/ ReadLine(c)) /\ Elsewhere))

Spec == Init /\ [][Next]_vars
FairSpec == Spec /\ Fairness

-----------------------------------------------------------------------------
(* Properties *)

\* The hash buckets and the entries say the same after any mix of additions by
\* requests and by the search, also when one was refused half way: each entry
\* is in the bucket of its hash and in no other place, in the order of
\* addition, so no key is unreachable and no index dangles (keyset.c).
IndexExact ==
  \A h \in Hashes :
    /\ {bucket[h][i] : i \in DOMAIN bucket[h]} = IndicesOf(h)
    /\ \A i, j \in DOMAIN bucket[h] : i < j => bucket[h][i] < bucket[h][j]

\* Every frame the decoder accepts is published as one event, and as a
\* decrypted one if any key of the key set opened it when it was looked up
\* and its checksum held: a key learnt from a request or by the search works
\* from the next frame on (mesh_packet.c, psk_dict.h).
OneTrueEvent ==
  \A f \in Frames :
    /\ Len(emitted[f]) <= 1
    /\ \A i \in DOMAIN emitted[f] : emitted[f][i].known /\ Info[f].crc => emitted[f][i].dec

\* Once shutdown has begun it ends, wherever the search, the web thread,
\* the streams and the webhook are (main.c run_live, web_shutdown,
\* psk_dict_shutdown, webhook_stop).
ShutdownEnds == main = "web" ~> main = "down"
=============================================================================
