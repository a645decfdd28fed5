----------------------------- MODULE ChannelSet -----------------------------
(* MeshCore channels and the decoding of one frame.  A channel is a display  *)
(* name and a secret; a hashtag channel's secret is a function of its name.  *)
(* A frame is the record of what its bytes let a decoder learn:              *)
(*   type    "grp_txt", "grp_data", "advert", "control", "clear" (TRACE,     *)
(*           ACK), "sealed" (addressed to one node) or "short"               *)
(*   hash    the channel byte of a group frame, secret the key that sealed it*)
(*   mac     the authenticated bytes are the ones that were sent             *)
(*   sound   the plain text has the length and kind the decoder accepts      *)
(*   lpp     the blob of a group datagram is sensor data                     *)
(*   sub     the kind of a control frame, who and label its node and name    *)
(*   scope   the region whose key made the transport code, or "none"         *)
(*   path    the header lists relays                                         *)
(*   crc, bits   the receiver's verdict and the bits it flipped to reach it  *)
(*   repairs what a later search of the stored bytes may find: how many bits *)
(*           it flips, and whether the authenticated ones are then as sent   *)
(* Ciphers, MACs and signatures are external: a key opens the frames it      *)
(* sealed if they are intact, and no other.                                  *)
EXTENDS Integers, Sequences, FiniteSets

CONSTANTS
  HashOf(_),                        \* first byte of a secret's digest
  Lower(_), Upper(_), Title(_),     \* spellings of a bare name
  PublicSpellings, PublicSecret,    \* the reserved channel
  MaxEntries,                       \* MC_CHANNEL_MAX_ENTRIES
  Config,                           \* default hashtags and --meshcore-channel
  WordLines, Builtin, MaxCands      \* word list, generated names, its bound

MinOf(S) == CHOOSE x \in S : \A y \in S : x <= y

Name(tag, bare) == [tag |-> tag, bare |-> bare]
NoName == Name(FALSE, "")
NoHash == -1
TagSecret(bare) == [from |-> "name", of |-> bare]
Entry(name, secret) == [name |-> name, secret |-> secret]
Public == Entry(Name(FALSE, "Public"), PublicSecret)

\* The entries that adding a hashtag channel asks for: none for an empty
\* name, the reserved channel for any spelling of its name.
HashtagEntry(n) ==
  IF n.bare = "" THEN <<>>
  ELSE IF n.bare \in PublicSpellings THEN <<Public>>
  ELSE <<Entry(Name(TRUE, n.bare), TagSecret(n.bare))>>

\* A spec gives the secret; one that is no key is refused.
SpecEntry(spec) == IF spec.valid THEN <<Entry(spec.name, spec.secret)>> ELSE <<>>

Distinct(s) ==
  LET first == {i \in DOMAIN s : \A j \in 1..(i - 1) : s[j] # s[i]}
      nth(k) == CHOOSE i \in first : Cardinality({j \in first : j <= i}) = k
  IN [k \in 1..Cardinality(first) |-> s[nth(k)]]

\* The first letter of a name typed with its '#' is the '#'.
NameCaseVariants(n) ==
  Distinct(<<n, Name(n.tag, Lower(n.bare)), Name(n.tag, Upper(n.bare)),
             Name(n.tag, IF n.tag THEN Lower(n.bare) ELSE Title(n.bare))>>)

Flatten(ss) ==
  LET F[k \in 0..Len(ss)] == IF k = 0 THEN <<>> ELSE F[k - 1] \o ss[k]
  IN F[Len(ss)]

\* The entries of one line typed into the dashboard's form.
TokenEntries(t) ==
  IF t.form = "spec" THEN SpecEntry(t)
  ELSE LET vs == NameCaseVariants(t.name)
       IN Flatten([k \in DOMAIN vs |-> HashtagEntry(vs[k])])

\* Where a name stands in the set, 0 if it is not there.
At(cs, name) ==
  LET is == {i \in DOMAIN cs : cs[i].name = name}
  IN IF is = {} THEN 0 ELSE MinOf(is)

\* The whole of an insertion or replacement by name.
Upsert(cs, e) ==
  IF At(cs, e.name) # 0 THEN [cs EXCEPT ![At(cs, e.name)] = e]
  ELSE IF Len(cs) >= MaxEntries THEN cs ELSE Append(cs, e)

BuildChannels ==
  LET entry(t) == IF t.form = "spec" THEN SpecEntry(t) ELSE HashtagEntry(t.name)
      es == Flatten([k \in DOMAIN Config |-> entry(Config[k])])
      B[k \in 0..Len(es)] == IF k = 0 THEN <<>> ELSE Upsert(B[k - 1], es[k])
  IN B[Len(es)]

Group == {"grp_txt", "grp_data"}
Parses(f) == f.type # "short"
Opens(secret, f) == f.type \in Group /\ f.mac /\ secret = f.secret

\* The order in which the entries are tried: those with the frame's hash, then
\* the others.
Lookup(cs, h) ==
  LET named(i) == HashOf(cs[i].secret) = h
      all == [i \in DOMAIN cs |-> i]
      other(i) == ~named(i)
  IN SelectSeq(all, named) \o SelectSeq(all, other)

\* The index of the entry that opens the frame, 0 if none.
GrpDecrypt(cs, f) ==
  LET order == Lookup(cs, f.hash)
      hit == {k \in DOMAIN order : Opens(cs[order[k]].secret, f)}
  IN IF hit = {} THEN 0 ELSE order[MinOf(hit)]

\* What the decoder of each type of frame finds readable.  found is what is
\* read of the entry that opened a group frame.
DecodeGrp(f, idx, found) ==
  [dec |-> idx # 0, name |-> IF idx # 0 THEN found.name ELSE NoName,
   hash |-> IF idx # 0 THEN found.hash ELSE f.hash, text |-> idx # 0,
   tele |-> f.type = "grp_data" /\ idx # 0 /\ f.lpp]
Plain(dec) == [dec |-> dec, name |-> NoName, hash |-> 0, text |-> FALSE, tele |-> FALSE]
DecodeClear(f)    == Plain(TRUE)                \* ADVERT, TRACE
DecodeControl(f)  == Plain(f.sub # "none")
DecodeEnvelope(f) == Plain(f.type = "clear")    \* addressed frames; ACK, alone or wrapped

\* The decoder gives no event at all.
Refused(f, idx) == ~Parses(f) \/ (~f.sound /\ (f.type \in Group => idx # 0))

\* The event of a frame.
DecodeEvent(f, idx, found, region) ==
  LET ev == CASE f.type \in Group    -> DecodeGrp(f, idx, found)
              [] f.type = "advert"   -> DecodeClear(f)
              [] f.type = "control"  -> DecodeControl(f)
              [] OTHER               -> DecodeEnvelope(f)
  IN [dec |-> ev.dec, name |-> ev.name, hash |-> ev.hash, text |-> ev.text,
      tele |-> ev.tele, region |-> region]

\* meshcore_advert_verify_signature, mesh_event_crc2bit_trusted, and which repairs have to pass it.
SignatureValid(f) == f.type = "advert" /\ f.mac
Crc2bitTrusted(f, ev) == (f.type \in Group /\ ev.dec) \/ SignatureValid(f)
GateOneBitOnly(f, bits) == bits = 1 /\ f.type \in Group \cup {"advert"}
NeedsGate(f, bits) == bits >= 2 \/ (bits = 1 /\ f.type \in Group \cup {"advert"})

\* What the event path makes of a decoded event: a failed check hides what
\* was decoded, an unconfirmed repair counts as a failed check.
Stamp(f, ev) ==
  LET shut == f.crc = "fail"
      held == [ev EXCEPT !.dec = @ /\ ~shut]
      bad  == NeedsGate(f, f.bits) /\ ~Crc2bitTrusted(f, held)
  IN [ev  |-> [held EXCEPT !.dec = @ /\ ~bad],
      crc |-> IF bad THEN "fail" ELSE f.crc,
      bits |-> IF bad THEN 0 ELSE f.bits]

\* The candidates of the dictionary: the lines of the list that are names,
\* then the generated ones, up to a bound.
Candidates ==
  LET isWord(l) == l.kind = "word"
      words == SelectSeq(WordLines, isWord)
      all == [k \in DOMAIN words |-> words[k].name] \o Builtin
  IN SubSeq(all, 1, IF Len(all) < MaxCands THEN Len(all) ELSE MaxCands)

\* The first candidate, in some spelling, that has the frame's hash and opens
\* it.
TryCandidates(f) ==
  LET vs  == Flatten([k \in DOMAIN Candidates |-> NameCaseVariants(Candidates[k])])
      es  == Flatten([k \in DOMAIN vs |-> HashtagEntry(vs[k])])
      hit == {k \in DOMAIN es : HashOf(es[k].secret) = f.hash /\ Opens(es[k].secret, f)}
  IN IF ~f.sound \/ hit = {} THEN <<>> ELSE <<es[MinOf(hit)]>>
=============================================================================
