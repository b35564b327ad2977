-------------------------- MODULE GroupMediaProofs --------------------------
(***************************************************************************)
(* Theorems about GroupMedia, for any sessions, messages and clocks.       *)
(***************************************************************************)
EXTENDS GroupMedia, Integers, TLAPS

-----------------------------------------------------------------------------
(* Numbers *)

\* A quotient and a remainder are the only ones.
LEMMA QuotientUnique ==
    ASSUME NEW d \in Nat \ {0}, NEW q \in Int, NEW r \in 0 .. d - 1
    PROVE  (d * q + r) \div d = q /\ (d * q + r) % d = r
<1> DEFINE n == d * q + r
           p == n \div d
           s == n % d
<1>1. n \in Int
  OBVIOUS
<1>2. p \in Int /\ s \in 0 .. d - 1 /\ n = d * p + s
  BY <1>1
<1>3. d * (p - q) = r - s
  BY <1>1, <1>2
<1> HIDE DEF n, p, s
<1>4. ASSUME p > q PROVE FALSE
  <2>1. p - q >= 1
    BY <1>2, <1>4
  <2>2. d * (p - q) >= d
    BY <1>2, <2>1
  <2> QED
    BY <1>2, <1>3, <2>2
<1>5. ASSUME p < q PROVE FALSE
  <2>1. q - p >= 1
    BY <1>2, <1>5
  <2>2. d * (q - p) >= d
    BY <1>2, <2>1
  <2>3. d * (q - p) = s - r
    BY <1>2, <1>3
  <2> QED
    BY <1>2, <2>2, <2>3
<1>6. p = q
  BY <1>2, <1>4, <1>5
<1>7. s = r
  BY <1>2, <1>3, <1>6
<1> QED
  BY <1>6, <1>7 DEF n, p, s

\* A remainder may be taken early.
LEMMA RemainderEarly ==
    ASSUME NEW d \in Nat \ {0}, NEW x \in Int, NEW y \in Int
    PROVE  ((x % d) + y) % d = (x + y) % d
<1> DEFINE a == x \div d
           r == x % d
           b == (r + y) \div d
           s == (r + y) % d
<1>1. a \in Int /\ r \in 0 .. d - 1 /\ x = d * a + r
  OBVIOUS
<1>2. r + y \in Int
  BY <1>1
<1> HIDE DEF a, r
<1>3. b \in Int /\ s \in 0 .. d - 1 /\ r + y = d * b + s
  BY <1>2
<1> HIDE DEF b, s
<1>4. a + b \in Int /\ x + y = d * (a + b) + s
  BY <1>1, <1>3
<1>5. (x + y) % d = s
  BY <1>3, <1>4, QuotientUnique
<1> QED
  BY <1>5 DEF s, r

Time == 0 .. TimeLimit - 1
Medias == {"audio", "video"}
AnyMessage == [kind : Kinds \cup {"metadata"}, id : Nat, ts : Time]
Kept == AnyMessage \cup {NoMessage}
AnyItem == [kind : Kinds \cup {"metadata"}, id : Nat, cached : BOOLEAN, ts : Time,
            shared : BOOLEAN, at : Nat]
AnyOut == [joined : BOOLEAN, sent : SUBSET Flags, got : Seq(AnyItem), since : Nat,
           clock : [Medias -> Time]]

LEMMA KindsAre ==
    /\ Kinds = {"avc header", "key frame", "inter frame", "aac header", "audio frame"}
    /\ "metadata" \notin Kinds /\ "none" \notin Kinds
BY DEF Kinds, VideoKinds, AudioKinds

LEMMA MediaIs == \A m : Media(m) \in Medias /\ Medias \subseteq Flags
BY DEF Media, Medias, Flags

-----------------------------------------------------------------------------
(* What one session is sent *)

LEMMA ItemIs ==
    ASSUME published \in Seq(AnyMessage), NEW m \in AnyMessage, NEW cached \in BOOLEAN,
           NEW ts \in Time
    PROVE  /\ Item(m, cached, ts) \in AnyItem
           /\ Item(m, cached, ts).kind = m.kind /\ Item(m, cached, ts).id = m.id
           /\ Item(m, cached, ts).cached = cached /\ Item(m, cached, ts).ts = ts
           /\ Item(m, cached, ts).at = Len(published) + 1
           /\ Item(m, cached, ts).shared => cached
BY DEF Item, AnyItem, AnyMessage

\* s grew by one item into r.
Grew(s, r, g) ==
    /\ r \in AnyOut /\ r.joined = s.joined /\ r.since = s.since /\ r.got = Append(s.got, g)

LEMMA GetIs ==
    ASSUME published \in Seq(AnyMessage), NEW s \in AnyOut, NEW m \in AnyMessage,
           NEW cached \in BOOLEAN, NEW ts \in Time
    PROVE  LET r == Get(s, m, cached, ts) IN
           /\ Grew(s, r, Item(m, cached, ts)) /\ r.sent = s.sent /\ r.clock = s.clock
<1> DEFINE g == Item(m, cached, ts)
<1>1. g \in AnyItem
  BY ItemIs
<1>2. Get(s, m, cached, ts) = [s EXCEPT !.got = Append(s.got, g)]
  BY DEF Get, AnyOut
<1> HIDE DEF g
<1>3. Append(s.got, g) \in Seq(AnyItem)
  BY <1>1 DEF AnyOut
<1> QED
  BY <1>2, <1>3 DEF AnyOut, Grew, g

\* The same for a message that sets a clock.
GrewMedia(s, r, m, g, ts) ==
    /\ Grew(s, r, g) /\ r.sent = s.sent /\ r.clock[Media(m)] = ts
    /\ \A M \in Medias \ {Media(m)} : r.clock[M] = s.clock[M]

LEMMA GetMediaIs ==
    ASSUME published \in Seq(AnyMessage), NEW s \in AnyOut, NEW m \in AnyMessage,
           NEW cached \in BOOLEAN, NEW ts \in Time
    PROVE  GrewMedia(s, GetMedia(s, m, cached, ts), m, Item(m, cached, ts), ts)
<1> DEFINE t == Get(s, m, cached, ts)
           M == Media(m)
<1>1. Grew(s, t, Item(m, cached, ts)) /\ t.sent = s.sent /\ t.clock = s.clock
  BY GetIs
<1>2. t \in AnyOut /\ M \in Medias
  BY <1>1, MediaIs DEF Grew
<1>3. GetMedia(s, m, cached, ts) = [t EXCEPT !.clock[M] = ts]
  BY DEF GetMedia
<1> HIDE DEF t, M
<1>4. [t.clock EXCEPT ![M] = ts] \in [Medias -> Time]
  BY <1>2 DEF AnyOut
<1>5. [t EXCEPT !.clock[M] = ts] = [t EXCEPT !.clock = [t.clock EXCEPT ![M] = ts]]
  BY <1>2 DEF AnyOut
<1>6. [t EXCEPT !.clock = [t.clock EXCEPT ![M] = ts]] \in AnyOut
  BY <1>2, <1>4 DEF AnyOut
<1> QED
  BY <1>1, <1>2, <1>3, <1>4, <1>5, <1>6, ZenonT(30) DEF AnyOut, Grew, GrewMedia, M

LEMMA SetFlagIs ==
    ASSUME NEW s \in AnyOut, NEW flag \in Flags
    PROVE  LET r == SetFlag(s, flag) IN
           /\ r \in AnyOut /\ r.joined = s.joined /\ r.since = s.since /\ r.got = s.got
           /\ r.clock = s.clock /\ r.sent = s.sent \cup {flag}
BY DEF SetFlag, AnyOut

\* One message of the cache, sent as item g or not.
Offered(s, r, flag, x, g) ==
    /\ r \in AnyOut /\ r.joined = s.joined /\ r.since = s.since
    /\ \/ flag \in s.sent /\ r = s
       \/ x = NoMessage /\ r = s
       \/ /\ flag \notin s.sent /\ x # NoMessage
          /\ r.got = Append(s.got, g) /\ r.sent = s.sent \cup {flag}
          /\ \A M \in Medias \ {flag} : r.clock[M] = s.clock[M]

LEMMA SendCachedIs ==
    ASSUME published \in Seq(AnyMessage), NEW s \in AnyOut,
           NEW flag \in {"metadata", "video", "audio"}, NEW x \in Kept,
           x # NoMessage /\ flag # "metadata" => Media(x) = flag, NEW ts \in Time
    PROVE  Offered(s, SendCached(s, flag, x, ts), flag, x, Item(x, TRUE, ts))
<1> DEFINE r == SendCached(s, flag, x, ts)
<1>1. CASE flag \in s.sent \/ x = NoMessage
  BY <1>1 DEF Offered, SendCached
<1>2. CASE ~(flag \in s.sent \/ x = NoMessage)
  <2>1. x \in AnyMessage /\ flag \in Flags /\ TRUE \in BOOLEAN
    BY <1>2 DEF Kept, Flags
  <2>2. CASE flag = "metadata"
    <3> DEFINE t == Get(s, x, TRUE, ts)
    <3>1. Grew(s, t, Item(x, TRUE, ts)) /\ t.sent = s.sent /\ t.clock = s.clock
      BY <2>1, GetIs
    <3>2. r = SetFlag(t, flag)
      BY <1>2, <2>2 DEF SendCached
    <3> HIDE DEF t, r
    <3>3. /\ r \in AnyOut /\ r.joined = t.joined /\ r.since = t.since /\ r.got = t.got
          /\ r.clock = t.clock /\ r.sent = t.sent \cup {flag}
      BY <2>1, <3>1, <3>2, SetFlagIs DEF Grew
    <3> QED
      BY <1>2, <3>1, <3>3 DEF Offered, Grew, r
  <2>3. CASE flag # "metadata"
    <3> DEFINE t == GetMedia(s, x, TRUE, ts)
    <3>1. /\ Grew(s, t, Item(x, TRUE, ts)) /\ t.sent = s.sent
          /\ \A M \in Medias \ {Media(x)} : t.clock[M] = s.clock[M]
      BY <2>1, GetMediaIs, ZenonT(30) DEF GrewMedia
    <3>2. r = SetFlag(t, flag)
      BY <1>2, <2>3 DEF SendCached
    <3> HIDE DEF t, r
    <3>3. /\ r \in AnyOut /\ r.joined = t.joined /\ r.since = t.since /\ r.got = t.got
          /\ r.clock = t.clock /\ r.sent = t.sent \cup {flag}
      BY <2>1, <3>1, <3>2, SetFlagIs DEF Grew
    <3>4. \A M \in Medias \ {flag} : r.clock[M] = s.clock[M]
      BY <1>2, <2>3, <3>1, <3>3 DEF AnyOut
    <3> QED
      BY <1>2, <3>1, <3>3, <3>4 DEF Offered, Grew, r
  <2> QED
    BY <2>2, <2>3
<1> QED
  BY <1>1, <1>2

LEMMA OfferAdds ==
    ASSUME NEW s \in AnyOut, NEW r \in AnyOut, NEW flag, NEW x, NEW g,
           x # NoMessage => g \in AnyItem, Offered(s, r, flag, x, g)
    PROVE  /\ Len(s.got) \in Nat /\ Len(r.got) \in Nat /\ Len(s.got) <= Len(r.got)
           /\ \A i \in 1 .. Len(s.got) : r.got[i] = s.got[i]
           /\ \A i \in Len(s.got) + 1 .. Len(r.got) : x # NoMessage /\ r.got[i] = g
<1>1. s.got \in Seq(AnyItem) /\ r.got \in Seq(AnyItem)
  BY DEF AnyOut
<1>2. CASE r = s
  <2>1. Len(s.got) \in Nat /\ Len(r.got) = Len(s.got)
    BY <1>1, <1>2
  <2>2. \A i \in 1 .. Len(s.got) : r.got[i] = s.got[i]
    BY <1>2
  <2>3. ASSUME NEW i \in Len(s.got) + 1 .. Len(r.got) PROVE FALSE
    BY <2>1
  <2> QED
    BY <2>1, <2>2, <2>3
<1>3. CASE r # s
  <2>1. x # NoMessage /\ r.got = Append(s.got, g) /\ g \in AnyItem
    BY <1>3 DEF Offered
  <2>2. /\ Len(s.got) \in Nat /\ Len(r.got) = Len(s.got) + 1
        /\ \A i \in 1 .. Len(s.got) : r.got[i] = s.got[i]
        /\ r.got[Len(s.got) + 1] = g
    BY <1>1, <2>1
  <2>3. ASSUME NEW i \in Len(s.got) + 1 .. Len(r.got) PROVE r.got[i] = g
    <3>1. i = Len(s.got) + 1
      BY <2>2
    <3> QED
      BY <2>2, <3>1
  <2> QED
    BY <2>1, <2>2, <2>3
<1> QED
  BY <1>2, <1>3

-----------------------------------------------------------------------------
(* The types of the state, and what the group keeps *)

TypesOk ==
    /\ published \in Seq(AnyMessage)
    /\ \A i \in 1 .. Len(published) : published[i].id = i
    /\ republished \in 0 .. Len(published)
    /\ out \in [Outs -> AnyOut]

\* A cache holds the last message of its kinds in p.
KeepsIn(p, x, kinds) ==
    /\ x # NoMessage => x.id \in 1 .. Len(p) /\ p[x.id] = x /\ x.kind \in kinds
    /\ \A i \in 1 .. Len(p) : p[i].kind \in kinds => x # NoMessage /\ i <= x.id

Keeps(x, kinds) == KeepsIn(published, x, kinds)

MetaKinds == {"metadata"}
AvcKinds == {"avc header"}
AacKinds == {"aac header"}

KeepsLast ==
    /\ Keeps(metadata, MetaKinds)
    /\ Keeps(avc_header, AvcKinds) /\ Keeps(aac_header, AacKinds)
    /\ Keeps(prev_audio_header_, AudioKinds) /\ Keeps(prev_video_header_, VideoKinds)

LEMMA KeptAre ==
    ASSUME TypesOk, NEW x, NEW kinds, Keeps(x, kinds)
    PROVE  /\ x \in Kept
           /\ x # NoMessage => x \in AnyMessage /\ x.kind \in kinds /\ x.id \in 1 .. Len(published)
BY DEF Keeps, KeepsIn, TypesOk, Kept

LEMMA CachesAre ==
    ASSUME TypesOk, KeepsLast
    PROVE  /\ metadata \in Kept /\ avc_header \in Kept /\ aac_header \in Kept
           /\ prev_audio_header_ \in Kept /\ prev_video_header_ \in Kept
           /\ avc_header # NoMessage => Media(avc_header) = "video"
           /\ aac_header # NoMessage => Media(aac_header) = "audio"
<1>1. "avc header" \in VideoKinds /\ "aac header" \notin VideoKinds
  BY DEF VideoKinds
<1>2. /\ metadata \in Kept /\ avc_header \in Kept /\ aac_header \in Kept
      /\ prev_audio_header_ \in Kept /\ prev_video_header_ \in Kept
  BY KeptAre, Zenon DEF KeepsLast
<1>3. /\ avc_header # NoMessage => avc_header.kind = "avc header"
      /\ aac_header # NoMessage => aac_header.kind = "aac header"
  BY DEF KeepsLast, Keeps, KeepsIn, MetaKinds, AvcKinds, AacKinds
<1> QED
  BY <1>1, <1>2, <1>3 DEF Media

\* An item of the caches that goes out before message m.
FromCache(g, rtmp, m) ==
    /\ g.cached /\ g.at = Len(published) + 1
    /\ ~rtmp /\ g.kind # "metadata" => g.ts = TagTimestamp(m)
    /\ \E x \in {metadata, avc_header, aac_header} :
         x # NoMessage /\ g.kind = x.kind /\ g.id = x.id

\* What SendCaches makes of s, for one kind of media and its cache.
FlagFollows(s, c, flag, x) ==
    /\ flag \in c.sent => flag \in s.sent \/ x # NoMessage
    /\ flag \notin s.sent /\ x # NoMessage =>
         /\ flag \in c.sent
         /\ \E i \in Len(s.got) + 1 .. Len(c.got) : c.got[i].cached /\ c.got[i].id = x.id
                /\ c.got[i].kind = x.kind
    /\ flag \in s.sent => c.clock[flag] = s.clock[flag]

Catches(s, c, rtmp, m) ==
    /\ c \in AnyOut /\ c.joined = s.joined /\ c.since = s.since
    /\ s.sent \subseteq c.sent /\ c.sent \subseteq s.sent \cup {"metadata", "video", "audio"}
    /\ Len(s.got) <= Len(c.got)
    /\ \A i \in 1 .. Len(s.got) : c.got[i] = s.got[i]
    /\ \A i \in Len(s.got) + 1 .. Len(c.got) : FromCache(c.got[i], rtmp, m)
    /\ FlagFollows(s, c, "video", avc_header) /\ FlagFollows(s, c, "audio", aac_header)

IsItem(g, x, ts) ==
    /\ g \in AnyItem /\ g.cached /\ g.kind = x.kind /\ g.id = x.id /\ g.ts = ts
    /\ g.at = Len(published) + 1

LEMMA SendCachesIs ==
    ASSUME TypesOk, KeepsLast, NEW s \in AnyOut, NEW rtmp \in BOOLEAN, NEW m \in AnyMessage
    PROVE  Catches(s, SendCaches(s, rtmp, m), rtmp, m)
<1> DEFINE tv == IF rtmp THEN avc_header.ts ELSE TagTimestamp(m)
           ta == IF rtmp THEN aac_header.ts ELSE TagTimestamp(m)
           gm == Item(metadata, TRUE, 0)
           gv == Item(avc_header, TRUE, tv)
           ga == Item(aac_header, TRUE, ta)
           c1 == SendCached(s, "metadata", metadata, 0)
           c2 == SendCached(c1, "video", avc_header, tv)
           c3 == SendCached(c2, "audio", aac_header, ta)
<1>1. published \in Seq(AnyMessage) /\ 0 \in Time
  BY GroupMediaAssumption DEF TypesOk, Time
<1>2. avc_header.ts \in Time /\ aac_header.ts \in Time /\ TagTimestamp(m) \in Time
  BY <1>1, CachesAre DEF Kept, AnyMessage, NoMessage, TagTimestamp
<1>3. tv \in Time /\ ta \in Time /\ (~rtmp => tv = TagTimestamp(m) /\ ta = TagTimestamp(m))
  BY <1>2
<1> HIDE DEF tv, ta
<1>4. Offered(s, c1, "metadata", metadata, gm)
  BY <1>1, CachesAre, SendCachedIs
<1>5. c1 \in AnyOut
  BY <1>4 DEF Offered
<1> HIDE DEF c1
<1>6. Offered(c1, c2, "video", avc_header, gv)
  BY <1>1, <1>3, <1>5, CachesAre, SendCachedIs
<1>7. c2 \in AnyOut
  BY <1>6 DEF Offered
<1> HIDE DEF c2
<1>8. Offered(c2, c3, "audio", aac_header, ga)
  BY <1>1, <1>3, <1>7, CachesAre, SendCachedIs
<1>9. SendCaches(s, rtmp, m) = c3
  BY DEF SendCaches, c1, c2, tv, ta
<1> HIDE DEF c3
<1>10. /\ c3 \in AnyOut /\ c3.joined = s.joined /\ c3.since = s.since
       /\ s.sent \subseteq c3.sent /\ c3.sent \subseteq s.sent \cup {"metadata", "video", "audio"}
  BY <1>4, <1>6, <1>8 DEF Offered
<1>11. /\ metadata # NoMessage => metadata \in AnyMessage
       /\ avc_header # NoMessage => avc_header \in AnyMessage
       /\ aac_header # NoMessage => aac_header \in AnyMessage
  BY CachesAre DEF Kept
<1>12. /\ metadata # NoMessage => IsItem(gm, metadata, 0)
       /\ avc_header # NoMessage => IsItem(gv, avc_header, tv)
       /\ aac_header # NoMessage => IsItem(ga, aac_header, ta)
  <2>1. \A x \in AnyMessage, ts \in Time : IsItem(Item(x, TRUE, ts), x, ts)
    BY <1>1, ItemIs, ZenonT(30) DEF IsItem
  <2> QED
    BY <1>1, <1>3, <1>11, <2>1
<1> HIDE DEF gm, gv, ga
<1>13. /\ s.got \in Seq(AnyItem) /\ c1.got \in Seq(AnyItem) /\ c2.got \in Seq(AnyItem)
       /\ c3.got \in Seq(AnyItem)
  BY <1>5, <1>7, <1>10 DEF AnyOut
<1>14. metadata # NoMessage => metadata.kind = "metadata"
  BY DEF KeepsLast, Keeps, KeepsIn, MetaKinds, AvcKinds, AacKinds
\* What one offer adds.
<1>15. /\ metadata # NoMessage => gm \in AnyItem /\ FromCache(gm, rtmp, m)
       /\ avc_header # NoMessage => gv \in AnyItem /\ FromCache(gv, rtmp, m)
       /\ aac_header # NoMessage => ga \in AnyItem /\ FromCache(ga, rtmp, m)
  <2>1. metadata # NoMessage => gm \in AnyItem /\ FromCache(gm, rtmp, m)
    BY <1>12, <1>14 DEF FromCache, IsItem
  <2>2. avc_header # NoMessage => gv \in AnyItem /\ FromCache(gv, rtmp, m)
    BY <1>3, <1>12 DEF FromCache, IsItem
  <2>3. aac_header # NoMessage => ga \in AnyItem /\ FromCache(ga, rtmp, m)
    BY <1>3, <1>12 DEF FromCache, IsItem
  <2> QED
    BY <2>1, <2>2, <2>3
<1>17. /\ Len(s.got) <= Len(c1.got) /\ Len(c1.got) \in Nat /\ Len(s.got) \in Nat
       /\ \A i \in 1 .. Len(s.got) : c1.got[i] = s.got[i]
       /\ \A i \in Len(s.got) + 1 .. Len(c1.got) : FromCache(c1.got[i], rtmp, m)
  BY <1>1, <1>4, <1>5, <1>11, <1>15, OfferAdds
<1>18. /\ Len(c1.got) <= Len(c2.got) /\ Len(c2.got) \in Nat
       /\ \A i \in 1 .. Len(c1.got) : c2.got[i] = c1.got[i]
       /\ \A i \in Len(c1.got) + 1 .. Len(c2.got) : FromCache(c2.got[i], rtmp, m)
  BY <1>1, <1>3, <1>5, <1>6, <1>7, <1>11, <1>15, OfferAdds
<1>19. /\ Len(c2.got) <= Len(c3.got) /\ Len(c3.got) \in Nat
       /\ \A i \in 1 .. Len(c2.got) : c3.got[i] = c2.got[i]
       /\ \A i \in Len(c2.got) + 1 .. Len(c3.got) : FromCache(c3.got[i], rtmp, m)
  BY <1>1, <1>3, <1>7, <1>8, <1>10, <1>11, <1>15, OfferAdds
<1>20. /\ Len(s.got) <= Len(c3.got)
       /\ \A i \in 1 .. Len(s.got) : c3.got[i] = s.got[i]
       /\ \A i \in Len(s.got) + 1 .. Len(c3.got) : FromCache(c3.got[i], rtmp, m)
  <2>1. ASSUME NEW i \in Len(s.got) + 1 .. Len(c3.got) PROVE FromCache(c3.got[i], rtmp, m)
    <3>1. CASE i \in Len(s.got) + 1 .. Len(c1.got)
      <4>1. c3.got[i] = c1.got[i]
        BY <1>17, <1>18, <1>19, <3>1
      <4> QED
        BY <1>17, <3>1, <4>1
    <3>2. CASE i \in Len(c1.got) + 1 .. Len(c2.got)
      <4>1. c3.got[i] = c2.got[i]
        BY <1>17, <1>18, <1>19, <3>2
      <4> QED
        BY <1>18, <3>2, <4>1
    <3>3. CASE i \in Len(c2.got) + 1 .. Len(c3.got)
      BY <1>19, <3>3
    <3> QED
      BY <1>17, <1>18, <1>19, <3>1, <3>2, <3>3
  <2> QED
    BY <1>17, <1>18, <1>19, <2>1
<1>21. FlagFollows(s, c3, "video", avc_header)
  <2>1. /\ "video" \in c1.sent <=> "video" \in s.sent
        /\ "video" \in c3.sent <=> "video" \in c2.sent
    BY <1>4, <1>8 DEF Offered
  <2>2. "video" \in c3.sent => "video" \in s.sent \/ avc_header # NoMessage
    BY <1>6, <2>1 DEF Offered
  <2>3. "video" \in s.sent => c3.clock["video"] = s.clock["video"]
    <3>1. c1.clock["video"] = s.clock["video"] /\ c3.clock["video"] = c2.clock["video"]
      BY <1>4, <1>8 DEF Offered, Medias
    <3> QED
      BY <1>6, <2>1, <3>1 DEF Offered
  <2>4. ASSUME "video" \notin s.sent, avc_header # NoMessage
        PROVE  /\ "video" \in c3.sent
               /\ \E i \in Len(s.got) + 1 .. Len(c3.got) : c3.got[i].cached
                    /\ c3.got[i].id = avc_header.id /\ c3.got[i].kind = avc_header.kind
    <3>1. c2.got = Append(c1.got, gv) /\ "video" \in c2.sent
      BY <1>6, <2>1, <2>4 DEF Offered
    <3>2. gv \in AnyItem /\ gv.cached /\ gv.id = avc_header.id /\ gv.kind = avc_header.kind
      BY <1>12, <2>4 DEF IsItem
    <3>3. Len(c2.got) = Len(c1.got) + 1 /\ c2.got[Len(c2.got)] = gv
      BY <1>13, <3>1, <3>2
    <3>4. c3.got[Len(c2.got)] = gv /\ Len(c2.got) \in Len(s.got) + 1 .. Len(c3.got)
      BY <1>17, <1>18, <1>19, <3>3
    <3> QED
      BY <2>1, <3>1, <3>2, <3>4
  <2> QED
    BY <2>2, <2>3, <2>4 DEF FlagFollows
<1>22. FlagFollows(s, c3, "audio", aac_header)
  <2>1. /\ "audio" \in c1.sent <=> "audio" \in s.sent
        /\ "audio" \in c2.sent <=> "audio" \in c1.sent
    BY <1>4, <1>6 DEF Offered
  <2>2. "audio" \in c3.sent => "audio" \in s.sent \/ aac_header # NoMessage
    BY <1>8, <2>1 DEF Offered
  <2>3. "audio" \in s.sent => c3.clock["audio"] = s.clock["audio"]
    <3>1. c1.clock["audio"] = s.clock["audio"] /\ c2.clock["audio"] = c1.clock["audio"]
      BY <1>4, <1>6 DEF Offered, Medias
    <3> QED
      BY <1>8, <2>1, <3>1 DEF Offered
  <2>4. ASSUME "audio" \notin s.sent, aac_header # NoMessage
        PROVE  /\ "audio" \in c3.sent
               /\ \E i \in Len(s.got) + 1 .. Len(c3.got) : c3.got[i].cached
                    /\ c3.got[i].id = aac_header.id /\ c3.got[i].kind = aac_header.kind
    <3>1. c3.got = Append(c2.got, ga) /\ "audio" \in c3.sent
      BY <1>8, <2>1, <2>4 DEF Offered
    <3>2. ga \in AnyItem /\ ga.cached /\ ga.id = aac_header.id /\ ga.kind = aac_header.kind
      BY <1>12, <2>4 DEF IsItem
    <3>3. Len(c3.got) = Len(c2.got) + 1 /\ c3.got[Len(c3.got)] = ga
      BY <1>13, <3>1, <3>2
    <3>4. Len(c3.got) \in Len(s.got) + 1 .. Len(c3.got)
      BY <1>17, <1>18, <1>19, <3>3
    <3> QED
      BY <3>1, <3>2, <3>3, <3>4
  <2> QED
    BY <2>2, <2>3, <2>4 DEF FlagFollows
<1> QED
  BY <1>9, <1>10, <1>20, <1>21, <1>22 DEF Catches

LEMMA TimeIsTime ==
    /\ 0 \in Time /\ TimeLimit \in Nat \ {0}
    /\ \A x \in Int : x % TimeLimit \in Time
BY GroupMediaAssumption DEF Time

\* The item of a message of the stream itself.
LiveItem(g, m) ==
    /\ g \in AnyItem /\ ~g.cached /\ g.kind = m.kind /\ g.id = m.id
    /\ g.at = Len(published) + 1 /\ ~g.shared

\* What send_av_data makes of s: caches, and m unless the session waits.
Fed(s, c, r, g, rtmp, m) ==
    /\ Catches(s, c, rtmp, m)
    /\ r \in AnyOut /\ r.joined = s.joined /\ r.since = s.since
    /\ \/ "key frame" \notin s.sent /\ ~IsStart(m) /\ r = c
       \/ /\ "key frame" \in s.sent \/ IsStart(m)
          /\ LiveItem(g, m)
          /\ r.got = Append(c.got, g) /\ r.sent = c.sent \cup {"key frame", Media(m)}
          /\ r.clock[Media(m)] = g.ts
          /\ \A M \in Medias \ {Media(m)} : r.clock[M] = c.clock[M]
          /\ ~rtmp => g.ts = m.ts
          /\ rtmp /\ Media(m) \in s.sent /\ prev_header(m) # NoMessage =>
               g.ts = (s.clock[Media(m)] + m.ts - prev_header(m).ts) % TimeLimit

LEMMA SendAvDataIs ==
    ASSUME TypesOk, KeepsLast, NEW s \in AnyOut, NEW rtmp \in BOOLEAN, NEW m \in AnyMessage
    PROVE  \E c, g : Fed(s, c, send_av_data(s, rtmp, m), g, rtmp, m)
<1> DEFINE c == SendCaches(s, rtmp, m)
           k == SetFlag(c, "key frame")
           ts == IF rtmp THEN RtmpTimestamp(k, m) ELSE TagTimestamp(m)
           g == Item(m, FALSE, ts)
           t == GetMedia(k, m, FALSE, ts)
           r == send_av_data(s, rtmp, m)
<1>1. Catches(s, c, rtmp, m)
  BY SendCachesIs
<1>2. c \in AnyOut /\ c.joined = s.joined /\ c.since = s.since
  BY <1>1 DEF Catches
<1>3. r = IF IsWaiting(c, m) THEN c ELSE SetFlag(t, Media(m))
  BY DEF send_av_data
<1> HIDE DEF c, r
<1>4. IsWaiting(c, m) <=> "key frame" \notin s.sent /\ ~IsStart(m)
  <2>1. "key frame" \in c.sent <=> "key frame" \in s.sent
    BY <1>1 DEF Catches
  <2> QED
    BY <2>1 DEF IsWaiting, IsStart
<1>5. CASE IsWaiting(c, m)
  <2>1. r = c
    BY <1>3, <1>5
  <2>2. Fed(s, c, r, g, rtmp, m)
    BY <1>1, <1>2, <1>4, <1>5, <2>1 DEF Fed
  <2> QED
    BY <2>2 DEF r
<1>6. CASE ~IsWaiting(c, m)
  <2>1. /\ k \in AnyOut /\ k.joined = c.joined /\ k.since = c.since /\ k.got = c.got
        /\ k.clock = c.clock /\ k.sent = c.sent \cup {"key frame"}
    <3>1. "key frame" \in Flags
      BY DEF Flags
    <3> QED
      BY <1>2, <3>1, SetFlagIs
  <2> HIDE DEF k
  <2>2. Media(m) \in Medias /\ Media(m) \in Flags /\ Media(m) # "key frame"
    BY MediaIs DEF Medias
  <2>3. k.clock[Media(m)] \in Time /\ m.ts \in Time /\ prev_header(m) \in Kept
        /\ prev_header(m).ts \in Time
    <3>1. prev_header(m) \in Kept
      BY CachesAre DEF prev_header
    <3>2. NoMessage.ts \in Time /\ m.ts \in Time /\ \A x \in AnyMessage : x.ts \in Time
      BY TimeIsTime DEF AnyMessage, NoMessage
    <3>3. prev_header(m).ts \in Time
      BY <3>1, <3>2 DEF Kept
    <3>4. k.clock[Media(m)] \in Time
      BY <2>1, <2>2 DEF AnyOut
    <3> QED
      BY <3>1, <3>2, <3>3, <3>4
  <2>4. /\ k.clock[Media(m)] + m.ts - prev_header(m).ts \in Int
    BY <2>3 DEF Time
  <2>5. ts \in Time
    <3>1. RtmpTimestamp(k, m) \in Time
      BY <2>3, <2>4, TimeIsTime DEF RtmpTimestamp
    <3> QED
      BY <2>3, <3>1 DEF TagTimestamp
  <2>6. ~rtmp => ts = m.ts
    BY DEF TagTimestamp
  <2>7. rtmp /\ Media(m) \in s.sent /\ prev_header(m) # NoMessage =>
            ts = (s.clock[Media(m)] + m.ts - prev_header(m).ts) % TimeLimit
    <3>1. ASSUME Media(m) \in s.sent
          PROVE  Media(m) \in k.sent /\ k.clock[Media(m)] = s.clock[Media(m)]
      <4>1. Media(m) \in c.sent
        BY <1>1, <3>1 DEF Catches
      <4>2. c.clock[Media(m)] = s.clock[Media(m)]
        BY <1>1, <2>2, <3>1 DEF Catches, FlagFollows, Medias
      <4> QED
        BY <2>1, <4>1, <4>2
    <3> QED
      BY <3>1 DEF RtmpTimestamp
  <2> HIDE DEF ts
  <2>8. published \in Seq(AnyMessage) /\ FALSE \in BOOLEAN
    BY DEF TypesOk
  <2>9. LiveItem(g, m) /\ g.ts = ts
    BY <2>5, <2>8, ItemIs DEF LiveItem
  <2>10. /\ Grew(k, t, g) /\ t.sent = k.sent /\ t.clock[Media(m)] = ts
         /\ \A M \in Medias \ {Media(m)} : t.clock[M] = k.clock[M]
    <3>1. GrewMedia(k, t, m, g, ts)
      BY <2>1, <2>5, <2>8, GetMediaIs
    <3> HIDE DEF t, g
    <3> QED
      BY <3>1 DEF GrewMedia
  <2> HIDE DEF t, g
  <2>11. t \in AnyOut /\ t.joined = k.joined /\ t.since = k.since /\ t.got = Append(k.got, g)
    BY <2>10 DEF Grew
  <2>12. /\ r \in AnyOut /\ r.joined = t.joined /\ r.since = t.since /\ r.got = t.got
         /\ r.clock = t.clock /\ r.sent = t.sent \cup {Media(m)}
    <3>1. r = SetFlag(t, Media(m))
      BY <1>3, <1>6
    <3> QED
      BY <2>2, <2>11, <3>1, SetFlagIs
  <2>13. r.sent = c.sent \cup {"key frame", Media(m)}
    BY <2>1, <2>10, <2>12
  <2>14. r.clock[Media(m)] = g.ts /\ \A M \in Medias \ {Media(m)} : r.clock[M] = c.clock[M]
    BY <2>1, <2>9, <2>10, <2>12
  <2>15. r.got = Append(c.got, g) /\ r \in AnyOut /\ r.joined = s.joined /\ r.since = s.since
    BY <1>2, <2>1, <2>11, <2>12
  <2>16. "key frame" \in s.sent \/ IsStart(m)
    BY <1>4, <1>6
  <2>17. Fed(s, c, r, g, rtmp, m)
    BY <1>1, <2>6, <2>7, <2>9, <2>13, <2>14, <2>15, <2>16 DEF Fed
  <2> QED
    BY <2>17 DEF r
<1> QED
  BY <1>5, <1>6

\* h is g, perhaps written anew in the queue.
Alike(g, h) ==
    /\ h \in AnyItem /\ h.kind = g.kind /\ h.id = g.id /\ h.cached = g.cached /\ h.at = g.at
    /\ h.shared => g.shared
    /\ ~g.cached => h.ts = g.ts

\* The cached tag of which g is a copy is given to another session before m.
Restamped(g) ==
    \/ g.id = avc_header.id /\ Stamped("video", avc_header)
    \/ g.id = aac_header.id /\ Stamped("audio", aac_header)

LEMMA WithStampsIs ==
    ASSUME NEW s \in AnyOut, NEW m \in AnyMessage,
           \A i \in 1 .. Len(s.got) : s.got[i].shared => s.got[i].cached
    PROVE  LET r == WithStamps(s, m) IN
           /\ r \in AnyOut /\ r.joined = s.joined /\ r.since = s.since
           /\ r.sent = s.sent /\ r.clock = s.clock /\ Len(r.got) = Len(s.got)
           /\ \A i \in 1 .. Len(s.got) :
                /\ Alike(s.got[i], r.got[i])
                /\ r.got[i].ts # s.got[i].ts => Restamped(s.got[i]) /\ r.got[i].ts = m.ts
<1> DEFINE changed(g) == /\ g.shared
                         /\ \/ g.id = avc_header.id /\ Stamped("video", avc_header)
                            \/ g.id = aac_header.id /\ Stamped("audio", aac_header)
           E(i) == IF changed(s.got[i]) THEN [s.got[i] EXCEPT !.ts = TagTimestamp(m)]
                   ELSE s.got[i]
           n == Len(s.got)
           got == [i \in 1 .. n |-> E(i)]
           r == WithStamps(s, m)
<1>1. r = [s EXCEPT !.got = got]
  BY DEF WithStamps
<1>2. m.ts \in Time /\ TagTimestamp(m) = m.ts
  BY DEF AnyMessage, TagTimestamp
<1>3. s.got \in Seq(AnyItem) /\ n \in Nat
  BY DEF AnyOut
<1> HIDE DEF r, n
<1>4. ASSUME NEW i \in 1 .. n
      PROVE  /\ Alike(s.got[i], E(i))
             /\ E(i).ts # s.got[i].ts => Restamped(s.got[i]) /\ E(i).ts = m.ts
  <2>1. s.got[i] \in AnyItem /\ (s.got[i].shared => s.got[i].cached)
    BY <1>3 DEF n
  <2>2. E(i) = IF changed(s.got[i]) THEN [s.got[i] EXCEPT !.ts = m.ts] ELSE s.got[i]
    BY <1>2
  <2>3. changed(s.got[i]) => s.got[i].shared /\ Restamped(s.got[i])
    BY DEF Restamped
  <2> DEFINE g == s.got[i]
             h == E(i)
  <2> HIDE DEF E, changed
  <2>4. CASE changed(g)
    <3>1. h = [g EXCEPT !.ts = m.ts]
      BY <2>2, <2>4
    <3>2. g \in AnyItem /\ g.shared /\ g.cached /\ Restamped(g)
      BY <2>1, <2>3, <2>4
    <3> HIDE DEF g, h
    <3>3. Alike(g, h) /\ h.ts = m.ts
      BY <1>2, <3>1, <3>2 DEF AnyItem, Alike
    <3> QED
      BY <3>2, <3>3 DEF g, h
  <2>5. CASE ~changed(g)
    <3>1. h = g
      BY <2>2, <2>5
    <3> QED
      BY <2>1, <3>1 DEF Alike
  <2> QED
    BY <2>4, <2>5
<1> HIDE DEF E
<1>5. got \in Seq(AnyItem) /\ Len(got) = n /\ \A i \in 1 .. n : got[i] = E(i)
  <2>1. \A i \in 1 .. n : E(i) \in AnyItem
    BY <1>4 DEF Alike
  <2>2. got \in [1 .. n -> AnyItem]
    BY <2>1
  <2> QED
    BY <1>3, <2>2
<1> HIDE DEF got
<1>6. r.got = got /\ r \in AnyOut
  BY <1>1, <1>5 DEF AnyOut
<1>7. r.joined = s.joined /\ r.since = s.since /\ r.sent = s.sent /\ r.clock = s.clock
  BY <1>1 DEF AnyOut
<1> QED
  BY <1>4, <1>5, <1>6, <1>7 DEF r, n

-----------------------------------------------------------------------------
(* What a message of the publisher makes of a session *)

IsLive(s, m) == m.kind # "metadata" /\ ("key frame" \in s.sent \/ IsStart(m))

\* Metadata, which every session gets.
MetaItem(g, m) ==
    /\ g \in AnyItem /\ m.kind = "metadata" /\ g.kind = m.kind /\ g.id = m.id
    /\ ~g.shared /\ ~g.cached
    /\ g.at = Len(published) + 1

\* What s was sent stays, perhaps written anew.
Follows(s, r) ==
    /\ r \in AnyOut /\ r.joined = s.joined /\ r.since = s.since
    /\ Len(s.got) \in Nat /\ Len(r.got) \in Nat /\ Len(s.got) <= Len(r.got)
    /\ \A i \in 1 .. Len(s.got) : Alike(s.got[i], r.got[i])

Renewed(s, r, rtmp, m) ==
    \A i \in 1 .. Len(s.got) : r.got[i].ts # s.got[i].ts =>
        ~rtmp /\ m.kind # "metadata" /\ Restamped(s.got[i]) /\ r.got[i].ts = m.ts

\* A live message comes last, after what else is new.
Added(s, r, rtmp, m) ==
    /\ IsLive(s, m) => Len(s.got) < Len(r.got) /\ LiveItem(r.got[Len(r.got)], m)
    /\ \A i \in Len(s.got) + 1 .. Len(r.got) :
         \/ IsLive(s, m) /\ i = Len(r.got)
         \/ FromCache(r.got[i], rtmp, m) \/ MetaItem(r.got[i], m)

Opens(s, r, m) ==
    /\ s.sent \subseteq r.sent
    /\ "key frame" \in r.sent <=> "key frame" \in s.sent \/ IsLive(s, m)
    /\ IsLive(s, m) => Media(m) \in r.sent

GrewFlag(s, r, m, flag, x) ==
    /\ flag \in r.sent =>
         flag \in s.sent \/ (m.kind # "metadata" /\ x # NoMessage)
                        \/ (IsLive(s, m) /\ Media(m) = flag)
    /\ flag \notin s.sent /\ x # NoMessage /\ m.kind # "metadata" =>
         \E i \in Len(s.got) + 1 .. Len(r.got) :
            r.got[i].cached /\ r.got[i].id = x.id /\ r.got[i].kind = x.kind
    /\ flag \in s.sent /\ ~(IsLive(s, m) /\ Media(m) = flag) => r.clock[flag] = s.clock[flag]

GrewFlags(s, r, m) ==
    GrewFlag(s, r, m, "video", avc_header) /\ GrewFlag(s, r, m, "audio", aac_header)

Timed(s, r, rtmp, m) ==
    IsLive(s, m) =>
        /\ ~rtmp => r.got[Len(r.got)].ts = m.ts
        /\ r.clock[Media(m)] = r.got[Len(r.got)].ts
        /\ rtmp /\ Media(m) \in s.sent /\ prev_header(m) # NoMessage =>
             r.got[Len(r.got)].ts =
                (s.clock[Media(m)] + m.ts - prev_header(m).ts) % TimeLimit

Grown(s, r, rtmp, m) ==
    /\ Follows(s, r) /\ Renewed(s, r, rtmp, m) /\ Added(s, r, rtmp, m)
    /\ Opens(s, r, m) /\ GrewFlags(s, r, m) /\ Timed(s, r, rtmp, m)

\* A session that waits gets no more than the caches.
LEMMA WaitingGrows ==
    ASSUME NEW s \in AnyOut, NEW rtmp \in BOOLEAN, NEW m \in AnyMessage, NEW r,
           m.kind # "metadata", Catches(s, r, rtmp, m), ~IsLive(s, m)
    PROVE  Grown(s, r, rtmp, m)
<1>1. /\ s.got \in Seq(AnyItem) /\ r.got \in Seq(AnyItem)
      /\ Len(s.got) \in Nat /\ Len(r.got) \in Nat /\ Len(s.got) <= Len(r.got)
      /\ r \in AnyOut /\ r.joined = s.joined /\ r.since = s.since
  BY DEF AnyOut, Catches
<1>2. \A i \in 1 .. Len(s.got) : s.got[i] \in AnyItem /\ r.got[i] = s.got[i]
  BY <1>1 DEF Catches
<1>3. \A x \in AnyItem : Alike(x, x)
  BY DEF Alike
<1>4. Follows(s, r)
  BY <1>1, <1>2, <1>3 DEF Follows
<1>5. Renewed(s, r, rtmp, m)
  BY <1>2 DEF Renewed
<1>6. Added(s, r, rtmp, m)
  BY DEF Catches, Added
<1>7. Opens(s, r, m)
  BY DEF Catches, Opens
<1>8. GrewFlags(s, r, m)
  BY DEF Catches, GrewFlags, GrewFlag, FlagFollows
<1>9. Timed(s, r, rtmp, m)
  BY DEF Timed
<1> QED
  BY <1>4, <1>5, <1>6, <1>7, <1>8, <1>9 DEF Grown

\* Any other session gets the message after them.
LEMMA FedGrows ==
    ASSUME NEW s \in AnyOut, NEW rtmp \in BOOLEAN, NEW m \in AnyMessage,
           m.kind # "metadata", NEW c, NEW r, NEW g, Fed(s, c, r, g, rtmp, m)
    PROVE  Grown(s, r, rtmp, m)
<1>1. Catches(s, c, rtmp, m) /\ r \in AnyOut /\ r.joined = s.joined /\ r.since = s.since
  BY DEF Fed
<1>2. CASE ~IsLive(s, m)
  <2>1. r = c
    BY <1>2 DEF Fed, IsLive
  <2> QED
    BY <1>1, <1>2, <2>1, WaitingGrows
<1>3. CASE IsLive(s, m)
  <2>1. /\ LiveItem(g, m)
        /\ r.got = Append(c.got, g) /\ r.sent = c.sent \cup {"key frame", Media(m)}
        /\ r.clock[Media(m)] = g.ts
        /\ \A M \in Medias \ {Media(m)} : r.clock[M] = c.clock[M]
        /\ ~rtmp => g.ts = m.ts
        /\ rtmp /\ Media(m) \in s.sent /\ prev_header(m) # NoMessage =>
             g.ts = (s.clock[Media(m)] + m.ts - prev_header(m).ts) % TimeLimit
    BY <1>3 DEF Fed, IsLive
  <2>2. c \in AnyOut /\ Len(s.got) <= Len(c.got) /\ r.got = Append(c.got, g) /\ g \in AnyItem
    BY <1>1, <2>1 DEF Catches, LiveItem
  <2>3. /\ s.got \in Seq(AnyItem) /\ c.got \in Seq(AnyItem) /\ Len(s.got) \in Nat
        /\ Len(c.got) \in Nat /\ Len(s.got) <= Len(c.got)
    BY <2>2 DEF AnyOut
  <2>4. /\ Len(r.got) = Len(c.got) + 1 /\ r.got[Len(r.got)] = g
        /\ \A i \in 1 .. Len(c.got) : r.got[i] = c.got[i]
    BY <2>2, <2>3
  <2>5. \A i \in 1 .. Len(s.got) : s.got[i] \in AnyItem /\ c.got[i] = s.got[i]
    BY <1>1, <2>3 DEF Catches
  <2>6. \A i \in 1 .. Len(s.got) : s.got[i] \in AnyItem /\ r.got[i] = s.got[i]
    BY <2>3, <2>4, <2>5
  <2>7. Follows(s, r)
    <3>1. \A x \in AnyItem : Alike(x, x)
      BY DEF Alike
    <3> QED
      BY <1>1, <2>3, <2>4, <2>6, <3>1 DEF Follows
  <2>8. Renewed(s, r, rtmp, m)
    BY <2>6 DEF Renewed
  <2>9. Added(s, r, rtmp, m)
    <3>1. ASSUME NEW i \in Len(s.got) + 1 .. Len(r.got), i # Len(r.got)
          PROVE  FromCache(r.got[i], rtmp, m)
      <4>1. i \in Len(s.got) + 1 .. Len(c.got) /\ r.got[i] = c.got[i]
        BY <2>3, <2>4, <3>1
      <4> QED
        BY <1>1, <4>1 DEF Catches
    <3>2. Len(s.got) < Len(r.got)
      BY <2>3, <2>4
    <3> QED
      BY <1>3, <2>1, <2>4, <3>1, <3>2 DEF Added
  <2>10. Opens(s, r, m)
    BY <1>1, <1>3, <2>1 DEF Catches, Opens
  <2>11. ASSUME NEW flag \in Medias, NEW x, FlagFollows(s, c, flag, x)
         PROVE  GrewFlag(s, r, m, flag, x)
    <3>1. flag # "key frame"
      BY DEF Medias
    <3>2. flag \in r.sent => flag \in s.sent \/ x # NoMessage \/ Media(m) = flag
      BY <2>1, <2>11, <3>1 DEF FlagFollows
    <3>3. ASSUME flag \notin s.sent, x # NoMessage
          PROVE  \E i \in Len(s.got) + 1 .. Len(r.got) :
                    r.got[i].cached /\ r.got[i].id = x.id /\ r.got[i].kind = x.kind
      <4>1. PICK i \in Len(s.got) + 1 .. Len(c.got) :
              c.got[i].cached /\ c.got[i].id = x.id /\ c.got[i].kind = x.kind
        BY <2>11, <3>3 DEF FlagFollows
      <4>2. i \in Len(s.got) + 1 .. Len(r.got) /\ r.got[i] = c.got[i]
        BY <2>3, <2>4, <4>1
      <4> QED
        BY <4>1, <4>2
    <3>4. flag \in s.sent /\ Media(m) # flag => r.clock[flag] = s.clock[flag]
      <4>1. flag \in s.sent => c.clock[flag] = s.clock[flag]
        BY <2>11 DEF FlagFollows
      <4> QED
        BY <2>1, <4>1
    <3> QED
      BY <1>3, <3>2, <3>3, <3>4 DEF GrewFlag
  <2>12. GrewFlags(s, r, m)
    <3>1. FlagFollows(s, c, "video", avc_header) /\ FlagFollows(s, c, "audio", aac_header)
      BY <1>1 DEF Catches
    <3> QED
      BY <2>11, <3>1 DEF Medias, GrewFlags
  <2>13. Timed(s, r, rtmp, m)
    BY <2>1, <2>4 DEF Timed
  <2> QED
    BY <2>7, <2>8, <2>9, <2>10, <2>12, <2>13 DEF Grown
<1> QED
  BY <1>2, <1>3

\* An HttpFlvSub is sent to after its queue was written anew.
LEMMA StampedGrows ==
    ASSUME NEW s \in AnyOut, NEW t \in AnyOut, NEW m \in AnyMessage, NEW r,
           m.kind # "metadata", Grown(t, r, FALSE, m),
           t.joined = s.joined, t.since = s.since, t.sent = s.sent, t.clock = s.clock,
           Len(t.got) = Len(s.got),
           \A i \in 1 .. Len(s.got) :
                /\ Alike(s.got[i], t.got[i])
                /\ t.got[i].ts # s.got[i].ts => Restamped(s.got[i]) /\ t.got[i].ts = m.ts
    PROVE  Grown(s, r, FALSE, m)
<1>1. IsLive(s, m) <=> IsLive(t, m)
  BY DEF IsLive
<1>2. Follows(s, r)
  <2>1. \A x, y, z : Alike(x, y) /\ Alike(y, z) => Alike(x, z)
    BY DEF Alike
  <2>2. \A i \in 1 .. Len(s.got) : Alike(s.got[i], r.got[i])
    BY <2>1 DEF Grown, Follows
  <2> QED
    BY <2>2 DEF Grown, Follows
<1>3. Renewed(s, r, FALSE, m)
  <2>1. ASSUME NEW i \in 1 .. Len(s.got), r.got[i].ts # s.got[i].ts
        PROVE  Restamped(s.got[i]) /\ r.got[i].ts = m.ts
    <3>1. CASE r.got[i].ts = t.got[i].ts
      BY <2>1, <3>1
    <3>2. CASE r.got[i].ts # t.got[i].ts
      <4>1. Restamped(t.got[i]) /\ r.got[i].ts = m.ts
        BY <3>2 DEF Grown, Renewed
      <4>2. t.got[i].id = s.got[i].id
        BY DEF Alike
      <4> QED
        BY <4>1, <4>2 DEF Restamped
    <3> QED
      BY <3>1, <3>2
  <2> QED
    BY <2>1 DEF Renewed
<1>4. Added(s, r, FALSE, m)
  BY <1>1 DEF Grown, Added
<1>5. Opens(s, r, m)
  BY <1>1 DEF Grown, Opens
<1>6. GrewFlags(s, r, m)
  BY <1>1 DEF Grown, GrewFlags, GrewFlag
<1>7. Timed(s, r, FALSE, m)
  BY <1>1 DEF Grown, Timed
<1> QED
  BY <1>2, <1>3, <1>4, <1>5, <1>6, <1>7 DEF Grown

\* Metadata goes to everybody.
LEMMA MetaDataGrows ==
    ASSUME published \in Seq(AnyMessage), NEW s \in AnyOut, NEW rtmp \in BOOLEAN,
           NEW m \in AnyMessage, m.kind = "metadata", m.id = Len(published) + 1
    PROVE  Grown(s, send_meta_data(s, rtmp, m), rtmp, m)
<1> DEFINE t == Get(s, m, FALSE, 0)
           g == Item(m, FALSE, 0)
           r == send_meta_data(s, rtmp, m)
<1>1. Grew(s, t, g) /\ t.sent = s.sent /\ t.clock = s.clock
  BY TimeIsTime, GetIs
<1>2. MetaItem(g, m) /\ g \in AnyItem
  BY TimeIsTime, ItemIs DEF MetaItem
<1>3. r = t \/ r = SetFlag(t, "metadata")
  BY DEF send_meta_data
<1> HIDE DEF t, g, r
<1>4. t \in AnyOut /\ t.joined = s.joined /\ t.since = s.since /\ t.got = Append(s.got, g)
  BY <1>1 DEF Grew
<1>5. /\ r \in AnyOut /\ r.joined = s.joined /\ r.since = s.since /\ r.got = Append(s.got, g)
      /\ r.clock = s.clock /\ s.sent \subseteq r.sent /\ r.sent \subseteq s.sent \cup {"metadata"}
  <2>1. CASE r = t
    BY <1>1, <1>4, <2>1
  <2>2. CASE r = SetFlag(t, "metadata")
    <3>1. "metadata" \in Flags
      BY DEF Flags
    <3> QED
      BY <1>1, <1>4, <2>2, <3>1, SetFlagIs
  <2> QED
    BY <1>3, <2>1, <2>2
<1>6. s.got \in Seq(AnyItem) /\ Len(s.got) \in Nat
  BY DEF AnyOut
<1>7. /\ Len(r.got) = Len(s.got) + 1 /\ r.got[Len(r.got)] = g
      /\ \A i \in 1 .. Len(s.got) : s.got[i] \in AnyItem /\ r.got[i] = s.got[i]
  BY <1>2, <1>5, <1>6
<1>8. ~IsLive(s, m)
  BY DEF IsLive
<1>9. Follows(s, r)
  <2>1. \A x \in AnyItem : Alike(x, x)
    BY DEF Alike
  <2> QED
    BY <1>5, <1>6, <1>7, <2>1 DEF Follows
<1>10. Renewed(s, r, rtmp, m)
  BY <1>7 DEF Renewed
<1>11. Added(s, r, rtmp, m)
  <2>1. ASSUME NEW i \in Len(s.got) + 1 .. Len(r.got) PROVE MetaItem(r.got[i], m)
    <3>1. i = Len(r.got)
      BY <1>6, <1>7
    <3> QED
      BY <1>2, <1>7, <3>1
  <2> QED
    BY <1>8, <2>1 DEF Added
<1>12. Opens(s, r, m)
  BY <1>5, <1>8 DEF Opens
<1>13. GrewFlags(s, r, m)
  BY <1>5, <1>8 DEF GrewFlags, GrewFlag
<1>14. Timed(s, r, rtmp, m)
  BY <1>8 DEF Timed
<1>15. Grown(s, r, rtmp, m)
  BY <1>9, <1>10, <1>11, <1>12, <1>13, <1>14 DEF Grown
<1> QED
  BY <1>15 DEF r

-----------------------------------------------------------------------------
(* A step of the group *)

Renews(x, y, m, kinds) == (m.kind \in kinds /\ y = m) \/ (m.kind \notin kinds /\ y = x)

CachesStep(m) ==
    /\ Renews(metadata, metadata', m, MetaKinds)
    /\ Renews(avc_header, avc_header', m, AvcKinds)
    /\ Renews(aac_header, aac_header', m, AacKinds)
    /\ Renews(prev_audio_header_, prev_audio_header_', m, AudioKinds)
    /\ Renews(prev_video_header_, prev_video_header_', m, VideoKinds)

OutStep(o, m) ==
    \/ out[o].joined /\ Grown(out[o], out'[o], o \in RtmpOuts, m)
    \/ ~out[o].joined /\ out'[o] = out[o]

\* A message is published and given to every session.
Stepped(m) ==
    /\ m \in AnyMessage /\ m.id = Len(published) + 1
    /\ published' = Append(published, m) /\ republished' = republished
    /\ CachesStep(m)
    /\ out' \in [Outs -> AnyOut]
    /\ \A o \in Outs : OutStep(o, m)

SharedAreCached ==
    \A o \in Outs : \A i \in 1 .. Len(out[o].got) : out[o].got[i].shared => out[o].got[i].cached

LEMMA MessageIs ==
    ASSUME TypesOk, NEW kind \in Kinds \cup {"metadata"}
    PROVE  /\ Message(kind) \in AnyMessage /\ Message(kind).kind = kind
           /\ Message(kind).id = Len(published) + 1
<1>1. /\ Len(published) + 1 \in Nat
      /\ FirstTime + (Len(published) + 1) - republished \in Int
  BY GroupMediaAssumption DEF TypesOk
<1>2. (FirstTime + (Len(published) + 1) - republished) % TimeLimit \in Time
  BY <1>1, TimeIsTime
<1> QED
  BY <1>1, <1>2 DEF Message, AnyMessage

LEMMA MetaDataStep ==
    ASSUME TypesOk, on_rtmp_meta_data
    PROVE  Stepped(Message("metadata"))
<1> DEFINE m == Message("metadata")
<1>1. m \in AnyMessage /\ m.kind = "metadata" /\ m.id = Len(published) + 1
  BY MessageIs
<1>2. /\ published' = Append(published, m) /\ republished' = republished
      /\ metadata' = m
      /\ out' = [o \in Outs |-> IF out[o].joined THEN send_meta_data(out[o], o \in RtmpOuts, m)
                              ELSE out[o]]
      /\ UNCHANGED <<avc_header, aac_header, prev_audio_header_, prev_video_header_>>
  BY DEF on_rtmp_meta_data, Publish
<1> HIDE DEF m
<1>3. CachesStep(m)
  BY <1>1, <1>2 DEF CachesStep, Renews, MetaKinds, AvcKinds, AacKinds, AudioKinds, VideoKinds
<1>4. ASSUME NEW o \in Outs PROVE OutStep(o, m) /\ out'[o] \in AnyOut
  <2>1. out[o] \in AnyOut /\ published \in Seq(AnyMessage) /\ (o \in RtmpOuts) \in BOOLEAN
    BY DEF TypesOk
  <2>2. CASE out[o].joined
    <3>1. out'[o] = send_meta_data(out[o], o \in RtmpOuts, m)
      BY <1>2, <2>2
    <3>2. Grown(out[o], send_meta_data(out[o], o \in RtmpOuts, m), o \in RtmpOuts, m)
      BY <1>1, <2>1, MetaDataGrows
    <3> QED
      BY <2>2, <3>1, <3>2 DEF OutStep, Grown, Follows
  <2>3. CASE ~out[o].joined
    BY <1>2, <2>1, <2>3 DEF OutStep
  <2> QED
    BY <2>2, <2>3
<1>5. out' \in [Outs -> AnyOut]
  BY <1>2, <1>4
<1>6. Stepped(m)
  BY <1>1, <1>2, <1>3, <1>4, <1>5 DEF Stepped
<1> QED
  BY <1>6 DEF m

LEMMA AvDataStep ==
    ASSUME TypesOk, KeepsLast, SharedAreCached, NEW kind \in Kinds, on_rtmp_av_data(kind)
    PROVE  Stepped(Message(kind))
<1> DEFINE m == Message(kind)
<1>1. m \in AnyMessage /\ m.kind = kind /\ m.id = Len(published) + 1 /\ m.kind # "metadata"
  BY MessageIs, KindsAre
<1>2. /\ published' = Append(published, m) /\ republished' = republished
      /\ SendAvData(m)
      /\ avc_header' = IF kind = "avc header" THEN m ELSE avc_header
      /\ aac_header' = IF kind = "aac header" THEN m ELSE aac_header
      /\ prev_audio_header_' = IF Media(m) = "audio" THEN m ELSE prev_audio_header_
      /\ prev_video_header_' = IF Media(m) = "video" THEN m ELSE prev_video_header_
      /\ UNCHANGED metadata
  BY DEF on_rtmp_av_data, Publish
<1> HIDE DEF m
<1>3. CachesStep(m)
  <2>1. /\ Media(m) = "audio" <=> m.kind \in AudioKinds
        /\ Media(m) = "video" <=> m.kind \in VideoKinds
    BY <1>1 DEF Media, Kinds, AudioKinds, VideoKinds
  <2> QED
    BY <1>1, <1>2, <2>1 DEF CachesStep, Renews, MetaKinds, AvcKinds, AacKinds
<1>4. out' = [o \in Outs |->
        IF ~out[o].joined THEN out[o]
        ELSE IF o \in RtmpOuts THEN send_av_data(out[o], TRUE, m)
        ELSE send_av_data(WithStamps(out[o], m), FALSE, m)]
  BY <1>2 DEF SendAvData
<1>5. ASSUME NEW o \in Outs PROVE OutStep(o, m) /\ out'[o] \in AnyOut
  <2>1. out[o] \in AnyOut
    BY DEF TypesOk
  <2>2. CASE ~out[o].joined
    BY <1>4, <2>1, <2>2 DEF OutStep
  <2>3. CASE out[o].joined /\ o \in RtmpOuts
    <3>1. out'[o] = send_av_data(out[o], TRUE, m)
      BY <1>4, <2>3
    <3>2. PICK c, g : Fed(out[o], c, send_av_data(out[o], TRUE, m), g, TRUE, m)
      BY <1>1, <2>1, SendAvDataIs
    <3>3. Grown(out[o], out'[o], TRUE, m)
      BY <1>1, <2>1, <3>1, <3>2, FedGrows
    <3>4. (o \in RtmpOuts) = TRUE
      BY <2>3
    <3> QED
      BY <2>3, <3>3, <3>4 DEF OutStep, Grown, Follows
  <2>4. CASE out[o].joined /\ o \notin RtmpOuts
    <3> DEFINE t == WithStamps(out[o], m)
    <3>1. out'[o] = send_av_data(t, FALSE, m)
      BY <1>4, <2>4
    <3>2. \A i \in 1 .. Len(out[o].got) : out[o].got[i].shared => out[o].got[i].cached
      BY DEF SharedAreCached
    <3>3. /\ t \in AnyOut /\ t.joined = out[o].joined /\ t.since = out[o].since
          /\ t.sent = out[o].sent /\ t.clock = out[o].clock /\ Len(t.got) = Len(out[o].got)
          /\ \A i \in 1 .. Len(out[o].got) :
                /\ Alike(out[o].got[i], t.got[i])
                /\ t.got[i].ts # out[o].got[i].ts =>
                     Restamped(out[o].got[i]) /\ t.got[i].ts = m.ts
      BY <1>1, <2>1, <3>2, WithStampsIs
    <3> HIDE DEF t
    <3>4. PICK c, g : Fed(t, c, send_av_data(t, FALSE, m), g, FALSE, m)
      BY <1>1, <3>3, SendAvDataIs
    <3>5. Grown(t, out'[o], FALSE, m)
      BY <1>1, <3>1, <3>3, <3>4, FedGrows
    <3>6. Grown(out[o], out'[o], FALSE, m)
      BY <1>1, <2>1, <3>3, <3>5, StampedGrows
    <3>7. (o \in RtmpOuts) = FALSE
      BY <2>4
    <3> QED
      BY <2>4, <3>6, <3>7 DEF OutStep, Grown, Follows
  <2> QED
    BY <2>2, <2>3, <2>4
<1>6. out' \in [Outs -> AnyOut]
  BY <1>4, <1>5
<1>7. Stepped(m)
  BY <1>1, <1>2, <1>3, <1>5, <1>6 DEF Stepped
<1> QED
  BY <1>7 DEF m

\* Nothing is published: at most a session joins or writes.
Settled(s, r) ==
    /\ r.sent = s.sent /\ r.clock = s.clock /\ Len(r.got) = Len(s.got)
    /\ \A i \in 1 .. Len(s.got) : Alike(s.got[i], r.got[i]) /\ r.got[i].ts = s.got[i].ts
    /\ \/ r.joined = s.joined /\ r.since = s.since
       \/ ~s.joined /\ r.joined /\ r.since = Len(published)

Quiet ==
    /\ published' = published /\ republished' \in 0 .. Len(published)
    /\ metadata' = metadata /\ avc_header' = avc_header /\ aac_header' = aac_header
    /\ prev_audio_header_' = prev_audio_header_ /\ prev_video_header_' = prev_video_header_
    /\ out' \in [Outs -> AnyOut]
    /\ \A o \in Outs : Settled(out[o], out'[o])

LEMMA SettledAlone ==
    ASSUME NEW s \in AnyOut PROVE Settled(s, s)
<1>1. s.got \in Seq(AnyItem)
  BY DEF AnyOut
<1>2. \A i \in 1 .. Len(s.got) : s.got[i] \in AnyItem
  BY <1>1
<1>3. \A x \in AnyItem : Alike(x, x)
  BY DEF Alike
<1> QED
  BY <1>2, <1>3 DEF Settled

LEMMA UnchangedIsQuiet ==
    ASSUME TypesOk, UNCHANGED <<published, cacheVars, out>>, republished' \in 0 .. Len(published)
    PROVE  Quiet
<1>1. /\ published' = published /\ out' = out
      /\ metadata' = metadata /\ avc_header' = avc_header /\ aac_header' = aac_header
      /\ prev_audio_header_' = prev_audio_header_ /\ prev_video_header_' = prev_video_header_
  BY DEF cacheVars
<1>2. \A o \in Outs : Settled(out[o], out[o])
  BY SettledAlone DEF TypesOk
<1> QED
  BY <1>1, <1>2 DEF Quiet, TypesOk

LEMMA JoinIsQuiet ==
    ASSUME TypesOk, NEW o \in Outs, Join(o) PROVE Quiet
<1> DEFINE s == out[o]
           r == [s EXCEPT !.joined = TRUE, !.since = Len(published)]
<1>1. /\ published' = published /\ republished' = republished
      /\ metadata' = metadata /\ avc_header' = avc_header /\ aac_header' = aac_header
      /\ prev_audio_header_' = prev_audio_header_ /\ prev_video_header_' = prev_video_header_
      /\ ~s.joined
  BY DEF Join, cacheVars
<1>2. out' = [out EXCEPT ![o] = r]
  BY DEF Join
<1>3. s \in AnyOut /\ Len(published) \in Nat
  BY DEF TypesOk
<1>4. Settled(s, s)
  BY <1>3, SettledAlone
<1> HIDE DEF s
<1>5. /\ r \in AnyOut /\ r.joined = TRUE /\ r.since = Len(published) /\ r.got = s.got
      /\ r.sent = s.sent /\ r.clock = s.clock
  BY <1>3 DEF AnyOut
<1> HIDE DEF r
<1>6. Settled(s, r)
  BY <1>1, <1>4, <1>5 DEF Settled
<1>7. out' \in [Outs -> AnyOut]
  BY <1>2, <1>5 DEF TypesOk
<1>8. ASSUME NEW p \in Outs PROVE Settled(out[p], out'[p])
  <2>1. CASE p = o
    BY <1>2, <1>6, <2>1 DEF s, TypesOk
  <2>2. CASE p # o
    <3>1. out'[p] = out[p] /\ out[p] \in AnyOut
      BY <1>2, <2>2 DEF TypesOk
    <3> QED
      BY <3>1, SettledAlone
  <2> QED
    BY <2>1, <2>2
<1> QED
  BY <1>1, <1>7, <1>8 DEF Quiet, TypesOk

LEMMA WriteIsQuiet ==
    ASSUME TypesOk, NEW o \in FlvOuts, Write(o) PROVE Quiet
<1>1. o \in Outs
  BY DEF Outs
<1> DEFINE s == out[o]
<1>2. PICK i \in 1 .. Len(s.got) : out' = [out EXCEPT ![o].got[i].shared = FALSE]
  BY DEF Write
<1> DEFINE g == s.got[i]
           h == [g EXCEPT !.shared = FALSE]
           q == [s.got EXCEPT ![i] = h]
           r == [s EXCEPT !.got = q]
<1>3. /\ published' = published /\ republished' = republished
      /\ metadata' = metadata /\ avc_header' = avc_header /\ aac_header' = aac_header
      /\ prev_audio_header_' = prev_audio_header_ /\ prev_video_header_' = prev_video_header_
  BY DEF Write, cacheVars
<1>4. out' = [out EXCEPT ![o] = r]
  BY <1>2
<1>5. s \in AnyOut
  BY <1>1 DEF TypesOk
<1>6. Settled(s, s)
  BY <1>5, SettledAlone
<1> HIDE DEF s
<1>7. s.got \in Seq(AnyItem)
  BY <1>5 DEF AnyOut
<1>8. g \in AnyItem
  BY <1>7
<1> HIDE DEF g
<1>9. Alike(g, h) /\ h \in AnyItem /\ h.ts = g.ts
  BY <1>8 DEF Alike, AnyItem
<1> HIDE DEF h
<1>10. /\ q \in Seq(AnyItem) /\ Len(q) = Len(s.got)
       /\ \A j \in 1 .. Len(s.got) : j # i => q[j] = s.got[j]
       /\ q[i] = h
  BY <1>7, <1>9
<1> HIDE DEF q
<1>11. /\ r \in AnyOut /\ r.joined = s.joined /\ r.since = s.since /\ r.got = q
       /\ r.sent = s.sent /\ r.clock = s.clock
  BY <1>5, <1>10 DEF AnyOut
<1> HIDE DEF r
<1>12. ASSUME NEW j \in 1 .. Len(s.got)
       PROVE Alike(s.got[j], r.got[j]) /\ r.got[j].ts = s.got[j].ts
  <2>1. CASE j = i
    BY <1>9, <1>10, <1>11, <2>1 DEF g
  <2>2. CASE j # i
    <3>1. r.got[j] = s.got[j]
      BY <1>10, <1>11, <2>2
    <3> QED
      BY <1>6, <3>1 DEF Settled
  <2> QED
    BY <2>1, <2>2
<1>13. Settled(s, r)
  BY <1>10, <1>11, <1>12 DEF Settled
<1>14. out' \in [Outs -> AnyOut]
  BY <1>4, <1>11 DEF TypesOk
<1>15. ASSUME NEW p \in Outs PROVE Settled(out[p], out'[p])
  <2>1. CASE p = o
    BY <1>4, <1>13, <2>1 DEF s, TypesOk
  <2>2. CASE p # o
    <3>1. out'[p] = out[p] /\ out[p] \in AnyOut
      BY <1>4, <2>2 DEF TypesOk
    <3> QED
      BY <3>1, SettledAlone
  <2> QED
    BY <2>1, <2>2
<1> QED
  BY <1>3, <1>14, <1>15 DEF Quiet, TypesOk

\* Each step is quiet or publishes one message.
LEMMA StepIs ==
    ASSUME TypesOk, KeepsLast, SharedAreCached, [Next]_vars
    PROVE  Quiet \/ \E m : Stepped(m)
<1>1. CASE UNCHANGED vars
  <2>1. UNCHANGED <<published, cacheVars, out>> /\ republished' \in 0 .. Len(published)
    BY <1>1 DEF vars, TypesOk
  <2> QED
    BY <2>1, UnchangedIsQuiet
<1>2. CASE \E o \in Outs : Join(o)
  BY <1>2, JoinIsQuiet
<1>3. CASE \E o \in FlvOuts : Write(o)
  BY <1>3, WriteIsQuiet
<1>4. CASE Republish
  <2>1. UNCHANGED <<published, cacheVars, out>> /\ republished' \in 0 .. Len(published)
    BY <1>4 DEF Republish, TypesOk
  <2> QED
    BY <2>1, UnchangedIsQuiet
<1>5. CASE on_rtmp_meta_data
  BY <1>5, MetaDataStep
<1>6. CASE \E kind \in Kinds : on_rtmp_av_data(kind)
  BY <1>6, AvDataStep
<1> QED
  BY <1>1, <1>2, <1>3, <1>4, <1>5, <1>6 DEF Next

-----------------------------------------------------------------------------
(* What a step does to the types and to the caches *)

\* One more message was published.
Longer(p, q, m) ==
    /\ p \in Seq(AnyMessage) /\ q \in Seq(AnyMessage)
    /\ Len(p) \in Nat /\ Len(q) = Len(p) + 1 /\ q[Len(p) + 1] = m
    /\ \A i \in 1 .. Len(p) : q[i] = p[i]
    /\ m \in AnyMessage /\ m.id = Len(p) + 1

LEMMA SteppedIsLonger ==
    ASSUME TypesOk, NEW m, Stepped(m) PROVE Longer(published, published', m)
<1>1. /\ published \in Seq(AnyMessage) /\ m \in AnyMessage /\ m.id = Len(published) + 1
      /\ published' = Append(published, m)
  BY DEF TypesOk, Stepped
<1>2. /\ published' \in Seq(AnyMessage) /\ Len(published) \in Nat
      /\ Len(published') = Len(published) + 1
      /\ published'[Len(published) + 1] = m
      /\ \A i \in 1 .. Len(published) : published'[i] = published[i]
  BY <1>1
<1> QED
  BY <1>1, <1>2 DEF Longer

LEMMA LongerIs ==
    ASSUME NEW p, NEW q, NEW m, Longer(p, q, m)
    PROVE  /\ Len(p) \in Nat /\ Len(q) = Len(p) + 1 /\ m.id \in 1 .. Len(q) /\ q[m.id] = m
           /\ \A i \in 1 .. Len(p) : i \in 1 .. Len(q) /\ q[i] = p[i] /\ i # m.id /\ i < m.id
           /\ \A i \in 1 .. Len(q) : i \in 1 .. Len(p) \/ i = m.id
<1>1. /\ Len(p) \in Nat /\ Len(q) = Len(p) + 1 /\ m.id = Len(p) + 1
      /\ q[Len(p) + 1] = m /\ \A i \in 1 .. Len(p) : q[i] = p[i]
  BY DEF Longer
<1> QED
  BY <1>1

LEMMA LongerBySome ==
    ASSUME NEW p, NEW q, NEW m, Longer(p, q, m) PROVE m # NoMessage
<1>1. m.id # 0
  BY DEF Longer
<1> QED
  BY <1>1 DEF NoMessage

LEMMA KeepsTheLast ==
    ASSUME NEW p, NEW q, NEW m, Longer(p, q, m), NEW x, NEW y, NEW kinds,
           KeepsIn(p, x, kinds), Renews(x, y, m, kinds)
    PROVE  KeepsIn(q, y, kinds)
<1>1. m # NoMessage
  BY LongerBySome
<1>2. \A i \in 1 .. Len(q) : i \in 1 .. Len(p) \/ i = Len(p) + 1
  BY DEF Longer
<1>3. CASE m.kind \in kinds /\ y = m
  <2>1. Len(p) + 1 \in 1 .. Len(q) /\ \A i \in 1 .. Len(q) : i <= Len(p) + 1
    BY DEF Longer
  <2> QED
    BY <1>1, <1>3, <2>1 DEF Longer, KeepsIn
<1>4. CASE m.kind \notin kinds /\ y = x
  <2>1. x # NoMessage => x.id \in 1 .. Len(q) /\ q[x.id] = x /\ x.kind \in kinds
    BY DEF Longer, KeepsIn
  <2>2. ASSUME NEW i \in 1 .. Len(q), q[i].kind \in kinds PROVE x # NoMessage /\ i <= x.id
    <3>1. i # Len(p) + 1
      BY <1>4, <2>2 DEF Longer
    <3>2. i \in 1 .. Len(p) /\ q[i] = p[i]
      BY <1>2, <3>1 DEF Longer
    <3> QED
      BY <2>2, <3>2 DEF KeepsIn
  <2> QED
    BY <1>4, <2>1, <2>2 DEF KeepsIn
<1> QED
  BY <1>3, <1>4 DEF Renews

LEMMA SteppedKeeps ==
    ASSUME TypesOk, KeepsLast, NEW m, Stepped(m) PROVE TypesOk' /\ KeepsLast'
<1>1. Longer(published, published', m)
  BY SteppedIsLonger
<1>2. CachesStep(m) /\ republished' = republished /\ out' \in [Outs -> AnyOut]
  BY DEF Stepped
<1>3. TypesOk'
  <2>1. ASSUME NEW i \in 1 .. Len(published') PROVE published'[i].id = i
    <3>1. i \in 1 .. Len(published) \/ i = Len(published) + 1
      BY <1>1 DEF Longer
    <3> QED
      BY <1>1, <3>1 DEF Longer, TypesOk
  <2>2. republished' \in 0 .. Len(published')
    BY <1>1, <1>2 DEF Longer, TypesOk
  <2> QED
    BY <1>1, <1>2, <2>1, <2>2 DEF Longer, TypesOk
<1>4. KeepsLast'
  BY <1>1, <1>2, KeepsTheLast, Zenon DEF KeepsLast, Keeps, CachesStep
<1> QED
  BY <1>3, <1>4

LEMMA QuietKeeps ==
    ASSUME TypesOk, KeepsLast, Quiet PROVE TypesOk' /\ KeepsLast'
<1>1. /\ published' = published /\ republished' \in 0 .. Len(published)
      /\ metadata' = metadata /\ avc_header' = avc_header /\ aac_header' = aac_header
      /\ prev_audio_header_' = prev_audio_header_ /\ prev_video_header_' = prev_video_header_
      /\ out' \in [Outs -> AnyOut]
  BY DEF Quiet
<1>2. TypesOk'
  BY <1>1 DEF TypesOk
<1>3. KeepsLast'
  BY <1>1 DEF KeepsLast, Keeps, KeepsIn
<1> QED
  BY <1>2, <1>3

-----------------------------------------------------------------------------
(* What sessions were sent *)

CacheKinds == {"metadata", "avc header", "aac header"}

\* g is an item of what was published.
ItemOf(g, p) ==
    /\ g.id \in 1 .. Len(p) /\ g.at \in 1 .. Len(p) /\ g.kind = p[g.id].kind
    /\ g.shared => g.cached
    /\ g.cached => g.kind \in CacheKinds

ItemsOk ==
    \A o \in Outs : \A i \in 1 .. Len(out[o].got) : ItemOf(out[o].got[i], published)

LEMMA SharedItems == ItemsOk => SharedAreCached
BY DEF ItemsOk, ItemOf, SharedAreCached

LEMMA AlikeItem ==
    ASSUME NEW p, NEW g, NEW h, ItemOf(g, p), Alike(g, h) PROVE ItemOf(h, p)
BY DEF ItemOf, Alike

LEMMA LongerItem ==
    ASSUME NEW p, NEW q, NEW m, Longer(p, q, m), NEW g, ItemOf(g, p) PROVE ItemOf(g, q)
<1>1. g.id \in 1 .. Len(q) /\ g.at \in 1 .. Len(q) /\ q[g.id] = p[g.id]
  BY DEF ItemOf, Longer
<1> QED
  BY <1>1 DEF ItemOf

\* What is new is of what was published up to now.
LEMMA NewItems ==
    ASSUME TypesOk, KeepsLast, NEW m, Stepped(m), NEW g, NEW rtmp \in BOOLEAN,
           FromCache(g, rtmp, m) \/ MetaItem(g, m) \/ LiveItem(g, m), g \in AnyItem
    PROVE  ItemOf(g, published')
<1>1. Longer(published, published', m)
  BY SteppedIsLonger
<1>2. CASE FromCache(g, rtmp, m)
  <2>1. PICK x \in {metadata, avc_header, aac_header} :
          x # NoMessage /\ g.kind = x.kind /\ g.id = x.id
    BY <1>2 DEF FromCache
  <2>2. x.id \in 1 .. Len(published) /\ published[x.id] = x /\ x.kind \in CacheKinds
    BY <2>1 DEF KeepsLast, Keeps, KeepsIn, CacheKinds, MetaKinds, AvcKinds, AacKinds
  <2>3. g.id \in 1 .. Len(published') /\ g.kind = published'[g.id].kind
    BY <1>1, <2>1, <2>2 DEF Longer
  <2>4. g.at \in 1 .. Len(published')
    BY <1>1, <1>2 DEF Longer, FromCache
  <2> QED
    BY <1>2, <2>1, <2>2, <2>3, <2>4 DEF ItemOf, FromCache
<1>3. CASE MetaItem(g, m) \/ LiveItem(g, m)
  <2>1. g.id = m.id /\ g.at = Len(published) + 1 /\ ~g.shared /\ ~g.cached
    BY <1>3 DEF MetaItem, LiveItem
  <2>2. g.kind = m.kind
    <3>1. CASE LiveItem(g, m)
      BY <3>1 DEF LiveItem
    <3>2. CASE MetaItem(g, m)
      BY <3>2 DEF MetaItem
    <3> QED
      BY <1>3, <3>1, <3>2
  <2>3. g.id = Len(published) + 1 /\ Len(published) + 1 \in 1 .. Len(published')
        /\ published'[Len(published) + 1] = m
    BY <1>1, <2>1 DEF Longer
  <2> QED
    BY <2>1, <2>2, <2>3 DEF ItemOf
<1> QED
  BY <1>2, <1>3

\* The parts of what a session has after a message.
LEMMA Parts ==
    ASSUME NEW s, NEW r, NEW rtmp, NEW m, Grown(s, r, rtmp, m), NEW i \in 1 .. Len(r.got)
    PROVE  \/ i \in 1 .. Len(s.got) /\ Alike(s.got[i], r.got[i])
           \/ /\ i \in Len(s.got) + 1 .. Len(r.got) /\ r.got[i] \in AnyItem
              /\ FromCache(r.got[i], rtmp, m) \/ MetaItem(r.got[i], m)
           \/ /\ i = Len(r.got) /\ i \in Len(s.got) + 1 .. Len(r.got) /\ r.got[i] \in AnyItem
              /\ IsLive(s, m) /\ LiveItem(r.got[i], m)
<1>1. Len(s.got) \in Nat /\ Len(r.got) \in Nat /\ r \in AnyOut
  BY DEF Grown, Follows
<1>2. r.got[i] \in AnyItem
  BY <1>1 DEF AnyOut
<1>3. CASE i \in 1 .. Len(s.got)
  BY <1>3 DEF Grown, Follows
<1>4. CASE i \notin 1 .. Len(s.got)
  <2>1. i \in Len(s.got) + 1 .. Len(r.got)
    BY <1>1, <1>4
  <2> QED
    BY <1>2, <2>1 DEF Grown, Added
<1> QED
  BY <1>3, <1>4

LEMMA SteppedItems ==
    ASSUME TypesOk, KeepsLast, ItemsOk, NEW m, Stepped(m) PROVE ItemsOk'
<1>1. Longer(published, published', m)
  BY SteppedIsLonger
<1>2. ASSUME NEW o \in Outs, NEW i \in 1 .. Len(out'[o].got)
      PROVE  ItemOf(out'[o].got[i], published')
  <2> DEFINE s == out[o]
             r == out'[o]
             g == r.got[i]
             rtmp == o \in RtmpOuts
  <2>1. \A j \in 1 .. Len(s.got) : ItemOf(s.got[j], published)
    BY DEF ItemsOk
  <2>2. OutStep(o, m)
    BY DEF Stepped
  <2>3. CASE ~s.joined /\ r = s
    BY <1>1, <2>1, <2>3, LongerItem
  <2>4. CASE Grown(s, r, rtmp, m)
    <3>1. CASE i \in 1 .. Len(s.got) /\ Alike(s.got[i], g)
      BY <1>1, <2>1, <3>1, LongerItem, AlikeItem
    <3>2. CASE g \in AnyItem /\ (FromCache(g, rtmp, m) \/ MetaItem(g, m) \/ LiveItem(g, m))
      <4>1. rtmp \in BOOLEAN
        OBVIOUS
      <4> HIDE DEF g, rtmp
      <4>2. ItemOf(g, published')
        BY <3>2, <4>1, NewItems
      <4> QED
        BY <4>2 DEF g
    <3> QED
      BY <2>4, <3>1, <3>2, Parts
  <2> QED
    BY <2>2, <2>3, <2>4 DEF OutStep
<1> QED
  BY <1>2 DEF ItemsOk

LEMMA QuietItems ==
    ASSUME ItemsOk, Quiet PROVE ItemsOk'
<1>1. ASSUME NEW o \in Outs, NEW i \in 1 .. Len(out'[o].got)
      PROVE  ItemOf(out'[o].got[i], published)
  <2>1. i \in 1 .. Len(out[o].got) /\ Alike(out[o].got[i], out'[o].got[i])
    BY DEF Quiet, Settled
  <2> QED
    BY <2>1, AlikeItem DEF ItemsOk
<1> QED
  BY <1>1 DEF ItemsOk, Quiet

-----------------------------------------------------------------------------
(* Nothing is missed *)

LiveOf(s) == {i \in 1 .. Len(s.got) : ~s.got[i].cached /\ s.got[i].kind # "metadata"}

Started(p, id) == \E k \in id + 1 .. Len(p) : IsStart(p[k])

FromIn(p, id) ==
    {n \in id + 1 .. Len(p) : p[n].kind # "metadata" /\ \E k \in id + 1 .. n : IsStart(p[k])}

\* One session: it waits as long as nothing starts, and got what it should.
Outset(s, p) ==
    /\ s.since \in 0 .. Len(p)
    /\ ~s.joined => Len(s.got) = 0 /\ s.sent = {}
    /\ s.joined => ("key frame" \in s.sent <=> Started(p, s.since))

Whole(s, p) ==
    /\ s.joined => \A n \in FromIn(p, s.since) : \E i \in LiveOf(s) : s.got[i].id = n
    /\ \A i \in LiveOf(s) : s.joined /\ s.got[i].id \in FromIn(p, s.since)
    /\ \A i, j \in LiveOf(s) : i < j => s.got[i].id < s.got[j].id

SessionsWhole == \A o \in Outs : Outset(out[o], published) /\ Whole(out[o], published)

\* The live messages of a session after a message.
LEMMA LiveGrows ==
    ASSUME NEW s, NEW r, NEW rtmp, NEW m, Grown(s, r, rtmp, m)
    PROVE  /\ LiveOf(s) \subseteq LiveOf(r)
           /\ \A i \in LiveOf(s) : r.got[i].id = s.got[i].id /\ r.got[i].kind = s.got[i].kind
                                   /\ r.got[i].ts = s.got[i].ts /\ i < Len(s.got) + 1
           /\ IsLive(s, m) => /\ Len(r.got) \in LiveOf(r) /\ Len(s.got) < Len(r.got)
                              /\ r.got[Len(r.got)].id = m.id
                              /\ r.got[Len(r.got)].kind = m.kind
           /\ \A i \in LiveOf(r) : i \in LiveOf(s) \/ (IsLive(s, m) /\ i = Len(r.got))
<1>1. /\ Len(s.got) \in Nat /\ Len(r.got) \in Nat /\ Len(s.got) <= Len(r.got)
      /\ \A i \in 1 .. Len(s.got) : Alike(s.got[i], r.got[i])
  BY DEF Grown, Follows
<1>2. ASSUME NEW i \in LiveOf(s)
      PROVE  /\ i \in LiveOf(r) /\ r.got[i].id = s.got[i].id /\ r.got[i].kind = s.got[i].kind
             /\ r.got[i].ts = s.got[i].ts /\ i < Len(s.got) + 1
  <2>1. /\ i \in 1 .. Len(s.got) /\ i \in 1 .. Len(r.got)
        /\ ~s.got[i].cached /\ s.got[i].kind # "metadata"
    BY <1>1 DEF LiveOf
  <2>2. Alike(s.got[i], r.got[i])
    BY <1>1, <2>1
  <2>3. /\ r.got[i].id = s.got[i].id /\ r.got[i].kind = s.got[i].kind
        /\ r.got[i].ts = s.got[i].ts /\ ~r.got[i].cached
    BY <2>1, <2>2 DEF Alike
  <2>4. i \in LiveOf(r)
    BY <2>1, <2>3 DEF LiveOf
  <2> QED
    BY <1>1, <2>1, <2>3, <2>4
<1>3. ASSUME IsLive(s, m)
      PROVE  /\ Len(r.got) \in LiveOf(r) /\ Len(s.got) < Len(r.got)
             /\ r.got[Len(r.got)].id = m.id /\ r.got[Len(r.got)].kind = m.kind
  <2>1. Len(s.got) < Len(r.got) /\ LiveItem(r.got[Len(r.got)], m)
    BY <1>3 DEF Grown, Added
  <2>2. /\ r.got[Len(r.got)].id = m.id /\ r.got[Len(r.got)].kind = m.kind
        /\ ~r.got[Len(r.got)].cached /\ m.kind # "metadata"
    BY <1>3, <2>1 DEF LiveItem, IsLive
  <2>3. Len(r.got) \in 1 .. Len(r.got)
    BY <1>1, <2>1
  <2>4. Len(r.got) \in LiveOf(r)
    BY <2>2, <2>3 DEF LiveOf
  <2> QED
    BY <2>1, <2>2, <2>4
<1>4. ASSUME NEW i \in LiveOf(r) PROVE i \in LiveOf(s) \/ (IsLive(s, m) /\ i = Len(r.got))
  <2>1. i \in 1 .. Len(r.got) /\ ~r.got[i].cached /\ r.got[i].kind # "metadata"
    BY DEF LiveOf
  <2>2. CASE i \in 1 .. Len(s.got) /\ Alike(s.got[i], r.got[i])
    <3>1. ~s.got[i].cached /\ s.got[i].kind # "metadata"
      BY <2>1, <2>2 DEF Alike
    <3> QED
      BY <2>2, <3>1 DEF LiveOf
  <2>3. CASE FromCache(r.got[i], rtmp, m) \/ MetaItem(r.got[i], m)
    BY <2>1, <2>3 DEF FromCache, MetaItem
  <2> QED
    BY <2>1, <2>2, <2>3, Parts
<1> QED
  BY <1>2, <1>3, <1>4

\* What one more message adds to what is to be got.
LEMMA FromGrows ==
    ASSUME NEW p, NEW q, NEW m, Longer(p, q, m), NEW id \in 0 .. Len(p)
    PROVE  /\ Started(q, id) <=> Started(p, id) \/ IsStart(m)
           /\ \A n \in FromIn(p, id) : n \in FromIn(q, id) /\ n < m.id
           /\ \A n \in FromIn(q, id) : n \in FromIn(p, id) \/ n = m.id
           /\ m.id \in FromIn(q, id) <=>
                m.kind # "metadata" /\ (Started(p, id) \/ IsStart(m))
<1>1. /\ Len(p) \in Nat /\ id \in Nat /\ id <= Len(p) /\ Len(q) = Len(p) + 1
      /\ m.id = Len(p) + 1 /\ q[m.id] = m /\ \A i \in 1 .. Len(p) : q[i] = p[i]
  BY DEF Longer
<1>2. \A k \in id + 1 .. Len(p) : k \in id + 1 .. Len(q) /\ k \in 1 .. Len(p) /\ q[k] = p[k]
  BY <1>1
<1>3. \A k \in id + 1 .. Len(q) : k \in id + 1 .. Len(p) \/ k = m.id
  BY <1>1
<1>4. m.id \in id + 1 .. Len(q) /\ m.id = Len(q)
  BY <1>1
<1>5. Started(q, id) <=> Started(p, id) \/ IsStart(m)
  <2>1. ASSUME NEW k \in id + 1 .. Len(p), IsStart(p[k]) PROVE Started(q, id)
    BY <1>2, <2>1 DEF Started
  <2>2. ASSUME IsStart(m) PROVE Started(q, id)
    BY <1>1, <1>4, <2>2 DEF Started
  <2>3. ASSUME NEW k \in id + 1 .. Len(q), IsStart(q[k]) PROVE Started(p, id) \/ IsStart(m)
    <3>1. CASE k \in id + 1 .. Len(p)
      BY <1>2, <2>3, <3>1 DEF Started
    <3>2. CASE k = m.id
      BY <1>1, <2>3, <3>2
    <3> QED
      BY <1>3, <3>1, <3>2
  <2> QED
    BY <2>1, <2>2, <2>3 DEF Started
<1>6. ASSUME NEW n \in FromIn(p, id) PROVE n \in FromIn(q, id) /\ n < m.id
  <2>1. PICK k \in id + 1 .. n : IsStart(p[k])
    BY DEF FromIn
  <2>2. n \in id + 1 .. Len(p) /\ p[n].kind # "metadata"
    BY DEF FromIn
  <2>3. k \in id + 1 .. Len(p)
    BY <1>1, <2>2
  <2>4. q[n].kind # "metadata" /\ IsStart(q[k]) /\ n \in id + 1 .. Len(q)
    BY <1>2, <2>1, <2>2, <2>3
  <2> QED
    BY <1>1, <2>2, <2>4 DEF FromIn
<1>7. ASSUME NEW n \in FromIn(q, id), n # m.id PROVE n \in FromIn(p, id)
  <2>1. PICK k \in id + 1 .. n : IsStart(q[k])
    BY DEF FromIn
  <2>2. n \in id + 1 .. Len(q) /\ q[n].kind # "metadata"
    BY DEF FromIn
  <2>3. n \in id + 1 .. Len(p)
    BY <1>3, <1>7, <2>2
  <2>4. k \in id + 1 .. Len(p)
    BY <1>1, <2>3
  <2>5. p[n].kind # "metadata" /\ IsStart(p[k])
    BY <1>2, <2>1, <2>2, <2>3, <2>4
  <2> QED
    BY <2>3, <2>5 DEF FromIn
<1>8. m.id \in FromIn(q, id) <=> m.kind # "metadata" /\ Started(q, id)
  BY <1>1, <1>4 DEF FromIn, Started
<1> QED
  BY <1>5, <1>6, <1>7, <1>8

LEMMA GrownWhole ==
    ASSUME NEW p, NEW q, NEW m, Longer(p, q, m), NEW s, NEW r, NEW rtmp,
           s.joined, Grown(s, r, rtmp, m), Outset(s, p), Whole(s, p)
    PROVE  Outset(r, q) /\ Whole(r, q)
<1> DEFINE live == IsLive(s, m)
           id == s.since
<1>1. /\ r.joined /\ r.since = id /\ id \in 0 .. Len(p) /\ id \in 0 .. Len(q)
      /\ Len(p) \in Nat /\ m.id = Len(p) + 1
  <2>1. Len(p) \in Nat /\ Len(q) = Len(p) + 1 /\ m.id = Len(p) + 1
    BY DEF Longer
  <2>2. id \in 0 .. Len(p)
    BY DEF Outset
  <2>3. r.joined /\ r.since = id
    BY DEF Grown, Follows
  <2> QED
    BY <2>1, <2>2, <2>3
<1>2. "key frame" \in s.sent <=> Started(p, id)
  BY DEF Outset
<1>3. "key frame" \in r.sent <=> "key frame" \in s.sent \/ live
  BY DEF Grown, Opens
<1>4. /\ Started(q, id) <=> Started(p, id) \/ IsStart(m)
      /\ \A n \in FromIn(p, id) : n \in FromIn(q, id) /\ n < m.id
      /\ \A n \in FromIn(q, id) : n \in FromIn(p, id) \/ n = m.id
      /\ m.id \in FromIn(q, id) <=> m.kind # "metadata" /\ (Started(p, id) \/ IsStart(m))
  BY <1>1, FromGrows
<1>5. live <=> m.kind # "metadata" /\ (Started(p, id) \/ IsStart(m))
  BY <1>2 DEF IsLive
<1>6. IsStart(m) => m.kind # "metadata"
  BY DEF IsStart
<1>7. Outset(r, q)
  BY <1>1, <1>2, <1>3, <1>4, <1>5, <1>6 DEF Outset
<1>8. /\ LiveOf(s) \subseteq LiveOf(r)
      /\ \A i \in LiveOf(s) : r.got[i].id = s.got[i].id /\ i < Len(s.got) + 1
      /\ live => /\ Len(r.got) \in LiveOf(r) /\ Len(s.got) < Len(r.got)
                 /\ r.got[Len(r.got)].id = m.id
      /\ \A i \in LiveOf(r) : i \in LiveOf(s) \/ (live /\ i = Len(r.got))
  BY LiveGrows
<1> HIDE DEF live, id
<1>9. /\ \A n \in FromIn(p, id) : \E i \in LiveOf(s) : s.got[i].id = n
      /\ \A i \in LiveOf(s) : s.got[i].id \in FromIn(p, id)
      /\ \A i, j \in LiveOf(s) : i < j => s.got[i].id < s.got[j].id
  BY DEF Whole, id
<1>10. ASSUME NEW n \in FromIn(q, id) PROVE \E i \in LiveOf(r) : r.got[i].id = n
  <2>1. CASE n \in FromIn(p, id)
    BY <1>8, <1>9, <2>1
  <2>2. CASE n = m.id
    BY <1>4, <1>5, <1>8, <2>2
  <2> QED
    BY <1>4, <2>1, <2>2
<1>11. ASSUME NEW i \in LiveOf(r) PROVE r.got[i].id \in FromIn(q, id)
  <2>1. CASE i \in LiveOf(s)
    BY <1>4, <1>8, <1>9, <2>1
  <2>2. CASE live /\ i = Len(r.got)
    BY <1>4, <1>5, <1>8, <2>2
  <2> QED
    BY <1>8, <2>1, <2>2
<1>12. ASSUME NEW i \in LiveOf(r), NEW j \in LiveOf(r), i < j
       PROVE  r.got[i].id < r.got[j].id
  <2>1. CASE i \in LiveOf(s) /\ j \in LiveOf(s)
    BY <1>8, <1>9, <1>12, <2>1
  <2>2. CASE i \in LiveOf(s) /\ live /\ j = Len(r.got)
    BY <1>4, <1>8, <1>9, <2>2
  <2>3. CASE live /\ i = Len(r.got)
    <3>1. Len(r.got) \in Nat /\ Len(s.got) \in Nat
      BY DEF Grown, Follows
    <3>2. j \in LiveOf(s)
      BY <1>8, <1>12, <2>3, <3>1
    <3>3. j \in Int
      BY <3>2 DEF LiveOf
    <3> QED
      BY <1>8, <1>12, <2>3, <3>1, <3>2, <3>3
  <2> QED
    BY <1>8, <2>1, <2>2, <2>3
<1>13. Whole(r, q)
  BY <1>1, <1>10, <1>11, <1>12 DEF Whole
<1> QED
  BY <1>7, <1>13

\* A session that has not joined waits for more than there is.
LEMMA AloneWhole ==
    ASSUME NEW p, NEW q, NEW m, Longer(p, q, m), NEW s, ~s.joined, Outset(s, p), Whole(s, p)
    PROVE  Outset(s, q) /\ Whole(s, q)
<1>1. s.since \in 0 .. Len(q)
  <2>1. Len(p) \in Nat /\ Len(q) = Len(p) + 1
    BY DEF Longer
  <2>2. s.since \in 0 .. Len(p)
    BY DEF Outset
  <2> QED
    BY <2>1, <2>2
<1>2. LiveOf(s) = {}
  BY DEF Whole
<1> QED
  BY <1>1, <1>2 DEF Outset, Whole

LEMMA SteppedWhole ==
    ASSUME TypesOk, SessionsWhole, NEW m, Stepped(m) PROVE SessionsWhole'
<1>1. Longer(published, published', m)
  BY SteppedIsLonger
<1>2. ASSUME NEW o \in Outs
      PROVE  Outset(out'[o], published') /\ Whole(out'[o], published')
  <2>1. Outset(out[o], published) /\ Whole(out[o], published)
    BY DEF SessionsWhole
  <2>2. OutStep(o, m)
    BY DEF Stepped
  <2>3. CASE out[o].joined /\ Grown(out[o], out'[o], o \in RtmpOuts, m)
    BY <1>1, <2>1, <2>3, GrownWhole
  <2>4. CASE ~out[o].joined /\ out'[o] = out[o]
    <3> DEFINE s == out[o]
    <3>1. Outset(s, published) /\ Whole(s, published) /\ ~s.joined
      BY <2>1, <2>4
    <3> HIDE DEF s
    <3>2. Outset(s, published') /\ Whole(s, published')
      BY <1>1, <3>1, AloneWhole
    <3> QED
      BY <2>4, <3>2 DEF s
  <2> QED
    BY <2>2, <2>3, <2>4 DEF OutStep
<1> QED
  BY <1>2 DEF SessionsWhole

\* The live messages of a session that only joins or writes.
LEMMA LiveSettled ==
    ASSUME NEW s \in AnyOut, NEW r, Settled(s, r)
    PROVE  /\ LiveOf(r) = LiveOf(s)
           /\ \A i \in LiveOf(s) : r.got[i].id = s.got[i].id /\ r.got[i].kind = s.got[i].kind
                                   /\ r.got[i].ts = s.got[i].ts
<1>1. Len(r.got) = Len(s.got)
  BY DEF Settled
<1>2. ASSUME NEW i \in 1 .. Len(s.got)
      PROVE  /\ r.got[i].id = s.got[i].id /\ r.got[i].kind = s.got[i].kind
             /\ r.got[i].ts = s.got[i].ts /\ r.got[i].cached = s.got[i].cached
  BY DEF Settled, Alike
<1> QED
  BY <1>1, <1>2 DEF LiveOf

LEMMA SettledWhole ==
    ASSUME TypesOk, NEW s \in AnyOut, NEW r, Settled(s, r),
           Outset(s, published), Whole(s, published)
    PROVE  Outset(r, published) /\ Whole(r, published)
<1>1. /\ LiveOf(r) = LiveOf(s)
      /\ \A i \in LiveOf(s) : r.got[i].id = s.got[i].id
      /\ Len(r.got) = Len(s.got) /\ r.sent = s.sent
  BY LiveSettled DEF Settled
<1>2. CASE r.joined = s.joined /\ r.since = s.since
  BY <1>1, <1>2 DEF Outset, Whole
<1>3. CASE ~s.joined /\ r.joined /\ r.since = Len(published)
  <2>1. Len(published) \in Nat
    BY DEF TypesOk
  <2>2. ASSUME NEW n \in Len(published) + 1 .. Len(published) PROVE FALSE
    BY <2>1
  <2>3. ~Started(published, r.since) /\ FromIn(published, r.since) = {}
    BY <1>3, <2>2 DEF Started, FromIn
  <2>4. "key frame" \notin r.sent /\ LiveOf(s) = {}
    <3>1. s.sent = {}
      BY <1>3 DEF Outset
    <3>2. LiveOf(s) = {}
      BY <1>3 DEF Whole
    <3> QED
      BY <1>1, <3>1, <3>2
  <2>5. Outset(r, published)
    <3>1. r.since \in 0 .. Len(published)
      BY <1>3, <2>1
    <3>2. ~Started(published, r.since) /\ "key frame" \notin r.sent /\ r.joined
      BY <1>3, <2>3, <2>4
    <3> QED
      BY <3>1, <3>2 DEF Outset
  <2>6. Whole(r, published)
    BY <1>1, <1>3, <2>3, <2>4 DEF Whole
  <2> QED
    BY <2>5, <2>6
<1> QED
  BY <1>2, <1>3 DEF Settled

LEMMA QuietWhole ==
    ASSUME TypesOk, SessionsWhole, Quiet PROVE SessionsWhole'
<1>1. ASSUME NEW o \in Outs
      PROVE  Outset(out'[o], published) /\ Whole(out'[o], published)
  <2>1. out[o] \in AnyOut /\ Settled(out[o], out'[o])
    BY DEF TypesOk, Quiet
  <2>2. Outset(out[o], published) /\ Whole(out[o], published)
    BY DEF SessionsWhole
  <2> QED
    BY <2>1, <2>2, SettledWhole
<1> QED
  BY <1>1 DEF SessionsWhole, Quiet

LEMMA WholeMissesNothing == SessionsWhole => NothingMissed
<1> SUFFICES ASSUME SessionsWhole, NEW o \in Outs
    PROVE LET got == out[o].got IN
        /\ {got[i].id : i \in Live(o)} = IF out[o].joined THEN PublishedFrom(out[o].since) ELSE {}
        /\ \A i, j \in Live(o) : i < j => got[i].id < got[j].id
  BY DEF NothingMissed
<1> DEFINE s == out[o]
<1>1. Whole(s, published)
  BY DEF SessionsWhole
<1>2. Live(o) = LiveOf(s) /\ PublishedFrom(s.since) = FromIn(published, s.since)
  BY DEF Live, LiveOf, PublishedFrom, FromIn
<1> HIDE DEF s
<1>3. \A i, j \in LiveOf(s) : i < j => s.got[i].id < s.got[j].id
  BY <1>1 DEF Whole
<1>4. CASE s.joined
  <2>1. {s.got[i].id : i \in LiveOf(s)} = FromIn(published, s.since)
    BY <1>1, <1>4 DEF Whole
  <2> QED
    BY <1>2, <1>3, <1>4, <2>1 DEF s
<1>5. CASE ~s.joined
  <2>1. LiveOf(s) = {}
    BY <1>1, <1>5 DEF Whole
  <2>2. {s.got[i].id : i \in LiveOf(s)} = {}
    BY <2>1
  <2> QED
    BY <1>2, <1>3, <1>5, <2>2 DEF s
<1> QED
  BY <1>4, <1>5

-----------------------------------------------------------------------------
(* Decoder headers come first *)

Has(s, x) == \E j \in 1 .. Len(s.got) : s.got[j].id = x.id

\* A session that was sent media of a kind has the header that is kept for it.
HasHeader(s, flag, x) == flag \in s.sent /\ x # NoMessage => Has(s, x)

LastBefore(p, kinds, id) ==
    {i \in 1 .. Len(p) : /\ p[i].kind \in kinds /\ i < id
                         /\ \A j \in 1 .. Len(p) : p[j].kind \in kinds /\ j < id => j <= i}

HeaderFirst(s, p, kinds, headers) ==
    \A i \in 1 .. Len(s.got) : s.got[i].kind \in kinds =>
        \A id \in LastBefore(p, headers, s.got[i].id) : \E j \in 1 .. i - 1 : s.got[j].id = id

VideoFrames == {"key frame", "inter frame"}
AudioFrames == {"audio frame"}

\* The kinds of frames that need headers, and their media.
Needs(flag, kinds, headers) ==
    \/ flag = "video" /\ kinds = VideoFrames /\ headers = AvcKinds
    \/ flag = "audio" /\ kinds = AudioFrames /\ headers = AacKinds

LEMMA LastBeforeGrows ==
    ASSUME NEW p, NEW q, NEW m, Longer(p, q, m), NEW kinds, NEW id \in 1 .. Len(p)
    PROVE  LastBefore(q, kinds, id) \subseteq LastBefore(p, kinds, id)
<1>1. /\ Len(p) \in Nat /\ Len(q) = Len(p) + 1
      /\ \A i \in 1 .. Len(p) : q[i] = p[i]
  BY DEF Longer
<1>2. ASSUME NEW i \in LastBefore(q, kinds, id) PROVE i \in LastBefore(p, kinds, id)
  <2>1. /\ i \in 1 .. Len(q) /\ q[i].kind \in kinds /\ i < id
        /\ \A j \in 1 .. Len(q) : q[j].kind \in kinds /\ j < id => j <= i
    BY DEF LastBefore
  <2>2. i \in 1 .. Len(p) /\ p[i].kind \in kinds
    BY <1>1, <2>1
  <2>3. \A j \in 1 .. Len(p) : p[j].kind \in kinds /\ j < id => j <= i
    BY <1>1, <2>1
  <2> QED
    BY <2>1, <2>2, <2>3 DEF LastBefore
<1> QED
  BY <1>2

LEMMA LastIsKept ==
    ASSUME NEW p, NEW q, NEW m, Longer(p, q, m), NEW x, NEW kinds, KeepsIn(p, x, kinds),
           NEW id \in LastBefore(q, kinds, m.id)
    PROVE  x # NoMessage /\ id = x.id
<1>1. /\ Len(p) \in Nat /\ Len(q) = Len(p) + 1 /\ m.id = Len(p) + 1
      /\ \A i \in 1 .. Len(p) : q[i] = p[i]
  BY DEF Longer
<1>2. /\ id \in 1 .. Len(q) /\ q[id].kind \in kinds /\ id < m.id
      /\ \A j \in 1 .. Len(q) : q[j].kind \in kinds /\ j < m.id => j <= id
  BY DEF LastBefore
<1>3. id \in 1 .. Len(p) /\ p[id].kind \in kinds
  BY <1>1, <1>2
<1>4. x # NoMessage /\ id <= x.id
  BY <1>3 DEF KeepsIn
<1>5. x.id \in 1 .. Len(p) /\ p[x.id] = x /\ x.kind \in kinds
  BY <1>4 DEF KeepsIn
<1>6. x.id \in 1 .. Len(q) /\ q[x.id].kind \in kinds /\ x.id < m.id
  BY <1>1, <1>5
<1> QED
  BY <1>2, <1>3, <1>4, <1>5, <1>6

LEMMA HeaderFirstGrows ==
    ASSUME NEW p, NEW q, NEW m, Longer(p, q, m), NEW s, NEW r, NEW rtmp, Grown(s, r, rtmp, m),
           NEW x, NEW flag, NEW kinds, NEW headers, Needs(flag, kinds, headers),
           KeepsIn(p, x, headers), GrewFlag(s, r, m, flag, x), HasHeader(s, flag, x),
           \A i \in 1 .. Len(s.got) : ItemOf(s.got[i], p),
           \A i \in 1 .. Len(r.got) : ItemOf(r.got[i], q),
           HeaderFirst(s, p, kinds, headers)
    PROVE  HeaderFirst(r, q, kinds, headers)
<1>1. kinds \cap CacheKinds = {} /\ "metadata" \notin kinds
  BY DEF Needs, CacheKinds, VideoFrames, AudioFrames
<1>2. /\ Len(s.got) \in Nat /\ Len(r.got) \in Nat /\ Len(s.got) <= Len(r.got)
      /\ \A j \in 1 .. Len(s.got) : r.got[j].id = s.got[j].id
  BY DEF Grown, Follows, Alike
<1>4. \A id \in LastBefore(q, headers, m.id) : x # NoMessage /\ id = x.id
  BY LastIsKept
<1>3. ASSUME NEW i \in 1 .. Len(r.got), r.got[i].kind \in kinds,
             NEW id \in LastBefore(q, headers, r.got[i].id)
      PROVE  \E j \in 1 .. i - 1 : r.got[j].id = id
  <2>1. CASE i \in 1 .. Len(s.got) /\ Alike(s.got[i], r.got[i])
    <3>1. s.got[i].kind \in kinds /\ s.got[i].id = r.got[i].id
      BY <1>3, <2>1 DEF Alike
    <3>2. s.got[i].id \in 1 .. Len(p)
      BY <2>1 DEF ItemOf
    <3>3. id \in LastBefore(p, headers, s.got[i].id)
      BY <3>1, <3>2, LastBeforeGrows
    <3>4. PICK j \in 1 .. i - 1 : s.got[j].id = id
      BY <2>1, <3>1, <3>3 DEF HeaderFirst
    <3>5. j \in 1 .. Len(s.got)
      BY <1>2, <2>1
    <3> QED
      BY <1>2, <3>4, <3>5
  <2>2. CASE FromCache(r.got[i], rtmp, m)
    <3>1. r.got[i].cached /\ ItemOf(r.got[i], q)
      BY <2>2 DEF FromCache
    <3> QED
      BY <1>1, <1>3, <3>1 DEF ItemOf
  <2>3. CASE MetaItem(r.got[i], m)
    BY <1>1, <1>3, <2>3 DEF MetaItem
  <2>4. CASE i = Len(r.got) /\ IsLive(s, m) /\ LiveItem(r.got[i], m)
    <3>1. r.got[i].id = m.id /\ r.got[i].kind = m.kind /\ ~r.got[i].cached
      BY <2>4 DEF LiveItem
    <3>2. x # NoMessage /\ id = x.id
      BY <1>3, <1>4, <3>1
    <3>3. m.kind # "metadata" /\ Len(s.got) < Len(r.got)
      BY <2>4 DEF IsLive, Grown, Added
    <3>4. CASE flag \in s.sent
      <4>1. PICK j \in 1 .. Len(s.got) : s.got[j].id = id
        BY <3>2, <3>4 DEF HasHeader, Has
      <4>2. j \in 1 .. i - 1
        BY <1>2, <2>4, <3>3
      <4> QED
        BY <1>2, <4>1, <4>2
    <3>5. CASE flag \notin s.sent
      <4>1. PICK j \in Len(s.got) + 1 .. Len(r.got) : r.got[j].cached /\ r.got[j].id = id
        BY <3>2, <3>3, <3>5 DEF GrewFlag
      <4>2. j # i
        BY <3>1, <4>1
      <4>3. j \in 1 .. i - 1
        BY <1>2, <2>4, <4>2
      <4> QED
        BY <4>1, <4>3
    <3> QED
      BY <3>4, <3>5
  <2> QED
    BY <2>1, <2>2, <2>3, <2>4, Parts
<1> QED
  BY <1>3 DEF HeaderFirst

\* A header stays or is replaced by one that the session gets too.
LEMMA HasHeaderGrows ==
    ASSUME NEW s, NEW r, NEW rtmp, NEW m, Grown(s, r, rtmp, m), NEW x, NEW y, NEW flag, NEW headers,
           Renews(x, y, m, headers), GrewFlag(s, r, m, flag, x), HasHeader(s, flag, x),
           m.kind \in headers => IsLive(s, m) \/ flag \notin r.sent
    PROVE  HasHeader(r, flag, y)
<1>1. /\ Len(s.got) \in Nat /\ Len(r.got) \in Nat /\ Len(s.got) <= Len(r.got)
      /\ \A j \in 1 .. Len(s.got) : r.got[j].id = s.got[j].id
  BY DEF Grown, Follows, Alike
<1>2. CASE m.kind \in headers /\ y = m
  <2>1. CASE IsLive(s, m)
    <3>1. /\ Len(s.got) < Len(r.got) /\ r.got[Len(r.got)].id = m.id
      BY <2>1 DEF Grown, Added, LiveItem
    <3>2. Len(r.got) \in 1 .. Len(r.got)
      BY <1>1, <3>1
    <3> QED
      BY <1>2, <3>1, <3>2 DEF HasHeader, Has
  <2>2. CASE flag \notin r.sent
    BY <2>2 DEF HasHeader
  <2> QED
    BY <1>2, <2>1, <2>2
<1>3. CASE m.kind \notin headers /\ y = x
  <2> SUFFICES ASSUME flag \in r.sent, x # NoMessage PROVE Has(r, x)
    BY <1>3 DEF HasHeader
  <2>1. CASE flag \in s.sent
    <3>1. PICK j \in 1 .. Len(s.got) : s.got[j].id = x.id
      BY <2>1 DEF HasHeader, Has
    <3>2. j \in 1 .. Len(r.got)
      BY <1>1
    <3> QED
      BY <1>1, <3>1, <3>2 DEF Has
  <2>2. CASE flag \notin s.sent
    <3>1. m.kind # "metadata"
      BY <2>2 DEF GrewFlag, IsLive
    <3>2. PICK j \in Len(s.got) + 1 .. Len(r.got) : r.got[j].id = x.id
      BY <2>2, <3>1 DEF GrewFlag
    <3>3. j \in 1 .. Len(r.got)
      BY <1>1
    <3> QED
      BY <3>2, <3>3 DEF Has
  <2> QED
    BY <2>1, <2>2
<1> QED
  BY <1>2, <1>3 DEF Renews

\* The publisher sends an AAC header at most once.
OnceIn(p) ==
    \A i, j \in 1 .. Len(p) : p[i].kind \in AacKinds /\ p[j].kind \in AacKinds => i = j

VideoReady(s, p, x) ==
    HasHeader(s, "video", x) /\ HeaderFirst(s, p, VideoFrames, AvcKinds)

AudioReady(s, p, x) ==
    OnceIn(p) => HasHeader(s, "audio", x) /\ HeaderFirst(s, p, AudioFrames, AacKinds)

\* Audio without a header went out only after a start.
AudioWaits(s, x) == "audio" \in s.sent /\ x = NoMessage => "key frame" \in s.sent

SessionsReady ==
    \A o \in Outs :
        /\ VideoReady(out[o], published, avc_header)
        /\ AudioReady(out[o], published, aac_header)
        /\ AudioWaits(out[o], aac_header)

LEMMA OnceSoFar ==
    ASSUME NEW p, NEW q, NEW m, Longer(p, q, m), NEW x, KeepsIn(p, x, AacKinds), OnceIn(q)
    PROVE  OnceIn(p) /\ (m.kind \in AacKinds => x = NoMessage)
<1>1. /\ m.id \in 1 .. Len(q) /\ q[m.id] = m
      /\ \A i \in 1 .. Len(p) : i \in 1 .. Len(q) /\ q[i] = p[i] /\ i # m.id
  BY LongerIs
<1>2. OnceIn(p)
  BY <1>1 DEF OnceIn
<1>3. ASSUME m.kind \in AacKinds, x # NoMessage PROVE FALSE
  <2>1. x.id \in 1 .. Len(p) /\ p[x.id].kind \in AacKinds
    BY <1>3 DEF KeepsIn
  <2> QED
    BY <1>1, <1>3, <2>1 DEF OnceIn
<1> QED
  BY <1>2, <1>3

LEMMA GrownReady ==
    ASSUME NEW p, NEW q, NEW m, Longer(p, q, m), NEW s, NEW r, NEW rtmp, Grown(s, r, rtmp, m),
           NEW vx, NEW vy, KeepsIn(p, vx, AvcKinds), Renews(vx, vy, m, AvcKinds),
           NEW ax, NEW ay, KeepsIn(p, ax, AacKinds), Renews(ax, ay, m, AacKinds),
           GrewFlag(s, r, m, "video", vx), GrewFlag(s, r, m, "audio", ax),
           \A i \in 1 .. Len(s.got) : ItemOf(s.got[i], p),
           \A i \in 1 .. Len(r.got) : ItemOf(r.got[i], q),
           VideoReady(s, p, vx), AudioReady(s, p, ax), AudioWaits(s, ax)
    PROVE  VideoReady(r, q, vy) /\ AudioReady(r, q, ay) /\ AudioWaits(r, ay)
<1>1. VideoReady(r, q, vy)
  <2>1. Needs("video", VideoFrames, AvcKinds)
    BY DEF Needs
  <2>2. HasHeader(s, "video", vx) /\ HeaderFirst(s, p, VideoFrames, AvcKinds)
    BY DEF VideoReady
  <2>3. HeaderFirst(r, q, VideoFrames, AvcKinds)
    BY <2>1, <2>2, HeaderFirstGrows
  <2>4. m.kind \in AvcKinds => IsLive(s, m)
    BY DEF AvcKinds, IsLive, IsStart
  <2>5. HasHeader(r, "video", vy)
    BY <2>2, <2>4, HasHeaderGrows
  <2> QED
    BY <2>3, <2>5 DEF VideoReady
<1>2. AudioReady(r, q, ay)
  <2> SUFFICES ASSUME OnceIn(q)
      PROVE HasHeader(r, "audio", ay) /\ HeaderFirst(r, q, AudioFrames, AacKinds)
    BY DEF AudioReady
  <2>2. OnceIn(p) /\ (m.kind \in AacKinds => ax = NoMessage)
    BY OnceSoFar
  <2>3. HasHeader(s, "audio", ax) /\ HeaderFirst(s, p, AudioFrames, AacKinds)
    BY <2>2 DEF AudioReady
  <2>4. Needs("audio", AudioFrames, AacKinds)
    BY DEF Needs
  <2>5. HeaderFirst(r, q, AudioFrames, AacKinds)
    BY <2>3, <2>4, HeaderFirstGrows
  <2>6. ASSUME m.kind \in AacKinds, ~IsLive(s, m) PROVE "audio" \notin r.sent
    <3>1. ax = NoMessage
      BY <2>2, <2>6
    <3>2. m.kind # "metadata"
      BY <2>6 DEF AacKinds
    <3>3. "key frame" \notin s.sent
      BY <2>6, <3>2 DEF IsLive
    <3>4. "audio" \notin s.sent
      BY <3>1, <3>3 DEF AudioWaits
    <3> QED
      BY <2>6, <3>1, <3>4 DEF GrewFlag
  <2>7. HasHeader(r, "audio", ay)
    BY <2>3, <2>6, HasHeaderGrows
  <2> QED
    BY <2>5, <2>7
<1>3. AudioWaits(r, ay)
  <2> SUFFICES ASSUME "audio" \in r.sent, ay = NoMessage PROVE "key frame" \in r.sent
    BY DEF AudioWaits
  <2>1. m # NoMessage
    BY LongerBySome, Zenon
  <2>2. ax = NoMessage
    BY <2>1 DEF Renews
  <2>3. "audio" \in s.sent \/ IsLive(s, m)
    BY <2>2 DEF GrewFlag
  <2>4. "key frame" \in s.sent \/ IsLive(s, m)
    BY <2>2, <2>3 DEF AudioWaits
  <2> QED
    BY <2>4 DEF Grown, Opens
<1> QED
  BY <1>1, <1>2, <1>3

\* A session that was sent nothing needs nothing.
LEMMA AloneReady ==
    ASSUME NEW s, Len(s.got) = 0, s.sent = {}, NEW p, NEW vx, NEW ax
    PROVE  VideoReady(s, p, vx) /\ AudioReady(s, p, ax) /\ AudioWaits(s, ax)
BY DEF VideoReady, AudioReady, AudioWaits, HasHeader, HeaderFirst

LEMMA SteppedReady ==
    ASSUME TypesOk, KeepsLast, ItemsOk, SessionsWhole, SessionsReady, NEW m, Stepped(m)
    PROVE  SessionsReady'
<1>1. Longer(published, published', m) /\ ItemsOk'
  BY SteppedIsLonger, SteppedItems
<1>2. ASSUME NEW o \in Outs
      PROVE  /\ VideoReady(out'[o], published', avc_header')
             /\ AudioReady(out'[o], published', aac_header')
             /\ AudioWaits(out'[o], aac_header')
  <2>1. OutStep(o, m)
    BY DEF Stepped
  <2>2. CASE Grown(out[o], out'[o], o \in RtmpOuts, m)
    <3>1. /\ KeepsIn(published, avc_header, AvcKinds)
          /\ Renews(avc_header, avc_header', m, AvcKinds)
          /\ KeepsIn(published, aac_header, AacKinds)
          /\ Renews(aac_header, aac_header', m, AacKinds)
      BY DEF KeepsLast, Keeps, Stepped, CachesStep
    <3>2. /\ GrewFlag(out[o], out'[o], m, "video", avc_header)
          /\ GrewFlag(out[o], out'[o], m, "audio", aac_header)
      BY <2>2 DEF Grown, GrewFlags
    <3>3. /\ \A i \in 1 .. Len(out[o].got) : ItemOf(out[o].got[i], published)
          /\ \A i \in 1 .. Len(out'[o].got) : ItemOf(out'[o].got[i], published')
      BY <1>1 DEF ItemsOk
    <3>4. /\ VideoReady(out[o], published, avc_header)
          /\ AudioReady(out[o], published, aac_header)
          /\ AudioWaits(out[o], aac_header)
      BY DEF SessionsReady
    <3> QED
      BY <1>1, <2>2, <3>1, <3>2, <3>3, <3>4, GrownReady
  <2>3. CASE ~out[o].joined /\ out'[o] = out[o]
    <3>1. Len(out'[o].got) = 0 /\ out'[o].sent = {}
      BY <2>3 DEF SessionsWhole, Outset
    <3> QED
      BY <3>1, AloneReady
  <2> QED
    BY <2>1, <2>2, <2>3 DEF OutStep
<1> QED
  BY <1>2 DEF SessionsReady

LEMMA SettledReady ==
    ASSUME NEW s, NEW r, Settled(s, r), NEW p, NEW vx, NEW ax,
           VideoReady(s, p, vx), AudioReady(s, p, ax), AudioWaits(s, ax)
    PROVE  VideoReady(r, p, vx) /\ AudioReady(r, p, ax) /\ AudioWaits(r, ax)
<1>1. /\ r.sent = s.sent /\ Len(r.got) = Len(s.got)
      /\ \A i \in 1 .. Len(s.got) : r.got[i].id = s.got[i].id /\ r.got[i].kind = s.got[i].kind
  BY DEF Settled, Alike
<1>2. ASSUME NEW flag, NEW x, HasHeader(s, flag, x) PROVE HasHeader(r, flag, x)
  BY <1>1, <1>2 DEF HasHeader, Has
<1>3. ASSUME NEW kinds, NEW headers, HeaderFirst(s, p, kinds, headers)
      PROVE  HeaderFirst(r, p, kinds, headers)
  <2>1. ASSUME NEW i \in 1 .. Len(s.got), r.got[i].kind \in kinds,
               NEW id \in LastBefore(p, headers, r.got[i].id)
        PROVE  \E j \in 1 .. i - 1 : r.got[j].id = id
    <3>1. PICK j \in 1 .. i - 1 : s.got[j].id = id
      BY <1>1, <1>3, <2>1 DEF HeaderFirst
    <3> QED
      BY <1>1, <3>1
  <2> QED
    BY <1>1, <2>1 DEF HeaderFirst
<1> QED
  BY <1>1, <1>2, <1>3 DEF VideoReady, AudioReady, AudioWaits

LEMMA QuietReady ==
    ASSUME SessionsReady, Quiet PROVE SessionsReady'
<1>1. ASSUME NEW o \in Outs
      PROVE  /\ VideoReady(out'[o], published, avc_header)
             /\ AudioReady(out'[o], published, aac_header)
             /\ AudioWaits(out'[o], aac_header)
  <2>1. Settled(out[o], out'[o])
    BY DEF Quiet
  <2>2. /\ VideoReady(out[o], published, avc_header)
        /\ AudioReady(out[o], published, aac_header)
        /\ AudioWaits(out[o], aac_header)
    BY DEF SessionsReady
  <2> QED
    BY <2>1, <2>2, SettledReady
<1> QED
  BY <1>1 DEF SessionsReady, Quiet

LEMMA ReadyHasHeaders == SessionsReady => HeaderBeforeFrames
<1> SUFFICES ASSUME SessionsReady, OneConfiguration, NEW o \in Outs,
                    NEW i \in 1 .. Len(out[o].got),
                    NEW id \in (IF out[o].got[i].kind \in {"key frame", "inter frame"}
                       THEN InForce("avc header", out[o].got[i].id)
                       ELSE IF out[o].got[i].kind = "audio frame"
                       THEN InForce("aac header", out[o].got[i].id) ELSE {})
    PROVE  \E j \in 1 .. i - 1 : out[o].got[j].id = id
  BY DEF HeaderBeforeFrames
<1>1. \A n : /\ InForce("avc header", n) = LastBefore(published, AvcKinds, n)
             /\ InForce("aac header", n) = LastBefore(published, AacKinds, n)
  BY DEF InForce, Times, LastBefore, AvcKinds, AacKinds
<1>2. OnceIn(published)
  BY DEF OneConfiguration, OnceIn, Times, AacKinds
<1>3. /\ HeaderFirst(out[o], published, VideoFrames, AvcKinds)
      /\ HeaderFirst(out[o], published, AudioFrames, AacKinds)
  BY <1>2 DEF SessionsReady, VideoReady, AudioReady
<1>4. CASE out[o].got[i].kind \in {"key frame", "inter frame"}
  <2>1. id \in LastBefore(published, AvcKinds, out[o].got[i].id)
    BY <1>1, <1>4
  <2> QED
    BY <1>3, <1>4, <2>1 DEF HeaderFirst, VideoFrames
<1>5. CASE out[o].got[i].kind \notin {"key frame", "inter frame"}
  <2>1. /\ out[o].got[i].kind = "audio frame"
        /\ id \in LastBefore(published, AacKinds, out[o].got[i].id)
    BY <1>1, <1>5
  <2> QED
    BY <1>3, <2>1 DEF HeaderFirst, AudioFrames
<1> QED
  BY <1>4, <1>5


-----------------------------------------------------------------------------
(* Time passes as for the publisher *)

LEMMA TimeStays == ASSUME NEW t \in Time PROVE t % TimeLimit = t
<1>1. TimeLimit \in Nat \ {0} /\ t \in 0 .. TimeLimit - 1 /\ 0 \in Int
  BY TimeIsTime DEF Time
<1>2. (TimeLimit * 0 + t) % TimeLimit = t
  BY <1>1, QuotientUnique
<1> QED
  BY <1>1, <1>2

LEMMA OffsetStays ==
    ASSUME NEW a \in Int, NEW b \in Int, NEW c \in Int
    PROVE  (((a + c) % TimeLimit) + b - a) % TimeLimit = (b + c) % TimeLimit
<1>1. TimeLimit \in Nat \ {0} /\ a + c \in Int /\ b - a \in Int
  BY TimeIsTime
<1>2. (((a + c) % TimeLimit) + (b - a)) % TimeLimit = ((a + c) + (b - a)) % TimeLimit
  BY <1>1, RemainderEarly
<1>3. (a + c) % TimeLimit \in Int
  BY <1>1
<1>4. (((a + c) % TimeLimit) + (b - a)) = ((a + c) % TimeLimit) + b - a
  BY <1>3
<1>5. (a + c) + (b - a) = b + c
  OBVIOUS
<1> QED
  BY <1>2, <1>4, <1>5

\* What a session was sent of one kind of media has the publisher's time but for
\* an offset; an RTMP session's clock has that of the message x before the next.
Offset(s, p, M, c) ==
    \A i \in LiveOf(s) : Media(s.got[i]) = M =>
        s.got[i].ts = (p[s.got[i].id].ts + c) % TimeLimit

Clocked(s, rtmp, M, x, c) ==
    /\ x # NoMessage /\ M \in s.sent /\ "key frame" \in s.sent
    /\ rtmp => s.clock[M] = (x.ts + c) % TimeLimit

HasLive(s, M) == \E i \in LiveOf(s) : Media(s.got[i]) = M

InTime(s, rtmp, p, M, x) ==
    \E c \in Int : /\ ~rtmp => c = 0
                   /\ Offset(s, p, M, c)
                   /\ HasLive(s, M) => Clocked(s, rtmp, M, x, c)

SessionsTimed ==
    \A o \in Outs :
        /\ InTime(out[o], o \in RtmpOuts, published, "video", prev_video_header_)
        /\ InTime(out[o], o \in RtmpOuts, published, "audio", prev_audio_header_)

KeepsClock(s, r, m, M) ==
    M \in s.sent /\ ~(IsLive(s, m) /\ Media(m) = M) => r.clock[M] = s.clock[M]

LEMMA SameMedia == \A a, b : a.kind = b.kind => Media(a) = Media(b)
BY DEF Media

\* A message of other media changes nothing for media M.
LEMMA OthersKeepTime ==
    ASSUME NEW p, NEW q, NEW m, Longer(p, q, m), NEW s, NEW r, NEW rtmp, Grown(s, r, rtmp, m),
           NEW M, NEW x, NEW y, ~(IsLive(s, m) /\ Media(m) = M),
           m.kind = "metadata" \/ Media(m) # M => y = x,
           KeepsClock(s, r, m, M),
           \A i \in 1 .. Len(s.got) : ItemOf(s.got[i], p),
           InTime(s, rtmp, p, M, x)
    PROVE  InTime(r, rtmp, q, M, y)
<1>1. PICK c \in Int : /\ ~rtmp => c = 0
                       /\ Offset(s, p, M, c) /\ (HasLive(s, M) => Clocked(s, rtmp, M, x, c))
  BY DEF InTime
<1>2. /\ \A i \in LiveOf(s) : r.got[i].id = s.got[i].id /\ r.got[i].kind = s.got[i].kind
                              /\ r.got[i].ts = s.got[i].ts
      /\ IsLive(s, m) => r.got[Len(r.got)].kind = m.kind
      /\ \A i \in LiveOf(r) : i \in LiveOf(s) \/ (IsLive(s, m) /\ i = Len(r.got))
  BY LiveGrows
<1>3. \A i \in LiveOf(r) : Media(r.got[i]) = M => i \in LiveOf(s) /\ Media(s.got[i]) = M
  BY <1>2, SameMedia
<1>4. \A i \in LiveOf(s) : q[s.got[i].id] = p[s.got[i].id]
  BY DEF LiveOf, ItemOf, Longer
<1>5. Offset(r, q, M, c)
  BY <1>1, <1>2, <1>3, <1>4 DEF Offset
<1>6. ASSUME HasLive(r, M) PROVE Clocked(r, rtmp, M, y, c)
  <2>1. Clocked(s, rtmp, M, x, c)
    BY <1>1, <1>3, <1>6 DEF HasLive
  <2>2. "key frame" \in s.sent /\ M \in s.sent
    BY <2>1 DEF Clocked
  <2>3. m.kind = "metadata" \/ Media(m) # M
    BY <2>2 DEF IsLive
  <2>4. r.clock[M] = s.clock[M] /\ M \in r.sent /\ "key frame" \in r.sent
    BY <2>2 DEF KeepsClock, Grown, Opens
  <2> QED
    BY <2>1, <2>3, <2>4 DEF Clocked
<1> QED
  BY <1>1, <1>5, <1>6 DEF InTime

\* A message of media M is as far from the one before it as the publisher's.
LEMMA OwnKeepTime ==
    ASSUME NEW p, NEW q, NEW m, Longer(p, q, m), NEW s, NEW r, NEW rtmp, Grown(s, r, rtmp, m),
           NEW x, IsLive(s, m), prev_header(m) = x, x \in Kept,
           \A i \in 1 .. Len(s.got) : ItemOf(s.got[i], p),
           InTime(s, rtmp, p, Media(m), x)
    PROVE  InTime(r, rtmp, q, Media(m), m)
<1> DEFINE M == Media(m)
           k == Len(r.got)
           g == r.got[k]
<1>1. PICK c \in Int : /\ ~rtmp => c = 0
                       /\ Offset(s, p, M, c) /\ (HasLive(s, M) => Clocked(s, rtmp, M, x, c))
  BY DEF InTime
<1>2. /\ \A i \in LiveOf(s) : r.got[i].id = s.got[i].id /\ r.got[i].kind = s.got[i].kind
                              /\ r.got[i].ts = s.got[i].ts
      /\ k \in LiveOf(r) /\ g.id = m.id
      /\ \A i \in LiveOf(r) : i \in LiveOf(s) \/ i = k
  BY LiveGrows
<1>3. q[m.id] = m /\ m.ts \in Time /\ m # NoMessage
  <2>1. q[m.id] = m /\ m \in AnyMessage
    BY DEF Longer
  <2>2. m # NoMessage
    BY LongerBySome, Zenon
  <2> QED
    BY <2>1, <2>2 DEF AnyMessage
<1>4. g.ts \in Time
  <2>1. r \in AnyOut /\ k \in 1 .. Len(r.got)
    BY <1>2 DEF Grown, Follows, LiveOf
  <2>2. g \in AnyItem
    BY <2>1 DEF AnyOut
  <2> HIDE DEF g
  <2> QED
    BY <2>2 DEF AnyItem
<1>5. \A i \in LiveOf(s) : q[s.got[i].id] = p[s.got[i].id]
  BY DEF LiveOf, ItemOf, Longer
<1>6. /\ ~rtmp => g.ts = m.ts
      /\ r.clock[M] = g.ts
      /\ rtmp /\ M \in s.sent /\ x # NoMessage =>
           g.ts = (s.clock[M] + m.ts - x.ts) % TimeLimit
  BY DEF Grown, Timed
<1>7. M \in r.sent /\ "key frame" \in r.sent
  BY DEF Grown, Opens
<1>8. \A i \in LiveOf(s) : Media(r.got[i]) = Media(s.got[i])
  BY <1>2, SameMedia
<1> HIDE DEF g, k, M
<1>9. ASSUME NEW d \in Int, ~rtmp => d = 0, g.ts = (m.ts + d) % TimeLimit,
             HasLive(s, M) => d = c
      PROVE  InTime(r, rtmp, q, M, m)
  <2>1. ASSUME NEW i \in LiveOf(r), Media(r.got[i]) = M
        PROVE  r.got[i].ts = (q[r.got[i].id].ts + d) % TimeLimit
    <3>1. CASE i = k
      BY <1>2, <1>3, <1>9, <3>1 DEF g
    <3>2. CASE i \in LiveOf(s)
      <4>1. Media(s.got[i]) = M /\ d = c
        BY <1>8, <1>9, <2>1, <3>2 DEF HasLive
      <4>2. s.got[i].ts = (p[s.got[i].id].ts + c) % TimeLimit
        BY <1>1, <3>2, <4>1 DEF Offset
      <4> QED
        BY <1>2, <1>5, <3>2, <4>1, <4>2
    <3> QED
      BY <1>2, <3>1, <3>2
  <2>2. Offset(r, q, M, d)
    BY <2>1 DEF Offset
  <2>3. Clocked(r, rtmp, M, m, d)
    BY <1>3, <1>6, <1>7, <1>9 DEF Clocked
  <2> QED
    BY <1>9, <2>2, <2>3 DEF InTime
<1>10. m.ts \in Int /\ g.ts \in Int
  BY <1>3, <1>4 DEF Time
<1>11. CASE ~rtmp
  <2>1. g.ts = (m.ts + 0) % TimeLimit
    BY <1>3, <1>6, <1>10, <1>11, TimeStays
  <2>2. 0 \in Int /\ c = 0
    BY <1>1, <1>11
  <2> QED
    BY <1>9, <2>1, <2>2 DEF M
<1>12. CASE rtmp /\ HasLive(s, M)
  <2>1. /\ x # NoMessage /\ M \in s.sent /\ s.clock[M] = (x.ts + c) % TimeLimit
    BY <1>1, <1>12 DEF Clocked
  <2>2. x.ts \in Int
    BY <2>1 DEF Kept, AnyMessage, Time
  <2>3. g.ts = (((x.ts + c) % TimeLimit) + m.ts - x.ts) % TimeLimit
    BY <1>6, <1>12, <2>1
  <2>4. g.ts = (m.ts + c) % TimeLimit
    BY <1>10, <2>2, <2>3, OffsetStays
  <2> QED
    BY <1>9, <1>12, <2>4 DEF M
<1>13. CASE rtmp /\ ~HasLive(s, M)
  <2>1. g.ts - m.ts \in Int /\ m.ts + (g.ts - m.ts) = g.ts
    BY <1>10
  <2>2. g.ts = (m.ts + (g.ts - m.ts)) % TimeLimit
    BY <1>4, <2>1, TimeStays
  <2> QED
    BY <1>9, <1>13, <2>1, <2>2 DEF M
<1> QED
  BY <1>11, <1>12, <1>13 DEF M

\* The prior message of media M, and the kinds that it renews.
Of(M, kinds) == (M = "video" /\ kinds = VideoKinds) \/ (M = "audio" /\ kinds = AudioKinds)

LEMMA KindsOfMedia ==
    ASSUME NEW M, NEW kinds, Of(M, kinds), NEW m \in AnyMessage
    PROVE  m.kind \in kinds <=> m.kind # "metadata" /\ Media(m) = M
<1>1. m.kind \in Kinds \cup {"metadata"}
  BY DEF AnyMessage
<1> QED
  BY <1>1 DEF Of, Media, Kinds, VideoKinds, AudioKinds

LEMMA GrownInTime ==
    ASSUME NEW p, NEW q, NEW m, Longer(p, q, m), NEW s, NEW r, NEW rtmp, Grown(s, r, rtmp, m),
           NEW M, NEW kinds, Of(M, kinds), NEW x, NEW y, Renews(x, y, m, kinds),
           Media(m) = M => prev_header(m) = x, x \in Kept, KeepsClock(s, r, m, M),
           \A i \in 1 .. Len(s.got) : ItemOf(s.got[i], p),
           InTime(s, rtmp, p, M, x)
    PROVE  InTime(r, rtmp, q, M, y)
<1>1. m.kind \in kinds <=> m.kind # "metadata" /\ Media(m) = M
  BY KindsOfMedia DEF Longer
<1>2. CASE IsLive(s, m) /\ Media(m) = M
  <2>1. y = m
    BY <1>1, <1>2 DEF IsLive, Renews
  <2> QED
    BY <1>2, <2>1, OwnKeepTime
<1>3. CASE ~(IsLive(s, m) /\ Media(m) = M)
  <2>1. m.kind = "metadata" \/ Media(m) # M => y = x
    BY <1>1 DEF Renews
  <2> QED
    BY <1>3, <2>1, OthersKeepTime
<1> QED
  BY <1>2, <1>3

LEMMA AloneInTime ==
    ASSUME NEW s, LiveOf(s) = {}, NEW rtmp, NEW p, NEW M, NEW x
    PROVE  InTime(s, rtmp, p, M, x)
<1>1. 0 \in Int /\ Offset(s, p, M, 0) /\ ~HasLive(s, M)
  BY DEF Offset, HasLive
<1> QED
  BY <1>1 DEF InTime

LEMMA SteppedTimed ==
    ASSUME TypesOk, KeepsLast, ItemsOk, SessionsWhole, SessionsTimed, NEW m, Stepped(m)
    PROVE  SessionsTimed'
<1>1. Longer(published, published', m)
  BY SteppedIsLonger
<1>2. /\ Of("video", VideoKinds) /\ Of("audio", AudioKinds)
      /\ Media(m) = "video" => prev_header(m) = prev_video_header_
      /\ Media(m) = "audio" => prev_header(m) = prev_audio_header_
      /\ prev_video_header_ \in Kept /\ prev_audio_header_ \in Kept
  BY CachesAre DEF Of, prev_header
<1>3. /\ Renews(prev_video_header_, prev_video_header_', m, VideoKinds)
      /\ Renews(prev_audio_header_, prev_audio_header_', m, AudioKinds)
  BY DEF Stepped, CachesStep
<1>4. ASSUME NEW o \in Outs
      PROVE  /\ InTime(out'[o], o \in RtmpOuts, published', "video", prev_video_header_')
             /\ InTime(out'[o], o \in RtmpOuts, published', "audio", prev_audio_header_')
  <2> DEFINE rtmp == o \in RtmpOuts
  <2>1. OutStep(o, m)
    BY DEF Stepped
  <2>2. CASE ~out[o].joined /\ out'[o] = out[o]
    <3>1. LiveOf(out'[o]) = {}
      BY <2>2 DEF SessionsWhole, Whole
    <3> QED
      BY <3>1, AloneInTime
  <2>3. CASE Grown(out[o], out'[o], rtmp, m)
    <3>1. \A i \in 1 .. Len(out[o].got) : ItemOf(out[o].got[i], published)
      BY DEF ItemsOk
    <3>2. /\ InTime(out[o], rtmp, published, "video", prev_video_header_)
          /\ InTime(out[o], rtmp, published, "audio", prev_audio_header_)
      BY DEF SessionsTimed
    <3>3. /\ KeepsClock(out[o], out'[o], m, "video")
          /\ KeepsClock(out[o], out'[o], m, "audio")
      BY <2>3 DEF Grown, GrewFlags, GrewFlag, KeepsClock
    <3> HIDE DEF rtmp
    <3>4. InTime(out'[o], rtmp, published', "video", prev_video_header_')
      BY <1>1, <1>2, <1>3, <2>3, <3>1, <3>2, <3>3, GrownInTime
    <3>5. InTime(out'[o], rtmp, published', "audio", prev_audio_header_')
      BY <1>1, <1>2, <1>3, <2>3, <3>1, <3>2, <3>3, GrownInTime
    <3> QED
      BY <3>4, <3>5 DEF rtmp
  <2> QED
    BY <2>1, <2>2, <2>3 DEF OutStep
<1> QED
  BY <1>4 DEF SessionsTimed

LEMMA SettledInTime ==
    ASSUME NEW s \in AnyOut, NEW r, Settled(s, r), NEW rtmp, NEW p, NEW M, NEW x,
           InTime(s, rtmp, p, M, x)
    PROVE  InTime(r, rtmp, p, M, x)
<1>1. /\ LiveOf(r) = LiveOf(s) /\ r.sent = s.sent /\ r.clock = s.clock
      /\ \A i \in LiveOf(s) : r.got[i].id = s.got[i].id /\ r.got[i].kind = s.got[i].kind
                              /\ r.got[i].ts = s.got[i].ts
  BY LiveSettled DEF Settled
<1>2. \A i \in LiveOf(s) : Media(r.got[i]) = Media(s.got[i])
  BY <1>1, SameMedia
<1>3. PICK c \in Int : /\ ~rtmp => c = 0
                       /\ Offset(s, p, M, c) /\ (HasLive(s, M) => Clocked(s, rtmp, M, x, c))
  BY DEF InTime
<1>4. Offset(r, p, M, c)
  BY <1>1, <1>2, <1>3 DEF Offset
<1>5. HasLive(r, M) => Clocked(r, rtmp, M, x, c)
  BY <1>1, <1>2, <1>3 DEF HasLive, Clocked
<1> QED
  BY <1>3, <1>4, <1>5 DEF InTime

LEMMA QuietTimed ==
    ASSUME TypesOk, SessionsTimed, Quiet PROVE SessionsTimed'
<1>1. ASSUME NEW o \in Outs
      PROVE  /\ InTime(out'[o], o \in RtmpOuts, published, "video", prev_video_header_)
             /\ InTime(out'[o], o \in RtmpOuts, published, "audio", prev_audio_header_)
  <2>1. out[o] \in AnyOut /\ Settled(out[o], out'[o])
    BY DEF TypesOk, Quiet
  <2>2. /\ InTime(out[o], o \in RtmpOuts, published, "video", prev_video_header_)
        /\ InTime(out[o], o \in RtmpOuts, published, "audio", prev_audio_header_)
    BY DEF SessionsTimed
  <2> QED
    BY <2>1, <2>2, SettledInTime
<1> QED
  BY <1>1 DEF SessionsTimed, Quiet

LEMMA TimedInStep ==
    ASSUME TypesOk, ItemsOk, SessionsTimed PROVE LiveInStep
<1> SUFFICES ASSUME NEW o \in Outs, NEW i \in Live(o), NEW j \in Live(o),
                    Media(out[o].got[i]) = Media(out[o].got[j])
    PROVE  out[o].got[j].ts =
             (out[o].got[i].ts + published[out[o].got[j].id].ts - published[out[o].got[i].id].ts)
                 % TimeLimit
  BY DEF LiveInStep
<1> DEFINE s == out[o]
           M == Media(s.got[i])
           a == published[s.got[i].id].ts
           b == published[s.got[j].id].ts
<1>1. i \in LiveOf(s) /\ j \in LiveOf(s)
  BY DEF Live, LiveOf
<1>2. a \in Int /\ b \in Int
  <2>1. s.got[i].id \in 1 .. Len(published) /\ s.got[j].id \in 1 .. Len(published)
    BY <1>1 DEF ItemsOk, ItemOf, LiveOf
  <2>2. \A n \in 1 .. Len(published) : published[n].ts \in Int
    <3>1. ASSUME NEW n \in 1 .. Len(published) PROVE published[n].ts \in Time
      <4>1. published[n] \in AnyMessage
        BY DEF TypesOk
      <4> QED
        BY <4>1 DEF AnyMessage
    <3> QED
      BY <3>1 DEF Time
  <2> QED
    BY <2>1, <2>2
<1>3. \E c \in Int : Offset(s, published, M, c)
  <2>1. M = "video" \/ M = "audio"
    BY DEF Media
  <2> QED
    BY <2>1 DEF SessionsTimed, InTime
<1>4. PICK c \in Int : Offset(s, published, M, c)
  BY <1>3
<1>5. s.got[i].ts = (a + c) % TimeLimit /\ s.got[j].ts = (b + c) % TimeLimit
  BY <1>1, <1>4 DEF Offset
<1> HIDE DEF a, b
<1>6. s.got[j].ts = (s.got[i].ts + b - a) % TimeLimit
  BY <1>2, <1>5, OffsetStays
<1> QED
  BY <1>6 DEF a, b

-----------------------------------------------------------------------------
(* Cached headers have the time of a message before which they went out *)

IsHeader(g) == g.cached /\ g.kind # "metadata"

\* h is a copy of g that was given to a session before the message with g's time.
Explains(g, h, p) == h.cached /\ h.id = g.id /\ h.at >= g.at /\ g.ts = p[h.at].ts

Explained(g, all, p) ==
    \E f \in FlvOuts : \E j \in 1 .. Len(all[f].got) : Explains(g, all[f].got[j], p)

HeadersOk ==
    \A o \in FlvOuts : \A i \in 1 .. Len(out[o].got) :
        IsHeader(out[o].got[i]) => Explained(out[o].got[i], out, published)

LEMMA FlvOutsAreOuts == \A o \in FlvOuts : o \in Outs /\ o \notin RtmpOuts
BY GroupMediaAssumption DEF Outs

LEMMA AlikeStays ==
    ASSUME TypesOk, NEW m, Stepped(m), NEW f \in Outs, NEW j \in 1 .. Len(out[f].got)
    PROVE  j \in 1 .. Len(out'[f].got) /\ Alike(out[f].got[j], out'[f].got[j])
<1>1. OutStep(f, m)
  BY DEF Stepped
<1>2. CASE Grown(out[f], out'[f], f \in RtmpOuts, m)
  BY <1>2 DEF Grown, Follows
<1>3. CASE out'[f] = out[f]
  <2>1. out[f].got \in Seq(AnyItem)
    BY DEF TypesOk, AnyOut
  <2>2. out[f].got[j] \in AnyItem
    BY <2>1
  <2> QED
    BY <1>3, <2>2 DEF Alike
<1> QED
  BY <1>1, <1>2, <1>3 DEF OutStep

\* What is as it was is explained as it was.
LEMMA StillExplained ==
    ASSUME TypesOk, ItemsOk, NEW m, Stepped(m), NEW g, NEW h,
           Explained(g, out, published), Alike(g, h), h.ts = g.ts
    PROVE  Explained(h, out', published')
<1>1. PICK f \in FlvOuts :
         \E j \in 1 .. Len(out[f].got) : Explains(g, out[f].got[j], published)
  BY DEF Explained
<1>8. PICK j \in 1 .. Len(out[f].got) : Explains(g, out[f].got[j], published)
  BY <1>1
<1> DEFINE a == out[f].got[j]
           b == out'[f].got[j]
<1>2. f \in Outs /\ Longer(published, published', m)
  BY FlvOutsAreOuts, SteppedIsLonger
<1>3. j \in 1 .. Len(out'[f].got) /\ Alike(a, b)
  BY <1>2, AlikeStays
<1>4. a.at \in 1 .. Len(published)
  BY <1>2 DEF ItemsOk, ItemOf
<1>5. published'[a.at] = published[a.at]
  BY <1>2, <1>4 DEF Longer
<1> HIDE DEF a, b
<1>6. Explains(g, a, published)
  BY <1>8 DEF a
<1>7. Explains(h, b, published')
  BY <1>3, <1>5, <1>6 DEF Explains, Alike
<1> QED
  BY <1>3, <1>7 DEF Explained, b

\* A header that is sent now explains every copy that is stamped with m.
LEMMA NowExplained ==
    ASSUME NEW m, Longer(published, published', m), NEW f \in FlvOuts,
           NEW j \in 1 .. Len(out'[f].got), FromCache(out'[f].got[j], FALSE, m),
           NEW h, h.id = out'[f].got[j].id, h.ts = m.ts, h.at \in 1 .. Len(published) + 1
    PROVE  Explained(h, out', published')
<1>1. out'[f].got[j].cached /\ out'[f].got[j].at = Len(published) + 1
  BY DEF FromCache
<1>2. Len(published) \in Nat /\ published'[Len(published) + 1] = m
  BY DEF Longer
<1>3. Explains(h, out'[f].got[j], published')
  BY <1>1, <1>2 DEF Explains
<1> QED
  BY <1>3 DEF Explained

EachGrew(m, flag, x) ==
    \A f \in Outs : Grown(out[f], out'[f], f \in RtmpOuts, m) =>
                       GrewFlag(out[f], out'[f], m, flag, x)

SentNow(m, id) ==
    \E f \in FlvOuts : \E j \in 1 .. Len(out'[f].got) :
        FromCache(out'[f].got[j], FALSE, m) /\ out'[f].got[j].id = id

\* Who is given the header now is sent a copy of it now.
LEMMA StampSends ==
    ASSUME NEW m, Stepped(m), m.kind # "metadata", NEW flag, NEW x, Stamped(flag, x),
           EachGrew(m, flag, x)
    PROVE  SentNow(m, x.id)
<1>1. PICK f \in FlvOuts : out[f].joined /\ flag \notin out[f].sent
  BY DEF Stamped
<1>2. f \in Outs /\ (f \in RtmpOuts) = FALSE /\ x # NoMessage
  BY FlvOutsAreOuts DEF Stamped
<1>3. Grown(out[f], out'[f], FALSE, m)
  BY <1>1, <1>2 DEF Stepped, OutStep
<1>4. GrewFlag(out[f], out'[f], m, flag, x)
  BY <1>2, <1>3 DEF EachGrew
<1>5. PICK j \in Len(out[f].got) + 1 .. Len(out'[f].got) :
         out'[f].got[j].cached /\ out'[f].got[j].id = x.id
  BY <1>1, <1>2, <1>4 DEF GrewFlag
<1>6. Len(out[f].got) \in Nat /\ Len(out'[f].got) \in Nat
  BY <1>3 DEF Grown, Follows
<1>7. j \in 1 .. Len(out'[f].got) /\ j \notin 1 .. Len(out[f].got)
  BY <1>5, <1>6
<1>8. FromCache(out'[f].got[j], FALSE, m)
  BY <1>3, <1>5, <1>7, Parts DEF MetaItem, LiveItem
<1> QED
  BY <1>5, <1>7, <1>8 DEF SentNow

LEMMA SteppedHeaders ==
    ASSUME TypesOk, KeepsLast, ItemsOk, HeadersOk, NEW m, Stepped(m) PROVE HeadersOk'
<1>1. Longer(published, published', m)
  BY SteppedIsLonger
<1>2. ASSUME NEW o \in FlvOuts, NEW i \in 1 .. Len(out'[o].got), IsHeader(out'[o].got[i])
      PROVE  Explained(out'[o].got[i], out', published')
  <2> DEFINE s == out[o]
             r == out'[o]
             h == r.got[i]
  <2>1. o \in Outs /\ (o \in RtmpOuts) = FALSE
    BY FlvOutsAreOuts
  <2>2. OutStep(o, m)
    BY <2>1 DEF Stepped
  <2>3. ASSUME i \in 1 .. Len(s.got), Alike(s.got[i], h)
        PROVE  /\ IsHeader(s.got[i]) /\ Explained(s.got[i], out, published)
               /\ s.got[i].at \in 1 .. Len(published)
    <3>1. IsHeader(s.got[i])
      BY <1>2, <2>3 DEF IsHeader, Alike
    <3> QED
      BY <2>1, <2>3, <3>1 DEF HeadersOk, ItemsOk, ItemOf
  <2>4. ASSUME i \in 1 .. Len(s.got), Alike(s.got[i], h), h.ts = s.got[i].ts
        PROVE  Explained(h, out', published')
    <3> DEFINE g == s.got[i]
    <3>1. Explained(g, out, published) /\ Alike(g, h) /\ h.ts = g.ts
      BY <2>3, <2>4
    <3> HIDE DEF g, h
    <3> QED
      BY <3>1, StillExplained
  <2>5. CASE ~s.joined /\ r = s
    <3>1. i \in 1 .. Len(s.got) /\ h = s.got[i]
      BY <2>5
    <3>2. Alike(s.got[i], h)
      BY <2>1, <3>1, AlikeStays
    <3> QED
      BY <2>4, <3>1, <3>2
  <2>6. CASE Grown(s, r, FALSE, m)
    <3>1. CASE i \in 1 .. Len(s.got) /\ Alike(s.got[i], h) /\ h.ts # s.got[i].ts
      <4>1. m.kind # "metadata" /\ Restamped(s.got[i]) /\ h.ts = m.ts
        BY <2>6, <3>1 DEF Grown, Renewed
      <4>2. h.id = s.got[i].id /\ h.at = s.got[i].at
        BY <3>1 DEF Alike
      <4>3. h.at \in 1 .. Len(published) + 1
        <5>1. s.got[i].at \in 1 .. Len(published) /\ Len(published) \in Nat
          BY <1>1, <2>3, <3>1 DEF Longer
        <5> QED
          BY <4>2, <5>1
      <4>4. EachGrew(m, "video", avc_header) /\ EachGrew(m, "audio", aac_header)
        BY DEF EachGrew, Grown, GrewFlags
      <4>5. SentNow(m, h.id)
        <5>1. CASE s.got[i].id = avc_header.id /\ Stamped("video", avc_header)
          <6>1. SentNow(m, avc_header.id)
            BY <4>1, <4>4, <5>1, StampSends
          <6> QED
            BY <4>2, <5>1, <6>1
        <5>2. CASE s.got[i].id = aac_header.id /\ Stamped("audio", aac_header)
          <6>1. SentNow(m, aac_header.id)
            BY <4>1, <4>4, <5>2, StampSends
          <6> QED
            BY <4>2, <5>2, <6>1
        <5> QED
          BY <4>1, <5>1, <5>2 DEF Restamped
      <4>6. PICK f \in FlvOuts : \E j \in 1 .. Len(out'[f].got) :
               FromCache(out'[f].got[j], FALSE, m) /\ out'[f].got[j].id = h.id
        BY <4>5 DEF SentNow
      <4>7. PICK j \in 1 .. Len(out'[f].got) :
               FromCache(out'[f].got[j], FALSE, m) /\ out'[f].got[j].id = h.id
        BY <4>6
      <4> HIDE DEF h
      <4>8. Explained(h, out', published')
        BY <1>1, <4>1, <4>3, <4>7, NowExplained
      <4> QED
        BY <4>8 DEF h
    <3>2. CASE FromCache(h, FALSE, m)
      <4>1. h.ts = m.ts /\ h.at = Len(published) + 1
        BY <1>2, <3>2 DEF FromCache, IsHeader, TagTimestamp
      <4>2. h.at \in 1 .. Len(published) + 1
        BY <1>1, <4>1 DEF Longer
      <4> QED
        BY <1>1, <3>2, <4>1, <4>2, NowExplained
    <3>3. CASE MetaItem(h, m) \/ LiveItem(h, m)
      BY <1>2, <3>3 DEF IsHeader, MetaItem, LiveItem
    <3> QED
      BY <2>4, <2>6, <3>1, <3>2, <3>3, Parts
  <2> QED
    BY <2>1, <2>2, <2>5, <2>6 DEF OutStep
<1> QED
  BY <1>2 DEF HeadersOk

LEMMA QuietHeaders ==
    ASSUME HeadersOk, Quiet PROVE HeadersOk'
<1>1. ASSUME NEW o \in FlvOuts, NEW i \in 1 .. Len(out'[o].got), IsHeader(out'[o].got[i])
      PROVE  Explained(out'[o].got[i], out', published')
  <2>1. \A f \in FlvOuts : Settled(out[f], out'[f])
    BY FlvOutsAreOuts DEF Quiet
  <2>2. /\ i \in 1 .. Len(out[o].got) /\ Alike(out[o].got[i], out'[o].got[i])
        /\ out'[o].got[i].ts = out[o].got[i].ts
    BY <2>1 DEF Settled
  <2>3. IsHeader(out[o].got[i])
    BY <1>1, <2>2 DEF IsHeader, Alike
  <2>4. PICK f \in FlvOuts : \E j \in 1 .. Len(out[f].got) :
           Explains(out[o].got[i], out[f].got[j], published)
    BY <2>2, <2>3 DEF HeadersOk, Explained
  <2>7. PICK j \in 1 .. Len(out[f].got) : Explains(out[o].got[i], out[f].got[j], published)
    BY <2>4
  <2>5. j \in 1 .. Len(out'[f].got) /\ Alike(out[f].got[j], out'[f].got[j])
    BY <2>1 DEF Settled
  <2>6. Explains(out'[o].got[i], out'[f].got[j], published)
    BY <2>2, <2>5, <2>7 DEF Explains, Alike
  <2> QED
    BY <2>5, <2>6 DEF Explained, Quiet
<1> QED
  BY <1>1 DEF HeadersOk

LEMMA OkHeadersInStep ==
    ASSUME TypesOk, HeadersOk PROVE HeadersInStep
<1>1. \A o \in FlvOuts : DOMAIN out[o].got = 1 .. Len(out[o].got)
  BY FlvOutsAreOuts DEF TypesOk, AnyOut
<1> SUFFICES ASSUME NEW o \in FlvOuts, NEW g \in Range(out[o].got), IsHeader(g)
    PROVE  \E p \in FlvOuts : \E h \in Range(out[p].got) :
              h.cached /\ h.id = g.id /\ h.at >= g.at /\ g.ts = published[h.at].ts
  BY DEF HeadersInStep, IsHeader
<1>2. PICK i \in 1 .. Len(out[o].got) : g = out[o].got[i]
  BY <1>1 DEF Range
<1>3. PICK f \in FlvOuts : \E j \in 1 .. Len(out[f].got) :
         Explains(g, out[f].got[j], published)
  BY <1>2 DEF HeadersOk, Explained
<1>4. PICK j \in 1 .. Len(out[f].got) : Explains(g, out[f].got[j], published)
  BY <1>3
<1>5. out[f].got[j] \in Range(out[f].got)
  BY <1>1 DEF Range
<1> QED
  BY <1>4, <1>5 DEF Explains

-----------------------------------------------------------------------------
(* The invariant and what follows from it *)

\* The types, what is kept, and for each session what it waits for and has got,
\* the headers that it has, and its clocks.
GroupInv ==
    /\ TypesOk /\ KeepsLast /\ ItemsOk /\ SessionsWhole /\ SessionsReady
    /\ SessionsTimed /\ HeadersOk

LEMMA InitIsInv == Init => GroupInv
<1> SUFFICES ASSUME Init PROVE GroupInv
  OBVIOUS
<1>1. /\ published = <<>> /\ republished = 0 /\ Len(published) = 0
      /\ metadata = NoMessage /\ avc_header = NoMessage /\ aac_header = NoMessage
      /\ prev_audio_header_ = NoMessage /\ prev_video_header_ = NoMessage
  BY DEF Init
<1>2. \A o \in Outs : out[o] = NewOut
  BY DEF Init
<1>3. /\ NewOut.joined = FALSE /\ NewOut.sent = {} /\ NewOut.got = <<>> /\ NewOut.since = 0
      /\ Len(NewOut.got) = 0 /\ LiveOf(NewOut) = {}
  BY DEF NewOut, LiveOf
<1>4. NewOut \in AnyOut
  <2>1. 0 \in Time
    BY TimeIsTime
  <2>2. [audio |-> 0, video |-> 0] \in [Medias -> Time]
    BY <2>1 DEF Medias
  <2> QED
    BY <2>2 DEF NewOut, AnyOut
<1>5. TypesOk
  BY <1>1, <1>2, <1>4 DEF TypesOk, Init
<1>6. KeepsLast
  BY <1>1 DEF KeepsLast, Keeps, KeepsIn
<1>7. ItemsOk
  BY <1>2, <1>3 DEF ItemsOk
<1>8. SessionsWhole
  <2>1. Outset(NewOut, published) /\ Whole(NewOut, published)
    BY <1>1, <1>3 DEF Outset, Whole
  <2> QED
    BY <1>2, <2>1 DEF SessionsWhole
<1>9. SessionsReady
  BY <1>2, <1>3, AloneReady DEF SessionsReady
<1>10. SessionsTimed
  BY <1>2, <1>3, AloneInTime DEF SessionsTimed
<1>11. HeadersOk
  BY <1>2, <1>3, FlvOutsAreOuts DEF HeadersOk
<1> QED
  BY <1>5, <1>6, <1>7, <1>8, <1>9, <1>10, <1>11 DEF GroupInv

LEMMA NextKeepsInv == GroupInv /\ [Next]_vars => GroupInv'
<1> SUFFICES ASSUME GroupInv, [Next]_vars PROVE GroupInv'
  OBVIOUS
<1>1. /\ TypesOk /\ KeepsLast /\ ItemsOk /\ SessionsWhole /\ SessionsReady
      /\ SessionsTimed /\ HeadersOk
  BY DEF GroupInv
<1>2. Quiet \/ \E m : Stepped(m)
  BY <1>1, SharedItems, StepIs
<1>3. CASE Quiet
  <2>1. /\ TypesOk' /\ KeepsLast' /\ ItemsOk' /\ SessionsWhole' /\ SessionsReady'
        /\ SessionsTimed' /\ HeadersOk'
    BY <1>1, <1>3, QuietKeeps, QuietItems, QuietWhole, QuietReady, QuietTimed, QuietHeaders,
       Zenon
  <2> QED
    BY <2>1 DEF GroupInv
<1>4. ASSUME NEW m, Stepped(m) PROVE GroupInv'
  <2>1. /\ TypesOk' /\ KeepsLast' /\ ItemsOk' /\ SessionsWhole' /\ SessionsReady'
        /\ SessionsTimed' /\ HeadersOk'
    BY <1>1, <1>4, SteppedKeeps, SteppedItems, SteppedWhole, SteppedReady, SteppedTimed,
       SteppedHeaders, Zenon
  <2> QED
    BY <2>1 DEF GroupInv
<1> QED
  BY <1>2, <1>3, <1>4

LEMMA SpecHasInv == Spec => []GroupInv
BY InitIsInv, NextKeepsInv, PTL DEF Spec

LEMMA TypesAre == GroupInv => TypeOK
<1> SUFFICES ASSUME GroupInv PROVE TypeOK
  OBVIOUS
<1>1. TypesOk /\ KeepsLast /\ SessionsWhole
  BY DEF GroupInv
<1>2. \A i \in 1 .. Len(published) :
         published[i].kind \in Kinds \cup {"metadata"} /\ published[i].id = i
  <2>1. \A i \in 1 .. Len(published) : published[i] \in AnyMessage /\ published[i].id = i
    BY <1>1 DEF TypesOk
  <2> QED
    BY <2>1 DEF AnyMessage
<1>3. /\ metadata.kind \in {"none", "metadata"} /\ avc_header.kind \in {"none", "avc header"}
      /\ aac_header.kind \in {"none", "aac header"}
      /\ prev_audio_header_.kind \in AudioKinds \cup {"none"}
      /\ prev_video_header_.kind \in VideoKinds \cup {"none"}
  <2>1. NoMessage.kind = "none"
    BY DEF NoMessage
  <2>2. \A x, kinds : Keeps(x, kinds) => x.kind \in kinds \cup {"none"}
    BY <2>1 DEF Keeps, KeepsIn
  <2>3. /\ metadata.kind \in MetaKinds \cup {"none"}
        /\ avc_header.kind \in AvcKinds \cup {"none"}
        /\ aac_header.kind \in AacKinds \cup {"none"}
        /\ prev_audio_header_.kind \in AudioKinds \cup {"none"}
        /\ prev_video_header_.kind \in VideoKinds \cup {"none"}
    BY <1>1, <2>2, Zenon DEF KeepsLast
  <2> QED
    BY <2>3 DEF MetaKinds, AvcKinds, AacKinds
<1>4. ASSUME NEW o \in Outs
      PROVE  /\ out[o].joined \in BOOLEAN /\ out[o].sent \subseteq Flags
             /\ out[o].since \in 0 .. Len(published)
             /\ \A i \in 1 .. Len(out[o].got) : out[o].got[i].ts \in 0 .. TimeLimit - 1
  <2>1. out[o] \in AnyOut
    BY <1>1 DEF TypesOk
  <2>2. out[o].since \in 0 .. Len(published)
    BY <1>1 DEF SessionsWhole, Outset
  <2>3. \A i \in 1 .. Len(out[o].got) : out[o].got[i] \in AnyItem
    BY <2>1 DEF AnyOut
  <2>4. \A i \in 1 .. Len(out[o].got) : out[o].got[i].ts \in 0 .. TimeLimit - 1
    BY <2>3 DEF AnyItem, Time
  <2> QED
    BY <2>1, <2>2, <2>4 DEF AnyOut
<1> QED
  BY <1>1, <1>2, <1>3, <1>4 DEF TypeOK, TypesOk

-----------------------------------------------------------------------------
\* The caches hold messages of their kinds, and what a session was sent has a
\* timestamp of 32 bits: on_rtmp_meta_data and on_rtmp_av_data.
THEOREM TypeCorrect == Spec => []TypeOK
BY SpecHasInv, TypesAre, PTL

\* A session gets every message from the first start of decoding on, once and in
\* order, whenever it joined and whoever publishes: send_av_data and its flags.
THEOREM NothingIsMissed == Spec => []NothingMissed
<1>1. GroupInv => NothingMissed
  BY WholeMissesNothing DEF GroupInv
<1> QED
  BY <1>1, SpecHasInv, PTL

\* A session gets the decoder header that a frame needs before the frame, from the
\* cache or as it was published: cache_avc_header, cache_aac_header, send_av_data.
THEOREM HeadersComeFirst == Spec => []HeaderBeforeFrames
<1>1. GroupInv => HeaderBeforeFrames
  BY ReadyHasHeaders DEF GroupInv
<1> QED
  BY <1>1, SpecHasInv, PTL

\* The deltas that RTMP sessions are sent add up to the publisher's time, also when
\* it wraps, and shared tags have the time of a message before which they went out:
\* delta_chunks, prev_audio_header_, prev_video_header_, write_tag_timestamp.
THEOREM SessionsKeepTime == Spec => []TimeInStep
<1>1. GroupInv => TimeInStep
  BY TimedInStep, OkHeadersInStep DEF GroupInv, TimeInStep
<1> QED
  BY <1>1, SpecHasInv, PTL
=============================================================================
