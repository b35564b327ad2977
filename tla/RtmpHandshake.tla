--------------------------- MODULE RtmpHandshake ---------------------------
(***************************************************************************)
(* RtmpHandshakeS and RtmpHandshakeC: the blocks of 1536 bytes that open a *)
(* connection.                                                             *)
(*                                                                         *)
(* A block has two words of four bytes, and a rest that holds bytes and    *)
(* perhaps a digest: who signed it and where it is.  sums is the sum of    *)
(* the four bytes from which the place of a digest is taken, for each of   *)
(* the two places a client may use.                                        *)
(***************************************************************************)
EXTENDS Naturals

CONSTANT
    ForeignRests    \* what the rest of a block holds that yet has not made

RTMP_VERSION == 3
RTMP_HANDSHAKE_KEYLEN == 32
RTMP_S2_LEN == 1536

\* Where the four bytes are: in the part before the key, or after it.
DigestBeforeKey == 8
KeyBeforeDigest == 764 + 8

Block(first, second, rest, sums, digest) ==
    [first |-> first, second |-> second, rest |-> rest, sums |-> sums, digest |-> digest]

Sums(s) == [base \in {DigestBeforeKey, KeyBeforeDigest} |-> s]

NoDigest == <<>>

\* The code of a text under a key: equal only for the same key and text.
HMACSHA256(key, text) == <<key, text>>

\* rtmp_make_digest: the text is the block without the 32 bytes at offs.
Digest(key, offs) == HMACSHA256(key, offs)

ClientKey == <<"client">>
ServerKey == <<"server">>

\* The code, under the server's whole key, of the 32 bytes at offs of c1.
KeyFrom(offs) == HMACSHA256("server", offs)

digest_offset(sum, base) == (sum % 728) + base + 4

\* 0x0D0E0A0D
RTMP_SERVER_VERSION == 219023885

\* What memory holds before it is written.
Junk == 77
Uninitialised(sum) == Block(Junk, Junk, "junk", Sums(sum), NoDigest)

\* What memory holds, what create_c0c1 makes, or what others make.
Rests == {"junk", "c1 random"} \cup ForeignRests

\* The blocks that can arrive: any words, bytes and sums, and no digest or that of a
\* client at some offset.
ClientBlocks ==
    [first : Nat, second : Nat, rest : Rests,
     sums : [{DigestBeforeKey, KeyBeforeDigest} -> Nat],
     digest : {NoDigest} \cup ({ClientKey} \X Nat)]

-----------------------------------------------------------------------------
(* RtmpHandshakeS *)

NewS(is_old, sum) ==
    [is_old_ |-> is_old, timestamp_recvd_c1_ |-> Junk, timestamp_sent_s1_ |-> Junk,
     s0s1_ |-> Uninitialised(sum), s2_ |-> Uninitialised(sum)]

NotFound == 0

rtmp_find_digest(c1, base) ==
    LET offs == digest_offset(c1.sums[base], base)
    IN  IF c1.digest = Digest(ClientKey, offs) THEN offs ELSE NotFound

\* Mutant: only the place after the key is looked at.
find_digest_after_key(c1) == rtmp_find_digest(c1, KeyBeforeDigest)

find_digest(c1) ==
    LET after == rtmp_find_digest(c1, KeyBeforeDigest)
    IN  IF after # NotFound THEN after ELSE rtmp_find_digest(c1, DigestBeforeKey)

\* An invalid version leaves is_old_ as it was.
rtmp_handshake_parse_challenge(hs, version, c1) ==
    LET offs == find_digest(c1) IN
    IF version # RTMP_VERSION THEN hs
    ELSE IF c1.second = 0 \/ offs = NotFound THEN [hs EXCEPT !.is_old_ = TRUE]
    ELSE [hs EXCEPT !.is_old_ = FALSE,
                    !.s2_.digest = Digest(KeyFrom(offs), RTMP_S2_LEN - RTMP_HANDSHAKE_KEYLEN)]

\* The result of parsing is not looked at.
handle_c0c1(hs, version, c1) ==
    LET h == rtmp_handshake_parse_challenge(hs, version, c1)
    IN  IF h.is_old_ THEN [h EXCEPT !.timestamp_recvd_c1_ = c1.first, !.s2_ = c1] ELSE h

\* The place of the digest comes from memory that was never written.
rtmp_handshake_create_challenge(s1, now) ==
    [s1 EXCEPT !.first = now, !.second = RTMP_SERVER_VERSION,
               !.digest = Digest(ServerKey,
                                 digest_offset(s1.sums[DigestBeforeKey], DigestBeforeKey))]

create_s0s1(hs, now) ==
    [hs EXCEPT !.timestamp_sent_s1_ = now,
               !.s0s1_ = IF hs.is_old_ THEN [@ EXCEPT !.first = now, !.second = 0]
                         ELSE rtmp_handshake_create_challenge(@, now)]

create_s2(hs) ==
    IF hs.is_old_
    THEN [hs EXCEPT !.s2_.first = hs.timestamp_recvd_c1_,
                    !.s2_.second = hs.timestamp_sent_s1_]
    ELSE hs

-----------------------------------------------------------------------------
(* RtmpHandshakeC *)

\* The second word is 0: a client of yet is of the old style.
create_c0c1(now, sum) ==
    [version |-> RTMP_VERSION,
     c0c1_ |-> Block(now, 0, "c1 random", Sums(sum), NoDigest),
     c2_ |-> Uninitialised(sum)]

\* The rest of s2 must be that of c1; otherwise c2 is left as it was.  The test of the
\* version in s0 before it is left out: create_s0s1 never writes another.
handle_s0s1s2(hc, s1, s2) ==
    IF s2.rest = hc.c0c1_.rest /\ s2.digest = hc.c0c1_.digest
    THEN [hc EXCEPT !.c2_ = s1]
    ELSE hc

-----------------------------------------------------------------------------
(* What a peer may expect *)

\* c1 carries a digest where clients of the new style put one.
SignedByClient(c1) ==
    \E base \in {DigestBeforeKey, KeyBeforeDigest} :
        c1.digest = Digest(ClientKey, digest_offset(c1.sums[base], base))

\* s2 proves that the server has read c1: it is signed with a key made from the
\* digest of c1, or it repeats c1 with the times of c1 and of s1.
Proves(s2, c1, s1) ==
    IF c1.second # 0 /\ SignedByClient(c1)
    THEN s2.digest = Digest(KeyFrom(c1.digest[2]), RTMP_S2_LEN - RTMP_HANDSHAKE_KEYLEN)
    ELSE s2 = [c1 EXCEPT !.second = s1.first]
=============================================================================
