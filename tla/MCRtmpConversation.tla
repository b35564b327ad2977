------------------------- MODULE MCRtmpConversation -------------------------
(* Peers that open a connection in every way the handshake tells apart.      *)
EXTENDS RtmpConversation

\* An unknown version, the old style, and the new style with a digest in either
\* place or with one that does not fit.
Foreign(version, second, sum, digest) ==
    [version |-> version,
     c0c1_ |-> Block(C1Time, second, "c1 foreign", Sums(sum), digest),
     c2_ |-> Uninitialised(sum)]

MCForeignPeers ==
    {Foreign(version, 0, 727, NoDigest) : version \in {RTMP_VERSION, 6}}
    \cup UNION {{Foreign(RTMP_VERSION, 9, sum, NoDigest),
                Foreign(RTMP_VERSION, 9, sum, Digest(ClientKey, digest_offset(sum, DigestBeforeKey))),
                Foreign(RTMP_VERSION, 9, sum, Digest(ClientKey, digest_offset(sum, KeyBeforeDigest)))}
               : sum \in ByteSums}
=============================================================================
