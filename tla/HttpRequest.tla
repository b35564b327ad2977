---------------------------- MODULE HttpRequest ----------------------------
(***************************************************************************)
(* The name that HttpFlvSub::request_handler takes from a request line.    *)
(*                                                                         *)
(* A string is a sequence of characters, among them the suffix ".flv", the *)
(* method and the version, which nothing splits.                           *)
(***************************************************************************)
EXTENDS Naturals, Sequences, SequencesExt

Flv == ".flv"

\* Where getline is in a string: the items kept so far, and the one it reads.
ItemsStart == [ret |-> <<>>, item |-> <<>>]

\* An item ends here, and is kept unless it is empty and empty ones are skipped.
Kept(at, keep_empty_strings) ==
    IF keep_empty_strings \/ at.item # <<>> THEN Append(at.ret, at.item) ELSE at.ret

\* getline takes one more character.
Taking(at, c, sep, keep_empty_strings) ==
    IF c = sep THEN [ret |-> Kept(at, keep_empty_strings), item |-> <<>>]
    ELSE [at EXCEPT !.item = Append(@, c)]

\* strings_op::split.  An empty item after the last separator counts as one.
split(s, sep, keep_empty_strings) ==
    LET at[k \in 0 .. Len(s)] ==
            IF k = 0 THEN ItemsStart ELSE Taking(at[k - 1], s[k], sep, keep_empty_strings)
    IN  IF s = <<>> THEN <<>> ELSE Kept(at[Len(s)], keep_empty_strings)

has_suffix(s, suffix) == s # <<>> /\ suffix # <<>> /\ IsSuffix(suffix, s)

trim_suffix(s, suffix) ==
    IF has_suffix(s, suffix) THEN SubSeq(s, 1, Len(s) - Len(suffix)) ELSE s

to_upper(s) == [i \in 1 .. Len(s) |-> IF s[i] = "get" THEN "GET" ELSE s[i]]

\* The fields of a line that ends with a carriage return, which is cut off.
Fields(line) ==
    IF line # <<>> /\ Last(line) = "\r" THEN split(Front(line), " ", TRUE) ELSE <<>>

\* Mutant: empty names between slashes count.
Segments_with_empty(line) == split(Fields(line)[2], "/", TRUE)

Segments(line) == split(Fields(line)[2], "/", FALSE)

\* The handler goes on after its early returns.
Usable(line) ==
    /\ Len(Fields(line)) = 3
    /\ to_upper(Fields(line)[1]) = <<"GET">>
    /\ Len(Segments(line)) >= 2
    /\ has_suffix(Last(Segments(line)), <<Flv>>)

\* The name before it is the application's, which Server does not look at.
stream_name(line) == trim_suffix(Last(Segments(line)), <<Flv>>)

-----------------------------------------------------------------------------
(* What a request line says *)

\* The words of a uri: where its longest runs without a slash begin and end.
Words(uri) ==
    {w \in (1 .. Len(uri)) \X (1 .. Len(uri)) :
        /\ w[1] <= w[2]
        /\ \A i \in w[1] .. w[2] : uri[i] # "/"
        /\ w[1] = 1 \/ uri[w[1] - 1] = "/"
        /\ w[2] = Len(uri) \/ uri[w[2] + 1] = "/"}

\* The last word without its .flv, if it ends so and is not the only one.
NamedBy(uri) ==
    {SubSeq(uri, w[1], w[2] - 1) :
        w \in {x \in Words(uri) : /\ uri[x[2]] = Flv
                                  /\ \E v \in Words(uri) : v[2] < x[1]
                                  /\ \A v \in Words(uri) : v[1] <= x[1]}}

\* What a line asks for: the uri of a GET in three fields, with one blank between
\* them and a carriage return at the end.  At most one name.
Asked(line) ==
    UNION {NamedBy(SubSeq(line, p[1] + 1, p[2] - 1)) :
        p \in {q \in (1 .. Len(line)) \X (1 .. Len(line)) :
            /\ q[1] < q[2] /\ {s \in 1 .. Len(line) : line[s] = " "} = {q[1], q[2]}
            /\ SubSeq(line, 1, q[1] - 1) \in {<<"GET">>, <<"get">>}
            /\ line[Len(line)] = "\r"}}
=============================================================================
