---- MODULE WebText ----
(***************************************************************************)
(* The webserver's functions on text (path.c, http_microhttpd_utils.c,     *)
(* template.c), on sequences of one-character strings.  "H" stands for the *)
(* http://host of a url.  Buffers have their sizes; the terminating zeros  *)
(* are left out.                                                           *)
(***************************************************************************)
EXTENDS Integers, Sequences, FiniteSets, SequencesExt, FiniteSetsExt

(* The characters of a text, with the ones that are named here. *)
Char == STRING \cup {"H", "/", ".", "&", "%", "?", "=", "$", "-", "_",
                     "2", "3", "5", "6", "a", "d", "f"}

Text(chars, n) == SeqOf(chars, n)
Cut(t, n) == SubSeq(t, 1, IF n < Len(t) THEN n ELSE Len(t))

---------------------------------------------------------------------------
(* url coding *)

(* The hex digits of the characters that are encoded. *)
Hex == [c \in {"/", "&", "%", "?", "="} |->
          IF c = "/" THEN <<"2", "f">> ELSE IF c = "&" THEN <<"2", "6">>
          ELSE IF c = "%" THEN <<"2", "5">> ELSE IF c = "?" THEN <<"3", "f">> ELSE <<"3", "d">>]
Unhex(a, b) == CHOOSE c \in DOMAIN Hex : Hex[c] = <<a, b>>
isxdigit(c) == c \in {"2", "3", "5", "6", "a", "d", "f"}

uh_urlencode_Cuts(blen, src) ==
    [text |-> Cut(FlattenSeq([i \in DOMAIN src |->
                     IF src[i] \in DOMAIN Hex THEN <<"%">> \o Hex[src[i]] ELSE <<src[i]>>]), blen),
     rc |-> 0]

(* One round of the loop: rc is 0, or -1 when c does not fit into the rest   *)
(* of the blen characters.                                                   *)
EncodeChar(r, blen, c) ==
    IF r.rc # 0 THEN r
    ELSE IF c \notin DOMAIN Hex /\ Len(r.text) < blen
    THEN [text |-> Append(r.text, c), rc |-> 0]
    ELSE IF c \in DOMAIN Hex /\ Len(r.text) + 3 <= blen
    THEN [text |-> Append(Append(Append(r.text, "%"), Hex[c][1]), Hex[c][2]), rc |-> 0]
    ELSE [text |-> r.text, rc |-> -1]

Encoding(blen, src) ==
    LET round[i \in 0..Len(src)] ==
            IF i = 0 THEN [text |-> <<>>, rc |-> 0]
            ELSE EncodeChar(round[i - 1], blen, src[i])
    IN round

uh_urlencode(blen, src) == Encoding(blen, src)[Len(src)]

(* One round at character i; skip counts the digits already read.  rc is -2  *)
(* for a malformed text.  Digits that stand for none of the characters above *)
(* are not met.                                                              *)
DecodeChar(r, blen, src, i) ==
    LET Digits == i + 2 <= Len(src) /\ isxdigit(src[i + 1]) /\ isxdigit(src[i + 2])
        Read(c, skip) == [text |-> Append(r.text, c), rc |-> 0, skip |-> skip]
        Fail(rc) == [text |-> r.text, rc |-> rc, skip |-> 0]
    IN IF r.rc # 0 THEN r
       ELSE IF r.skip > 0 THEN [text |-> r.text, rc |-> 0, skip |-> r.skip - 1]
       ELSE IF Len(r.text) >= blen THEN Fail(-1)
       ELSE IF src[i] # "%" THEN Read(src[i], 0)
       ELSE IF ~Digits THEN Fail(-2) ELSE Read(Unhex(src[i + 1], src[i + 2]), 2)

Decoding(blen, src) ==
    LET round[i \in 0..Len(src)] ==
            IF i = 0 THEN [text |-> <<>>, rc |-> 0, skip |-> 0]
            ELSE DecodeChar(round[i - 1], blen, src, i)
    IN round

uh_urldecode(blen, src) ==
    LET last == Decoding(blen, src)[Len(src)] IN [text |-> last.text, rc |-> last.rc]

---------------------------------------------------------------------------
(* buffer_path_simplify *)

(* Leading spaces, then "." or ".." as the first component, are skipped. *)
Walk(src) ==
    LET first == {i \in DOMAIN src : src[i] # " "}
        p == IF first = {} THEN <<>> ELSE SubSeq(src, Min(first), Len(src))
        Begins(dots) == IsPrefix(dots, p) /\ (Len(p) = Len(dots) \/ p[Len(dots) + 1] = "/")
    IN IF Begins(<<".">>) THEN Tail(p)
       ELSE IF Begins(<<".", ".">>) THEN Tail(Tail(p)) ELSE p

Parent_KeepsComponent(dest, out) == out

(* The walk back to the slash before out, or to the begin of the buffer. *)
Parent(dest, out) ==
    LET slashes == {k \in 0..(out - 1) : dest[k + 1] = "/"}
    IN IF slashes = {} THEN 0 ELSE Max(slashes)

(* dest keeps what was written behind out. *)
Written(dest, out, c) ==
    IF out < Len(dest) THEN [dest EXCEPT ![out + 1] = c] ELSE Append(dest, c)

(* Where out goes at the end of the component from slash to out, whose last  *)
(* characters are pre2 and pre1.  At the end of the path one character that  *)
(* was given up is shown again.                                              *)
Ended(dest, slash, out, pre2, pre1, atEnd) ==
    LET toklen == out - slash
        up     == toklen = 3 /\ pre2 = "." /\ pre1 = "." /\ dest[slash + 1] = "/"
        same   == toklen = 1 \/ (pre2 = "/" /\ pre1 = ".")
        back   == IF up THEN Parent(dest, slash) ELSE slash
    IN IF ~(up \/ same) THEN out ELSE IF atEnd THEN back + 1 ELSE back

(* One round of the loop, at character i of p; slash is the begin of the     *)
(* current component.                                                        *)
Simplified(r, p, i) ==
    LET dest == Written(r.dest, r.out, p[i])
        pre2 == IF i > 1 THEN p[i - 1] ELSE ""
        next == Ended(dest, r.slash, r.out + 1, pre2, p[i], i = Len(p))
    IN IF i = Len(p) \/ p[i + 1] = "/" THEN [dest |-> dest, out |-> next, slash |-> next]
       ELSE [dest |-> dest, out |-> r.out + 1, slash |-> r.slash]

Simplifying(p) ==
    LET round[i \in 0..Len(p)] ==
            IF i = 0 THEN [dest |-> <<>>, out |-> 0, slash |-> 0]
            ELSE Simplified(round[i - 1], p, i)
    IN round

buffer_path_simplify(src) ==
    LET p == Walk(src)
        r == Simplifying(p)[Len(p)]
    IN SubSeq(r.dest, 1, r.out)

(* Reference: the path is read name by name, ".." taking the last directory  *)
(* away.  What follows the last slash is entered at the end.                 *)
Dots == {<<>>, <<".">>, <<".", ".">>}

Enter(dir, name) ==
    IF name \notin Dots THEN Append(dir, name)
    ELSE IF name = <<".", ".">> /\ dir # <<>> THEN Front(dir) ELSE dir

ReadChar(r, c) ==
    IF c = "/" THEN [dir |-> Enter(r.dir, r.name), name |-> <<>>]
    ELSE [dir |-> r.dir, name |-> Append(r.name, c)]

Resolving(p) ==
    LET round[i \in 0..Len(p)] ==
            IF i = 0 THEN [dir |-> <<>>, name |-> <<>>] ELSE ReadChar(round[i - 1], p[i])
    IN round

Listed(dir) == FlattenSeq([i \in DOMAIN dir |-> <<"/">> \o dir[i]])

Resolved(p) ==
    LET r == Resolving(p)[Len(p)]
    IN Listed(Enter(r.dir, r.name)) \o (IF r.name \in Dots THEN <<"/">> ELSE <<>>)

(* A component ".." begins behind character k of p. *)
GoesUp(p, k) ==
    /\ k + 2 <= Len(p) /\ p[k + 1] = "." /\ p[k + 2] = "."
    /\ k = 0 \/ p[k] = "/"
    /\ k + 2 = Len(p) \/ p[k + 3] = "/"

---------------------------------------------------------------------------
(* tmpl_parse *)

IsNameChar_NoUnderline(c) == c \notin {"$", "-", "_"}

IsNameChar(c) == c \notin {"$", "-"}   \* alphanumeric or an underline

(* The name that begins at src[i]. *)
VarName(src, i) ==
    LET ends == {j \in i..Len(src) : ~IsNameChar(src[j])}
    IN SubSeq(src, i, (IF ends = {} THEN Len(src) + 1 ELSE Min(ends)) - 1)

(* vars maps names to values.  A name that is unknown, or longer than        *)
(* maxname, is copied without its "$".                                       *)
Value(vars, maxname, name) ==
    IF Len(name) <= maxname /\ name \in DOMAIN vars THEN vars[name] ELSE name

(* One round at character i, which is skipped when it belongs to a name. *)
ParseChar(r, vars, maxname, dst_len, src, i) ==
    IF i < r.src_i \/ Len(r.dst) >= dst_len THEN r
    ELSE IF src[i] # "$" THEN [dst |-> Append(r.dst, src[i]), src_i |-> i + 1]
    ELSE LET name == VarName(src, i + 1)
         IN [dst |-> r.dst \o Value(vars, maxname, name), src_i |-> i + 1 + Len(name)]

Parsing(vars, maxname, dst_len, src) ==
    LET round[i \in 0..Len(src)] ==
            IF i = 0 THEN [dst |-> <<>>, src_i |-> 1]
            ELSE ParseChar(round[i - 1], vars, maxname, dst_len, src, i)
    IN round

tmpl_parse(vars, maxname, dst_len, src) ==
    Cut(Parsing(vars, maxname, dst_len, src)[Len(src)].dst, dst_len)
========================
