---- MODULE SplashProofs ----
(***************************************************************************)
(* The texts, for inputs of every length: uh_urldecode inverts             *)
(* uh_urlencode, buffer_path_simplify resolves a path component by         *)
(* component and leaves no "..", tmpl_parse gives the values of its        *)
(* variables.  The tokens: a page authenticates a client only in the time  *)
(* between two resets in which it was made.  The url: a user who submits   *)
(* the form arrives at the url asked for.                                  *)
(*                                                                         *)
(* The functions on texts are loops, written as recursive functions of the *)
(* round.  LoopExists gives such a function its values, and Rounds is the  *)
(* induction over them.                                                    *)
(***************************************************************************)
EXTENDS Splash, TLAPS, SequenceTheorems, FiniteSetTheorems, WellFoundedInduction

---------------------------------------------------------------------------
(* Loops *)

(* A set of numbers has a least one. *)
LEMMA LeastNumber ==
    ASSUME NEW T \in SUBSET Nat, T # {}
    PROVE  \E x \in T : \A y \in T : x <= y
<1>1. \E x \in T : \A y \in T : ~(<<y, x>> \in OpToRel(<, Nat))
  BY NatLessThanWellFounded, WFMin
<1>2. PICK x \in T : \A y \in T : ~(<<y, x>> \in OpToRel(<, Nat))
  BY <1>1
<1>3. \A y \in T : ~(y < x)
  BY <1>2 DEF OpToRel
<1>4. QED
  BY <1>3

(* Induction over the rounds of a loop, for the set of the rounds after      *)
(* which something holds.                                                    *)
LEMMA Rounds ==
    ASSUME NEW n \in Nat, NEW T, 0 \in T, \A i \in 1..n : i - 1 \in T => i \in T
    PROVE  \A i \in 0..n : i \in T
<1> DEFINE F == {i \in 0..n : i \notin T}
<1>1. SUFFICES ASSUME NEW i \in 0..n, i \notin T PROVE FALSE
  OBVIOUS
<1>2. PICK x \in F : \A y \in F : x <= y
  <2>1. F \in SUBSET Nat /\ i \in F
    BY <1>1
  <2> HIDE DEF F
  <2> QED
    BY <2>1, LeastNumber
<1>3. x \in 1..n /\ x - 1 \in 0..n /\ ~(x <= x - 1)
  BY <1>2
<1>4. x - 1 \in T
  BY <1>2, <1>3
<1>5. QED
  BY <1>2, <1>3, <1>4

(* f[i] is the state after round i of a loop over 1..n, whose body in that   *)
(* round is the function step[i] on states.                                  *)
IsRun(f, n, a, step) == f[0] = a /\ \A i \in 1..n : f[i] = step[i][f[i - 1]]

(* A loop with a body for every state has a state after every round. *)
LEMMA LoopExists ==
    ASSUME NEW n \in Nat, NEW S, NEW a \in S, NEW step \in [1..n -> [S -> S]]
    PROVE  \E f \in [0..n -> S] : IsRun(f, n, a, step)
<1> DEFINE T == {k \in 0..n : \E f \in [0..n -> S] : IsRun(f, k, a, step)}
<1>1. 0 \in T
  <2> DEFINE f == [i \in 0..n |-> a]
  <2>1. f \in [0..n -> S] /\ IsRun(f, 0, a, step)
    BY DEF IsRun
  <2> HIDE DEF f
  <2> QED
    BY <2>1
<1>2. ASSUME NEW k \in 1..n, k - 1 \in T PROVE k \in T
  <2>1. PICK f \in [0..n -> S] : IsRun(f, k - 1, a, step)
    BY <1>2
  <2> DEFINE g == [f EXCEPT ![k] = step[k][f[k - 1]]]
  <2>2. step[k][f[k - 1]] \in S
    OBVIOUS
  <2>3. g \in [0..n -> S] /\ g[0] = a
    BY <2>1, <2>2 DEF IsRun
  <2>4. ASSUME NEW i \in 1..k PROVE g[i] = step[i][g[i - 1]]
    <3>1. g[i - 1] = f[i - 1]
      OBVIOUS
    <3>2. CASE i = k
      BY <3>1, <3>2
    <3>3. CASE i # k
      <4>1. i \in 1..(k - 1) /\ g[i] = f[i]
        BY <3>3
      <4> QED
        BY <4>1, <3>1, <2>1 DEF IsRun
    <3> QED
      BY <3>2, <3>3
  <2> HIDE DEF g
  <2>5. IsRun(g, k, a, step)
    BY <2>3, <2>4 DEF IsRun
  <2> QED
    BY <2>3, <2>5
<1>3. n \in T
  <2> HIDE DEF T
  <2>1. \A k \in 0..n : k \in T
    BY <1>1, <1>2, Rounds
  <2> QED
    BY <2>1
<1> QED
  BY <1>3

---------------------------------------------------------------------------
(* Encoding and decoding *)

EncodeState == [text : Seq(Char), rc : {0, -1}]

(* The hex digits of a character are two, and tell which it is. *)
LEMMA HexFacts ==
    /\ DOMAIN Hex = {"/", "&", "%", "?", "="}
    /\ \A c \in DOMAIN Hex : /\ Hex[c] = <<Hex[c][1], Hex[c][2]>>
                             /\ Hex[c][1] \in Char /\ Hex[c][2] \in Char
                             /\ isxdigit(Hex[c][1]) /\ isxdigit(Hex[c][2])
    /\ \A c, d \in DOMAIN Hex : Hex[c] = Hex[d] => c = d
<1>1. DOMAIN Hex = {"/", "&", "%", "?", "="}
  BY DEF Hex
<1>2. /\ Hex["/"] = <<"2", "f">> /\ Hex["&"] = <<"2", "6">> /\ Hex["%"] = <<"2", "5">>
      /\ Hex["?"] = <<"3", "f">> /\ Hex["="] = <<"3", "d">>
  BY DEF Hex
<1>3. ASSUME NEW c \in DOMAIN Hex
      PROVE  /\ Hex[c] = <<Hex[c][1], Hex[c][2]>>
             /\ Hex[c][1] \in Char /\ Hex[c][2] \in Char
             /\ isxdigit(Hex[c][1]) /\ isxdigit(Hex[c][2])
  <2>1. ASSUME NEW a \in {"2", "3"}, NEW b \in {"f", "6", "5", "d"}, Hex[c] = <<a, b>>
        PROVE  /\ Hex[c] = <<Hex[c][1], Hex[c][2]>>
               /\ Hex[c][1] \in Char /\ Hex[c][2] \in Char
               /\ isxdigit(Hex[c][1]) /\ isxdigit(Hex[c][2])
    <3>1. Hex[c][1] = a /\ Hex[c][2] = b
      BY <2>1
    <3>2. a \in Char /\ b \in Char
      BY DEF Char
    <3> QED
      BY <2>1, <3>1, <3>2 DEF isxdigit
  <2> QED
    BY <1>1, <1>2, <2>1
<1>4. ASSUME NEW c \in DOMAIN Hex, NEW d \in DOMAIN Hex, Hex[c] = Hex[d] PROVE c = d
  <2>1. Hex[c][1] = Hex[d][1] /\ Hex[c][2] = Hex[d][2]
    BY <1>4
  <2> QED
    BY <1>1, <1>2, <2>1
<1> QED
  BY <1>1, <1>3, <1>4

(* A round of uh_urlencode keeps the types. *)
LEMMA EncodeType ==
    ASSUME NEW r \in EncodeState, NEW blen \in Nat, NEW c \in Char
    PROVE  EncodeChar(r, blen, c) \in EncodeState
<1>1. r.text \in Seq(Char) /\ r.rc \in {0, -1}
  BY DEF EncodeState
<1>2. Append(r.text, c) \in Seq(Char)
  BY <1>1
<1>3. c \in DOMAIN Hex => Append(Append(Append(r.text, "%"), Hex[c][1]), Hex[c][2]) \in Seq(Char)
  <2>1. "%" \in Char
    BY DEF Char
  <2> QED
    BY <1>1, <2>1, HexFacts
<1> QED
  BY <1>1, <1>2, <1>3 DEF EncodeChar, EncodeState

(* The loop of uh_urlencode *)
LEMMA EncodingDef ==
    ASSUME NEW blen \in Nat, NEW src \in Seq(Char), NEW e, e = Encoding(blen, src)
    PROVE  /\ \A i \in 0..Len(src) : e[i] \in EncodeState
           /\ e[0] = [text |-> <<>>, rc |-> 0]
           /\ \A i \in 1..Len(src) : e[i] = EncodeChar(e[i - 1], blen, src[i])
<1> DEFINE n == Len(src)
           a == [text |-> <<>>, rc |-> 0]
           step == [i \in 1..n |-> [r \in EncodeState |-> EncodeChar(r, blen, src[i])]]
           Round(f) == [i \in 0..n |-> IF i = 0 THEN a ELSE EncodeChar(f[i - 1], blen, src[i])]
<1>1. n \in Nat /\ a \in EncodeState
  BY DEF EncodeState
<1>2. step \in [1..n -> [EncodeState -> EncodeState]]
  <2>1. \A i \in 1..n : src[i] \in Char
    OBVIOUS
  <2> QED
    BY EncodeType, <2>1
<1>3. PICK f \in [0..n -> EncodeState] : IsRun(f, n, a, step)
  <2> HIDE DEF a, step, n
  <2> QED BY <1>1, <1>2, LoopExists
<1>4. f = Round(f)
  <2>1. ASSUME NEW i \in 1..n PROVE f[i] = EncodeChar(f[i - 1], blen, src[i])
    <3>1. f[i - 1] \in EncodeState
      OBVIOUS
    <3> QED
      BY <1>3, <3>1 DEF IsRun
  <2> HIDE DEF a
  <2> QED
    BY <1>1, <1>3, <2>1 DEF IsRun
<1>5. e = Round(e)
  <2>1. e = CHOOSE g : g = Round(g)
    BY DEF Encoding
  <2> HIDE DEF Round
  <2> QED BY <1>4, <2>1
<1>6. e[0] = a /\ \A i \in 1..n : e[i] = EncodeChar(e[i - 1], blen, src[i])
  <2> HIDE DEF a
  <2> QED BY <1>1, <1>5
<1> DEFINE T == {i \in 0..n : e[i] \in EncodeState}
<1>7. \A i \in 0..n : i \in T
  <2>1. 0 \in T
    BY <1>1, <1>6
  <2>2. ASSUME NEW i \in 1..n, i - 1 \in T PROVE i \in T
    <3>1. e[i - 1] \in EncodeState /\ src[i] \in Char
      BY <2>2
    <3> QED
      BY <1>6, <3>1, EncodeType
  <2> HIDE DEF T, n
  <2> QED
    BY <1>1, <2>1, <2>2, Rounds
<1> QED
  BY <1>6, <1>7

(* What may come of decoding, the digits that are not met included. *)
Decoded == Char \cup {Unhex(a, b) : a, b \in Char}
DecodeState == [text : Seq(Decoded), rc : {0, -1, -2}, skip : {0, 1, 2}]

(* A round of uh_urldecode keeps the types. *)
LEMMA DecodeType ==
    ASSUME NEW r \in DecodeState, NEW blen \in Nat, NEW src \in Seq(Char), NEW i \in 1..Len(src)
    PROVE  DecodeChar(r, blen, src, i) \in DecodeState
<1>1. r = [text |-> r.text, rc |-> r.rc, skip |-> r.skip]
  BY DEF DecodeState
<1>2. r.text \in Seq(Decoded) /\ r.rc \in {0, -1, -2} /\ r.skip \in {0, 1, 2}
  BY DEF DecodeState
<1>3. Append(r.text, src[i]) \in Seq(Decoded)
  <2>1. src[i] \in Decoded
    BY DEF Decoded
  <2> QED
    BY <1>2, <2>1
<1>4. i + 2 <= Len(src) => Append(r.text, Unhex(src[i + 1], src[i + 2])) \in Seq(Decoded)
  <2>1. SUFFICES ASSUME i + 2 <= Len(src) PROVE Unhex(src[i + 1], src[i + 2]) \in Decoded
    BY <1>2
  <2>2. src[i + 1] \in Char /\ src[i + 2] \in Char
    BY <2>1
  <2> QED
    BY <2>2 DEF Decoded
<1> QED
  BY <1>1, <1>2, <1>3, <1>4 DEF DecodeChar, DecodeState

(* The loop of uh_urldecode *)
LEMMA DecodingDef ==
    ASSUME NEW blen \in Nat, NEW src \in Seq(Char), NEW e, e = Decoding(blen, src)
    PROVE  /\ \A i \in 0..Len(src) : e[i] \in DecodeState
           /\ e[0] = [text |-> <<>>, rc |-> 0, skip |-> 0]
           /\ \A i \in 1..Len(src) : e[i] = DecodeChar(e[i - 1], blen, src, i)
<1> DEFINE n == Len(src)
           a == [text |-> <<>>, rc |-> 0, skip |-> 0]
           step == [i \in 1..n |-> [r \in DecodeState |-> DecodeChar(r, blen, src, i)]]
           Round(f) == [i \in 0..n |-> IF i = 0 THEN a ELSE DecodeChar(f[i - 1], blen, src, i)]
<1>1. n \in Nat /\ a \in DecodeState
  BY DEF DecodeState
<1>2. step \in [1..n -> [DecodeState -> DecodeState]]
  BY DecodeType
<1>3. PICK f \in [0..n -> DecodeState] : IsRun(f, n, a, step)
  <2> HIDE DEF a, step, n
  <2> QED BY <1>1, <1>2, LoopExists
<1>4. f = Round(f)
  <2>1. ASSUME NEW i \in 1..n PROVE f[i] = DecodeChar(f[i - 1], blen, src, i)
    <3>1. f[i - 1] \in DecodeState
      OBVIOUS
    <3> QED
      BY <1>3, <3>1 DEF IsRun
  <2> HIDE DEF a
  <2> QED
    BY <1>1, <1>3, <2>1 DEF IsRun
<1>5. e = Round(e)
  <2>1. e = CHOOSE g : g = Round(g)
    BY DEF Decoding
  <2> HIDE DEF Round
  <2> QED BY <1>4, <2>1
<1>6. e[0] = a /\ \A i \in 1..n : e[i] = DecodeChar(e[i - 1], blen, src, i)
  <2> HIDE DEF a
  <2> QED BY <1>1, <1>5
<1> DEFINE T == {i \in 0..n : e[i] \in DecodeState}
<1>7. \A i \in 0..n : i \in T
  <2>1. 0 \in T
    BY <1>1, <1>6
  <2>2. ASSUME NEW i \in 1..n, i - 1 \in T PROVE i \in T
    <3>1. e[i - 1] \in DecodeState
      BY <2>2
    <3> QED
      BY <1>6, <3>1, DecodeType
  <2> HIDE DEF T, n
  <2> QED
    BY <1>1, <2>1, <2>2, Rounds
<1> QED
  BY <1>6, <1>7

(* How many characters the encoding of a character has, and that of the      *)
(* first i.                                                                  *)
Width(c) == IF c \in DOMAIN Hex THEN 3 ELSE 1
Plain(src, i) == {k \in 1..i : src[k] \notin DOMAIN Hex}
Size(src, i) == 3 * i - 2 * Cardinality(Plain(src, i))

(* The size grows by the width of the next character. *)
LEMMA SizeStep ==
    ASSUME NEW src \in Seq(Char), NEW i \in 1..Len(src)
    PROVE  /\ Size(src, i) \in Int /\ Size(src, i - 1) \in Int
           /\ Size(src, i) = Size(src, i - 1) + Width(src[i])
<1>1. /\ IsFiniteSet(Plain(src, i - 1)) /\ Cardinality(Plain(src, i - 1)) \in Nat
  <2>1. IsFiniteSet(1..(i - 1))
    BY FS_Interval
  <2> QED
    BY <2>1, FS_Subset, FS_CardinalityType DEF Plain
<1>2. CASE src[i] \in DOMAIN Hex
  <2>1. Plain(src, i) = Plain(src, i - 1)
    BY <1>2 DEF Plain
  <2>2. Width(src[i]) = 3
    BY <1>2 DEF Width
  <2> DEFINE p == Cardinality(Plain(src, i - 1))
  <2>3. /\ Size(src, i) = 3 * i - 2 * p
        /\ Size(src, i - 1) = 3 * (i - 1) - 2 * p
    BY <2>1 DEF Size
  <2>4. p \in Nat /\ i \in Int
    BY <1>1
  <2> HIDE DEF p
  <2> QED
    BY <2>2, <2>3, <2>4
<1>3. CASE src[i] \notin DOMAIN Hex
  <2>1. Plain(src, i) = Plain(src, i - 1) \cup {i} /\ i \notin Plain(src, i - 1)
    BY <1>3 DEF Plain
  <2>2. Cardinality(Plain(src, i)) = Cardinality(Plain(src, i - 1)) + 1
    BY <1>1, <2>1, FS_AddElement
  <2>3. Width(src[i]) = 1
    BY <1>3 DEF Width
  <2> DEFINE p == Cardinality(Plain(src, i - 1))
  <2>4. /\ Size(src, i) = 3 * i - 2 * (p + 1)
        /\ Size(src, i - 1) = 3 * (i - 1) - 2 * p
    BY <2>2 DEF Size
  <2>5. p \in Nat /\ i \in Int
    BY <1>1
  <2> HIDE DEF p
  <2> QED
    BY <2>3, <2>4, <2>5
<1> QED
  BY <1>2, <1>3

LEMMA SizeZero == ASSUME NEW src PROVE Size(src, 0) = 0
<1>1. Plain(src, 0) = {}
  BY DEF Plain
<1> QED
  BY <1>1, FS_EmptySet DEF Size

(* One round adds what the character needs, or fails and adds nothing. *)
Extends(s, t) == Len(s) <= Len(t) /\ \A k \in 1..Len(s) : t[k] = s[k]

LEMMA EncodeRound ==
    ASSUME NEW r \in EncodeState, NEW blen \in Nat, NEW c \in Char,
           NEW s, s = EncodeChar(r, blen, c)
    PROVE  /\ s.rc = 0 => r.rc = 0 /\ Len(s.text) = Len(r.text) + Width(c) /\ Len(s.text) <= blen
           /\ s.rc # 0 => s.text = r.text
           /\ (r.rc = 0 /\ Len(r.text) + Width(c) <= blen) => s.rc = 0
           /\ Len(r.text) \in Nat /\ Len(s.text) \in Nat
           /\ Extends(r.text, s.text)
           /\ (s.rc = 0 /\ c \notin DOMAIN Hex) => s.text[Len(r.text) + 1] = c
           /\ (s.rc = 0 /\ c \in DOMAIN Hex) => /\ s.text[Len(r.text) + 1] = "%"
                                                /\ s.text[Len(r.text) + 2] = Hex[c][1]
                                                /\ s.text[Len(r.text) + 3] = Hex[c][2]
<1>1. r.text \in Seq(Char) /\ r.rc \in {0, -1} /\ "%" \in Char
  BY DEF EncodeState, Char
<1>2. CASE s = r /\ r.rc # 0
  BY <1>1, <1>2 DEF Extends
<1>3. CASE /\ s.rc = -1 /\ r.rc = 0 /\ s.text = r.text
           /\ Len(r.text) + Width(c) > blen
  <2>1. s.rc # 0 /\ Len(r.text) \in Nat /\ Width(c) \in Nat /\ Extends(r.text, s.text)
    BY <1>1, <1>3 DEF Extends, Width
  <2>2. ~(Len(r.text) + Width(c) <= blen)
    BY <1>3, <2>1
  <2> QED
    BY <1>3, <2>1, <2>2
<1>4. CASE /\ r.rc = 0 /\ s.rc = 0 /\ c \notin DOMAIN Hex /\ s.text = Append(r.text, c)
           /\ Len(r.text) < blen
  BY <1>1, <1>4 DEF Extends, Width
<1>5. CASE /\ r.rc = 0 /\ s.rc = 0 /\ c \in DOMAIN Hex /\ Len(r.text) + 3 <= blen
           /\ s.text = Append(Append(Append(r.text, "%"), Hex[c][1]), Hex[c][2])
  <2>1. Hex[c][1] \in Char /\ Hex[c][2] \in Char
    BY <1>5, HexFacts
  <2> QED
    BY <1>1, <1>5, <2>1 DEF Extends, Width
<1>6. CASE r.rc # 0
  BY <1>2, <1>6 DEF EncodeChar
<1>7. CASE r.rc = 0 /\ c \notin DOMAIN Hex
  <2>1. CASE Len(r.text) < blen
    BY <1>4, <1>7, <2>1 DEF EncodeChar
  <2>2. CASE ~(Len(r.text) < blen)
    <3>1. Len(r.text) + Width(c) > blen
      BY <1>1, <1>7, <2>2 DEF Width
    <3> QED
      BY <1>3, <1>7, <2>2, <3>1 DEF EncodeChar
  <2> QED
    BY <2>1, <2>2
<1>8. CASE r.rc = 0 /\ c \in DOMAIN Hex
  <2>1. CASE Len(r.text) + 3 <= blen
    BY <1>5, <1>8, <2>1 DEF EncodeChar
  <2>2. CASE ~(Len(r.text) + 3 <= blen)
    <3>1. Len(r.text) + Width(c) > blen
      BY <1>1, <1>8, <2>2 DEF Width
    <3> QED
      BY <1>3, <1>8, <2>2, <3>1 DEF EncodeChar
  <2> QED
    BY <2>1, <2>2
<1> QED
  BY <1>6, <1>7, <1>8

(* Encoding fails exactly when the buffer is too small. *)
LEMMA EncodingSize ==
    ASSUME NEW blen \in Nat, NEW src \in Seq(Char), NEW e, e = Encoding(blen, src)
    PROVE  \A i \in 0..Len(src) : /\ (e[i].rc = 0) <=> (Size(src, i) <= blen)
                                  /\ e[i].rc = 0 => Len(e[i].text) = Size(src, i)
                                  /\ Len(e[i].text) <= blen
<1> DEFINE n == Len(src)
           Right(k) == /\ (e[k].rc = 0) <=> (Size(src, k) <= blen)
                       /\ e[k].rc = 0 => Len(e[k].text) = Size(src, k)
                       /\ Len(e[k].text) <= blen
           T == {k \in 0..n : Right(k)}
<1>1. 0 \in T
  BY EncodingDef, SizeZero
<1>2. ASSUME NEW k \in 1..n, k - 1 \in T PROVE k \in T
  <2> DEFINE r == e[k - 1]
             s == e[k]
  <2>1. r \in EncodeState /\ src[k] \in Char /\ s = EncodeChar(r, blen, src[k])
    BY EncodingDef
  <2>2. Right(k - 1)
    BY <1>2
  <2>3. /\ Size(src, k) \in Int /\ Size(src, k - 1) \in Int
        /\ Size(src, k) = Size(src, k - 1) + Width(src[k])
    BY SizeStep
  <2>4. Width(src[k]) \in {1, 3}
    BY DEF Width
  <2>5. /\ s.rc = 0 => r.rc = 0 /\ Len(s.text) = Len(r.text) + Width(src[k]) /\ Len(s.text) <= blen
        /\ s.rc # 0 => s.text = r.text
        /\ (r.rc = 0 /\ Len(r.text) + Width(src[k]) <= blen) => s.rc = 0
        /\ Len(r.text) \in Nat
    <3> HIDE DEF r, s
    <3> QED
      BY <2>1, EncodeRound
  <2>6. Right(k)
    BY <2>2, <2>3, <2>4, <2>5
  <2> QED
    BY <2>6
<1>3. n \in Nat
  OBVIOUS
<1>4. \A k \in 0..n : k \in T
  <2> HIDE DEF T, n
  <2> QED
    BY <1>1, <1>2, <1>3, Rounds
<1> QED
  BY <1>4

(* A text that extends another extends what that one extends. *)
LEMMA ExtendsAgain ==
    ASSUME NEW s, NEW t, NEW u, Len(s) \in Nat, Len(t) \in Nat, Len(u) \in Nat,
           Extends(s, t), Extends(t, u)
    PROVE  Extends(s, u)
<1>1. Len(s) <= Len(u)
  BY DEF Extends
<1>2. ASSUME NEW k \in 1..Len(s) PROVE u[k] = s[k]
  BY DEF Extends
<1> QED
  BY <1>1, <1>2 DEF Extends

(* The text only grows, and a failure stays one. *)
LEMMA EncodingGrows ==
    ASSUME NEW blen \in Nat, NEW src \in Seq(Char), NEW e, e = Encoding(blen, src),
           NEW i \in 0..Len(src)
    PROVE  /\ Extends(e[i].text, e[Len(src)].text)
           /\ e[Len(src)].rc = 0 => e[i].rc = 0
<1> DEFINE n == Len(src)
           Grown(j, k) == Extends(e[j].text, e[k].text) /\ (e[k].rc = 0 => e[j].rc = 0)
           T == {k \in 0..n : \A j \in 0..k : Grown(j, k)}
<1>1. 0 \in T
  BY EncodingDef DEF Extends
<1>2. ASSUME NEW k \in 1..n, k - 1 \in T PROVE k \in T
  <2>1. /\ \A j \in 0..n : e[j] \in EncodeState
        /\ src[k] \in Char /\ e[k] = EncodeChar(e[k - 1], blen, src[k])
    BY EncodingDef
  <2>2. \A j \in 0..n : Len(e[j].text) \in Nat
    BY <2>1 DEF EncodeState
  <2>3. Grown(k - 1, k)
    BY <2>1, EncodeRound
  <2>4. ASSUME NEW j \in 0..k PROVE Grown(j, k)
    <3>1. CASE j = k
      BY <2>2, <3>1 DEF Extends
    <3>2. CASE j # k
      <4>1. Grown(j, k - 1) /\ j \in 0..n /\ k - 1 \in 0..n /\ k \in 0..n
        BY <1>2, <3>2
      <4>2. Len(e[j].text) \in Nat /\ Len(e[k - 1].text) \in Nat /\ Len(e[k].text) \in Nat
        BY <2>2, <4>1
      <4> QED
        BY <2>3, <4>1, <4>2, ExtendsAgain
    <3> QED
      BY <3>1, <3>2
  <2> QED
    BY <2>4
<1>3. n \in Nat
  OBVIOUS
<1>4. \A k \in 0..n : k \in T
  <2> HIDE DEF T, n
  <2> QED
    BY <1>1, <1>2, <1>3, Rounds
<1> QED
  BY <1>3, <1>4

(* The digits of a character are read as that character. *)
LEMMA Unhexed == ASSUME NEW c \in DOMAIN Hex PROVE Unhex(Hex[c][1], Hex[c][2]) = c
<1>1. Hex[c] = <<Hex[c][1], Hex[c][2]>>
  BY HexFacts
<1>2. \A d \in DOMAIN Hex : Hex[d] = <<Hex[c][1], Hex[c][2]>> => d = c
  BY <1>1, HexFacts
<1> QED
  BY <1>1, <1>2 DEF Unhex

(* The rounds of uh_urldecode at a character. *)
Reading(s, skip) == [text |-> s, rc |-> 0, skip |-> skip]

(* A round at a character that is not encoded. *)
LEMMA DecodePlain ==
    ASSUME NEW s \in Seq(Char), NEW m \in Nat, Len(s) < m, NEW txt, NEW i, txt[i] # "%"
    PROVE  DecodeChar(Reading(s, 0), m, txt, i) = Reading(Append(s, txt[i]), 0)
<1> DEFINE r == Reading(s, 0)
<1>1. r.rc = 0 /\ r.skip = 0 /\ r.text = s /\ ~(r.skip > 0) /\ ~(Len(r.text) >= m)
  BY DEF Reading
<1> QED
  BY <1>1 DEF DecodeChar, Reading

(* A round at a "%" with its digits. *)
LEMMA DecodeHex ==
    ASSUME NEW s \in Seq(Char), NEW m \in Nat, Len(s) < m, NEW txt, NEW i, txt[i] = "%",
           i + 2 <= Len(txt), isxdigit(txt[i + 1]), isxdigit(txt[i + 2])
    PROVE  DecodeChar(Reading(s, 0), m, txt, i)
             = Reading(Append(s, Unhex(txt[i + 1], txt[i + 2])), 2)
<1> DEFINE r == Reading(s, 0)
<1>1. r.rc = 0 /\ r.skip = 0 /\ r.text = s /\ ~(r.skip > 0) /\ ~(Len(r.text) >= m)
  BY DEF Reading
<1> QED
  BY <1>1 DEF DecodeChar, Reading

(* A round at a digit that was already read. *)
LEMMA DecodeSkip ==
    ASSUME NEW s, NEW m, NEW txt, NEW i
    PROVE  /\ DecodeChar(Reading(s, 2), m, txt, i) = Reading(s, 1)
           /\ DecodeChar(Reading(s, 1), m, txt, i) = Reading(s, 0)
  BY DEF DecodeChar, Reading

(* txt has the encoding of c behind k. *)
Codes(txt, k, c) ==
    /\ k + Width(c) <= Len(txt)
    /\ c \notin DOMAIN Hex => txt[k + 1] = c
    /\ c \in DOMAIN Hex => txt[k + 1] = "%" /\ txt[k + 2] = Hex[c][1] /\ txt[k + 3] = Hex[c][2]

(* A code that stands in a text stands in every longer one. *)
LEMMA CodesExtends ==
    ASSUME NEW s, NEW t, NEW k \in Nat, NEW c, Len(s) \in Nat, Len(t) \in Nat,
           Codes(s, k, c), Extends(s, t)
    PROVE  Codes(t, k, c)
<1>1. CASE c \in DOMAIN Hex
  BY <1>1 DEF Codes, Extends, Width
<1>2. CASE c \notin DOMAIN Hex
  BY <1>2 DEF Codes, Extends, Width
<1> QED
  BY <1>1, <1>2

IsDecoding(d, m, txt) == \A i \in 1..Len(txt) : d[i] = DecodeChar(d[i - 1], m, txt, i)

(* The rounds over the code of one character read that character. *)
LEMMA DecodeRounds ==
    ASSUME NEW m \in Nat, NEW txt \in Seq(Char), NEW d, IsDecoding(d, m, txt),
           NEW k \in Nat, NEW s \in Seq(Char), Len(s) < m,
           d[k] = Reading(s, 0),
           NEW c, Codes(txt, k, c)
    PROVE  d[k + Width(c)] = Reading(Append(s, c), 0)
<1>1. CASE c \notin DOMAIN Hex
  <2>1. Width(c) = 1 /\ k + 1 \in 1..Len(txt) /\ (k + 1) - 1 = k /\ txt[k + 1] = c
    BY <1>1 DEF Codes, Width
  <2>2. c # "%"
    BY <1>1, HexFacts
  <2>3. d[k + 1] = DecodeChar(d[k], m, txt, k + 1)
    BY <2>1 DEF IsDecoding
  <2> QED
    BY <2>1, <2>2, <2>3, DecodePlain
<1>2. CASE c \in DOMAIN Hex
  <2>1. /\ Width(c) = 3 /\ k + 3 <= Len(txt)
        /\ txt[k + 1] = "%" /\ txt[k + 2] = Hex[c][1] /\ txt[k + 3] = Hex[c][2]
    BY <1>2 DEF Codes, Width
  <2>2. /\ isxdigit(txt[k + 2]) /\ isxdigit(txt[k + 3]) /\ Unhex(txt[k + 2], txt[k + 3]) = c
    BY <1>2, <2>1, HexFacts, Unhexed
  <2>3. /\ k + 1 \in 1..Len(txt) /\ k + 2 \in 1..Len(txt) /\ k + 3 \in 1..Len(txt)
        /\ (k + 1) - 1 = k /\ (k + 2) - 1 = k + 1 /\ (k + 3) - 1 = k + 2
        /\ (k + 1) + 1 = k + 2 /\ (k + 1) + 2 = k + 3
    <3>1. k + 3 <= Len(txt) /\ Len(txt) \in Nat
      BY <2>1
    <3> QED
      BY <3>1
  <2>4. d[k + 1] = DecodeChar(d[k], m, txt, k + 1)
    BY <2>3 DEF IsDecoding
  <2>5. d[k + 1] = Reading(Append(s, c), 2)
    <3>1. /\ txt[k + 1] = "%" /\ (k + 1) + 2 <= Len(txt) /\ Len(s) \in Nat
          /\ isxdigit(txt[(k + 1) + 1]) /\ isxdigit(txt[(k + 1) + 2])
          /\ Unhex(txt[(k + 1) + 1], txt[(k + 1) + 2]) = c
      BY <2>1, <2>2, <2>3
    <3> QED
      BY <2>4, <3>1, DecodeHex
  <2>6. d[k + 2] = Reading(Append(s, c), 1)
    <3>1. d[k + 2] = DecodeChar(d[k + 1], m, txt, k + 2)
      BY <2>3 DEF IsDecoding
    <3> QED
      BY <2>5, <3>1, DecodeSkip
  <2>7. d[k + 3] = Reading(Append(s, c), 0)
    <3>1. d[k + 3] = DecodeChar(d[k + 2], m, txt, k + 3)
      BY <2>3 DEF IsDecoding
    <3> QED
      BY <2>6, <3>1, DecodeSkip
  <2> QED
    BY <2>1, <2>7
<1> QED
  BY <1>1, <1>2

(* Decoding with room for the text gives back what was encoded.              *)
LEMMA DecodingInverts ==
    ASSUME NEW blen \in Nat, NEW src \in Seq(Char), NEW m \in Nat, Len(src) <= m,
           uh_urlencode(blen, src).rc = 0
    PROVE  uh_urldecode(m, uh_urlencode(blen, src).text) = [text |-> src, rc |-> 0]
<1> DEFINE n == Len(src)
           e == Encoding(blen, src)
           txt == e[n].text
           d == Decoding(m, txt)
           Begin(i) == Reading(SubSeq(src, 1, i), 0)
           T == {i \in 0..n : d[Len(e[i].text)] = Begin(i)}
<1>1. /\ n \in Nat
      /\ e[0] = [text |-> <<>>, rc |-> 0]
      /\ \A i \in 0..n : e[i] \in EncodeState
      /\ \A i \in 1..n : e[i] = EncodeChar(e[i - 1], blen, src[i])
  BY EncodingDef
<1>2. txt \in Seq(Char) /\ Len(txt) \in Nat /\ \A i \in 0..n : Len(e[i].text) \in Nat
  BY <1>1 DEF EncodeState
<1>3. \A i \in 0..n : Extends(e[i].text, txt) /\ e[i].rc = 0
  <2>1. e[n].rc = 0
    BY DEF uh_urlencode
  <2> QED
    BY <2>1, EncodingGrows
<1> HIDE DEF e
<1>4. /\ d[0] = Reading(<<>>, 0)
      /\ IsDecoding(d, m, txt)
  <2> HIDE DEF txt
  <2> QED
    BY <1>2, DecodingDef DEF IsDecoding, Reading
<1> HIDE DEF d, txt
<1>5. 0 \in T
  <2>1. Len(e[0].text) = 0 /\ SubSeq(src, 1, 0) = <<>>
    BY <1>1
  <2>2. d[Len(e[0].text)] = Begin(0)
    BY <1>4, <2>1
  <2> QED
    BY <1>1, <2>2
<1>6. ASSUME NEW i \in 1..n, i - 1 \in T PROVE i \in T
  <2> DEFINE k == Len(e[i - 1].text)
             s == SubSeq(src, 1, i - 1)
             c == src[i]
  <2>1. i - 1 \in 0..n /\ i \in 0..n /\ c \in Char /\ d[k] = Reading(s, 0)
    BY <1>6
  <2>2. s \in Seq(Char) /\ Len(s) \in Nat /\ Len(s) = i - 1 /\ Len(s) < m
    BY <1>1
  <2>3. Append(s, c) = SubSeq(src, 1, i)
    BY <1>1, <2>1, <2>2
  <2>4. k \in Nat /\ Len(e[i].text) \in Nat /\ Extends(e[i].text, txt)
    BY <1>2, <1>3, <2>1
  <2>5. Len(e[i].text) = k + Width(c) /\ Codes(e[i].text, k, c)
    <3>1. /\ e[i - 1] \in EncodeState /\ e[i] = EncodeChar(e[i - 1], blen, c) /\ e[i].rc = 0
      BY <1>1, <1>3, <2>1
    <3> HIDE DEF c
    <3>2. Width(c) \in Nat
      BY DEF Width
    <3>3. /\ Len(e[i].text) = k + Width(c)
          /\ c \notin DOMAIN Hex => e[i].text[k + 1] = c
          /\ c \in DOMAIN Hex => /\ e[i].text[k + 1] = "%" /\ e[i].text[k + 2] = Hex[c][1]
                                 /\ e[i].text[k + 3] = Hex[c][2]
      <4> DEFINE r == e[i - 1]
                 u == e[i]
      <4> HIDE DEF r, u
      <4>1. r \in EncodeState /\ u = EncodeChar(r, blen, c) /\ u.rc = 0 /\ c \in Char
        BY <2>1, <3>1 DEF r, u
      <4>2. /\ Len(u.text) = Len(r.text) + Width(c)
            /\ c \notin DOMAIN Hex => u.text[Len(r.text) + 1] = c
            /\ c \in DOMAIN Hex => /\ u.text[Len(r.text) + 1] = "%"
                                   /\ u.text[Len(r.text) + 2] = Hex[c][1]
                                   /\ u.text[Len(r.text) + 3] = Hex[c][2]
        BY <4>1, EncodeRound
      <4> QED
        BY <4>2 DEF r, u
    <3> HIDE DEF k
    <3> QED
      BY <2>4, <3>2, <3>3 DEF Codes
  <2>6. Codes(txt, k, c)
    <3> HIDE DEF k, c
    <3> QED
      BY <1>2, <2>4, <2>5, CodesExtends
  <2>7. d[k + Width(c)] = Reading(Append(s, c), 0)
    <3> HIDE DEF k, c, s
    <3> QED
      BY <1>2, <1>4, <2>1, <2>2, <2>4, <2>6, DecodeRounds
  <2>8. d[Len(e[i].text)] = Begin(i)
    <3> HIDE DEF k, c, s
    <3> QED
      BY <2>3, <2>5, <2>7
  <2> QED
    BY <2>1, <2>8
<1>7. \A i \in 0..n : i \in T
  <2> HIDE DEF T, n
  <2> QED
    BY <1>1, <1>5, <1>6, Rounds
<1>8. d[Len(txt)] = Reading(src, 0)
  <2>1. d[Len(e[n].text)] = Begin(n)
    BY <1>1, <1>7
  <2>2. SubSeq(src, 1, n) = src
    BY SubSeqFull
  <2> QED
    BY <2>1, <2>2 DEF txt
<1> QED
  BY <1>8 DEF uh_urldecode, uh_urlencode, d, txt, e, Reading

---------------------------------------------------------------------------
(* FlattenSeq *)

Added(r, ss, i) == IF i = 1 THEN ss[i] ELSE r \o ss[i]

(* The sums of a sequence of texts exist, as FlattenSeq takes them. *)
LEMMA FlatteningExists ==
    ASSUME NEW C, NEW ss \in Seq(Seq(C)), Len(ss) # 0
    PROVE  \E f : /\ FlattenSeq(ss) = f[Len(ss)]
                  /\ \A i \in 1..Len(ss) : f[i] \in Seq(C) /\ f[i] = Added(f[i - 1], ss, i)
<1> DEFINE n == Len(ss)
           S == Seq(C)
           step == [i \in 1..n |-> [r \in S |-> Added(r, ss, i)]]
           Round(f) == [i \in 1..n |-> Added(f[i - 1], ss, i)]
           flat == CHOOSE f : f = Round(f)
<1>1. n \in Nat /\ n # 0 /\ <<>> \in S
  OBVIOUS
<1>2. \A i \in 1..n : \A r \in S : Added(r, ss, i) \in S
  BY DEF Added
<1>3. \A i \in 1..n : i = 1 => \A q, r : Added(q, ss, i) = Added(r, ss, i)
  BY DEF Added
<1>4. FlattenSeq(ss) = flat[n]
  BY DEF FlattenSeq, Added
<1> HIDE DEF n, S
<1>5. step \in [1..n -> [S -> S]]
  BY <1>2
<1>6. PICK g \in [0..n -> S] : IsRun(g, n, <<>>, step)
  <2> HIDE DEF step
  <2> QED
    BY <1>1, <1>5, LoopExists
<1> DEFINE f == [i \in 1..n |-> g[i]]
<1>7. \A i \in 1..n : g[i] = Added(g[i - 1], ss, i)
  <2>1. \A i \in 1..n : g[i] = step[i][g[i - 1]] /\ g[i - 1] \in S
    BY <1>1, <1>6 DEF IsRun
  <2> QED
    BY <2>1
<1>8. f = Round(f)
  <2>1. ASSUME NEW i \in 1..n PROVE g[i] = Added(f[i - 1], ss, i)
    <3>1. CASE i = 1
      BY <1>3, <1>7, <3>1
    <3>2. CASE i # 1
      <4>1. f[i - 1] = g[i - 1]
        BY <1>1, <3>2
      <4> QED
        BY <1>7, <4>1
    <3> QED
      BY <3>1, <3>2
  <2> QED
    BY <2>1
<1>9. flat = Round(flat)
  <2> HIDE DEF Round, f
  <2> QED
    BY <1>8
<1> HIDE DEF flat
<1>10. \A i \in 1..n : flat[i] = Added(flat[i - 1], ss, i)
  BY <1>9
<1> DEFINE T == {i \in 0..n : i = 0 \/ flat[i] \in S}
<1>11. \A i \in 0..n : i \in T
  <2>1. 0 \in T
    BY <1>1
  <2>2. ASSUME NEW i \in 1..n, i - 1 \in T PROVE i \in T
    <3>1. CASE i = 1
      <4>1. Added(<<>>, ss, i) \in S /\ Added(flat[i - 1], ss, i) = Added(<<>>, ss, i)
        BY <1>1, <1>2, <1>3, <3>1
      <4> QED
        BY <1>1, <1>10, <4>1
    <3>2. CASE i # 1
      <4>1. flat[i - 1] \in S
        BY <1>1, <2>2, <3>2
      <4> QED
        BY <1>1, <1>2, <1>10, <4>1
    <3> QED
      BY <3>1, <3>2
  <2> HIDE DEF T
  <2> QED
    BY <1>1, <2>1, <2>2, Rounds
<1>12. \A i \in 1..n : flat[i] \in S /\ flat[i] = Added(flat[i - 1], ss, i)
  BY <1>1, <1>10, <1>11
<1> QED
  BY <1>4, <1>12 DEF n, S

(* A sequence of texts is put together text by text. *)
LEMMA Flatten ==
    ASSUME NEW C, NEW ss \in Seq(Seq(C))
    PROVE  /\ FlattenSeq(ss) \in Seq(C)
           /\ ss = <<>> => FlattenSeq(ss) = <<>>
           /\ \A s \in Seq(C) : FlattenSeq(Append(ss, s)) = FlattenSeq(ss) \o s
<1> DEFINE n == Len(ss)
           S == Seq(C)
<1>1. n \in Nat /\ <<>> \in S
  OBVIOUS
<1>2. n = 0 => ss = <<>> /\ FlattenSeq(ss) = <<>>
  BY DEF FlattenSeq
<1>3. ss = <<>> => n = 0
  OBVIOUS
<1>4. n # 0 => FlattenSeq(ss) \in S
  <2>1. SUFFICES ASSUME n # 0 PROVE FlattenSeq(ss) \in S
    OBVIOUS
  <2>2. PICK f : /\ FlattenSeq(ss) = f[n]
                 /\ \A i \in 1..n : f[i] \in S /\ f[i] = Added(f[i - 1], ss, i)
    BY <2>1, FlatteningExists
  <2>3. n \in 1..n
    BY <1>1, <2>1
  <2> HIDE DEF n, S
  <2> QED
    BY <2>2, <2>3
<1>5. FlattenSeq(ss) \in S
  <2> HIDE DEF n, S
  <2> QED
    BY <1>1, <1>2, <1>4
<1>6. ASSUME NEW s \in S PROVE FlattenSeq(Append(ss, s)) = FlattenSeq(ss) \o s
  <2> DEFINE tt == Append(ss, s)
  <2>1. /\ tt \in Seq(S) /\ Len(tt) = n + 1 /\ Len(tt) # 0 /\ tt[n + 1] = s
        /\ \A i \in 1..n : tt[i] = ss[i]
    OBVIOUS
  <2>2. ASSUME NEW i \in 1..n PROVE \A r : Added(r, tt, i) = Added(r, ss, i)
    BY <2>1 DEF Added
  <2> HIDE DEF tt
  <2>3. PICK g : /\ FlattenSeq(tt) = g[n + 1]
                 /\ \A i \in 1..(n + 1) : g[i] \in S /\ g[i] = Added(g[i - 1], tt, i)
    BY <2>1, FlatteningExists
  <2>4. g[n + 1] = Added(g[n], tt, n + 1)
    <3>1. n + 1 \in 1..(n + 1) /\ (n + 1) - 1 = n
      BY <1>1
    <3> HIDE DEF n
    <3> QED
      BY <2>3, <3>1
  <2>5. CASE n = 0
    <3>1. Added(g[n], tt, n + 1) = s
      BY <2>1, <2>5 DEF Added
    <3>2. FlattenSeq(ss) \o s = s
      BY <1>2, <2>5
    <3> QED
      BY <2>3, <2>4, <3>1, <3>2 DEF tt
  <2>6. CASE n # 0
    <3>1. PICK f : /\ FlattenSeq(ss) = f[n]
                   /\ \A i \in 1..n : f[i] \in S /\ f[i] = Added(f[i - 1], ss, i)
      BY <2>6, FlatteningExists
    <3> DEFINE T == {i \in 0..n : i = 0 \/ f[i] = g[i]}
    <3>2. 0 \in T
      BY <1>1
    <3> HIDE DEF n, S
    <3>3. ASSUME NEW i \in 1..n, i - 1 \in T PROVE i \in T
      <4>1. i \in 1..(n + 1)
        BY <1>1
      <4>2. f[i] = Added(f[i - 1], ss, i) /\ g[i] = Added(g[i - 1], ss, i)
        BY <2>2, <2>3, <3>1, <4>1
      <4>3. CASE i = 1
        <5>1. Added(f[i - 1], ss, i) = Added(g[i - 1], ss, i)
          BY <4>3 DEF Added
        <5> QED
          BY <1>1, <4>2, <5>1
      <4>4. CASE i # 1
        <5>1. f[i - 1] = g[i - 1]
          BY <1>1, <3>3, <4>4
        <5> QED
          BY <1>1, <4>2, <5>1
      <4> QED
        BY <4>3, <4>4
    <3>4. \A i \in 0..n : i \in T
      <4> HIDE DEF T
      <4> QED
        BY <1>1, <3>2, <3>3, Rounds
    <3>5. f[n] = g[n]
      BY <1>1, <2>6, <3>4
    <3>6. Added(g[n], tt, n + 1) = g[n] \o s
      <4>1. n + 1 # 1
        BY <1>1, <2>6
      <4> QED
        BY <2>1, <4>1 DEF Added
    <3> QED
      BY <2>3, <2>4, <3>1, <3>5, <3>6 DEF tt
  <2> QED
    BY <2>5, <2>6
<1> QED
  BY <1>2, <1>3, <1>5, <1>6

---------------------------------------------------------------------------
(* Paths: the loop and the reference go on side by side. *)

(* A set of numbers up to n has a greatest one, which is its Max. *)
LEMMA Greatest ==
    ASSUME NEW n \in Nat, NEW T \in SUBSET (0..n), T # {}
    PROVE  Max(T) \in T /\ \A k \in T : k <= Max(T)
<1> DEFINE U == {n - k : k \in T}
<1>1. U \in SUBSET Nat /\ U # {}
  <2>1. \A k \in T : n - k \in Nat
    OBVIOUS
  <2> QED
    BY <2>1
<1>2. PICK u \in U : \A v \in U : u <= v
  BY <1>1, LeastNumber
<1>3. PICK m \in T : u = n - m
  BY <1>2
<1>4. ASSUME NEW k \in T PROVE m >= k
  <2>1. n - m <= n - k
    BY <1>2, <1>3
  <2> QED
    BY <2>1
<1>5. Max(T) \in T /\ \A k \in T : Max(T) >= k
  BY <1>4 DEF Max
<1> QED
  BY <1>5

(* The walk back ends somewhere. *)
LEMMA ParentType ==
    ASSUME NEW dest, NEW out \in Nat
    PROVE  Parent(dest, out) \in Nat
<1> DEFINE T == {k \in 0..(out - 1) : dest[k + 1] = "/"}
<1>1. CASE T = {}
  BY <1>1 DEF Parent
<1>2. CASE T # {}
  <2>1. T \in SUBSET (0..out) /\ Parent(dest, out) = Max(T) /\ \A k \in T : k \in Nat
    BY <1>2 DEF Parent
  <2> HIDE DEF T
  <2>2. Max(T) \in T
    BY <1>2, <2>1, Greatest
  <2> QED
    BY <2>1, <2>2
<1> QED
  BY <1>1, <1>2

SimplifyState == [dest : Seq(Char), out : Nat, slash : Nat]

LEMMA WrittenType ==
    ASSUME NEW dest \in Seq(Char), NEW out \in Nat, NEW c \in Char
    PROVE  Written(dest, out, c) \in Seq(Char)
  BY DEF Written

LEMMA EndedType ==
    ASSUME NEW dest, NEW slash \in Nat, NEW out \in Nat, NEW pre2, NEW pre1, NEW atEnd
    PROVE  Ended(dest, slash, out, pre2, pre1, atEnd) \in Nat
<1>1. Parent(dest, slash) \in Nat
  BY ParentType
<1> QED
  BY <1>1 DEF Ended

(* A round of buffer_path_simplify keeps the types. *)
LEMMA SimplifiedType ==
    ASSUME NEW r \in SimplifyState, NEW p \in Seq(Char), NEW i \in 1..Len(p)
    PROVE  Simplified(r, p, i) \in SimplifyState
<1>1. r.dest \in Seq(Char) /\ r.out \in Nat /\ r.slash \in Nat /\ r.out + 1 \in Nat /\ p[i] \in Char
  BY DEF SimplifyState
<1>2. Written(r.dest, r.out, p[i]) \in Seq(Char)
  BY <1>1, WrittenType
<1>3. \A pre2, atEnd :
         Ended(Written(r.dest, r.out, p[i]), r.slash, r.out + 1, pre2, p[i], atEnd) \in Nat
  BY <1>1, EndedType
<1> QED
  BY <1>1, <1>2, <1>3 DEF Simplified, SimplifyState

(* The loop of buffer_path_simplify *)
LEMMA SimplifyingDef ==
    ASSUME NEW p \in Seq(Char), NEW e, e = Simplifying(p)
    PROVE  /\ \A i \in 0..Len(p) : e[i] \in SimplifyState
           /\ e[0] = [dest |-> <<>>, out |-> 0, slash |-> 0]
           /\ \A i \in 1..Len(p) : e[i] = Simplified(e[i - 1], p, i)
<1> DEFINE n == Len(p)
           a == [dest |-> <<>>, out |-> 0, slash |-> 0]
           step == [i \in 1..n |-> [r \in SimplifyState |-> Simplified(r, p, i)]]
           Round(f) == [i \in 0..n |-> IF i = 0 THEN a ELSE Simplified(f[i - 1], p, i)]
<1>1. n \in Nat /\ a \in SimplifyState
  BY DEF SimplifyState
<1>2. step \in [1..n -> [SimplifyState -> SimplifyState]]
  BY SimplifiedType
<1>3. PICK f \in [0..n -> SimplifyState] : IsRun(f, n, a, step)
  <2> HIDE DEF a, step, n
  <2> QED BY <1>1, <1>2, LoopExists
<1>4. f = Round(f)
  <2>1. ASSUME NEW i \in 1..n PROVE f[i] = Simplified(f[i - 1], p, i)
    <3>1. f[i - 1] \in SimplifyState
      OBVIOUS
    <3> QED
      BY <1>3, <3>1 DEF IsRun
  <2> HIDE DEF a
  <2> QED
    BY <1>1, <1>3, <2>1 DEF IsRun
<1>5. e = Round(e)
  <2>1. e = CHOOSE g : g = Round(g)
    BY DEF Simplifying
  <2> HIDE DEF Round
  <2> QED BY <1>4, <2>1
<1>6. e[0] = a /\ \A i \in 1..n : e[i] = Simplified(e[i - 1], p, i)
  <2> HIDE DEF a
  <2> QED BY <1>1, <1>5
<1> DEFINE T == {i \in 0..n : e[i] \in SimplifyState}
<1>7. \A i \in 0..n : i \in T
  <2>1. 0 \in T
    BY <1>1, <1>6
  <2>2. ASSUME NEW i \in 1..n, i - 1 \in T PROVE i \in T
    <3>1. e[i - 1] \in SimplifyState
      BY <2>2
    <3> QED
      BY <1>6, <3>1, SimplifiedType
  <2> HIDE DEF T, n
  <2> QED
    BY <1>1, <2>1, <2>2, Rounds
<1> QED
  BY <1>6, <1>7

(* Names of directories, and the loop of the reference *)
Name == {s \in Seq(Char) : \A k \in 1..Len(s) : s[k] # "/"}
ReadState == [dir : Seq(Name), name : Name]

LEMMA EnterType ==
    ASSUME NEW dir \in Seq(Name), NEW name \in Name
    PROVE  Enter(dir, name) \in Seq(Name)
<1>1. dir # <<>> => Front(dir) \in Seq(Name)
  BY DEF Front
<1> QED
  BY <1>1 DEF Enter

(* A step of the reference keeps the types. *)
LEMMA ReadType ==
    ASSUME NEW r \in ReadState, NEW c \in Char
    PROVE  ReadChar(r, c) \in ReadState
<1>1. r.dir \in Seq(Name) /\ r.name \in Name /\ r.name \in Seq(Char)
  BY DEF ReadState, Name
<1>2. Enter(r.dir, r.name) \in Seq(Name) /\ <<>> \in Name
  <2>1. <<>> \in Name
    BY DEF Name
  <2> QED
    BY <1>1, <2>1, EnterType
<1>3. c # "/" => Append(r.name, c) \in Name
  <2> DEFINE x == Append(r.name, c)
  <2>1. /\ x \in Seq(Char) /\ Len(x) = Len(r.name) + 1 /\ x[Len(x)] = c
        /\ \A k \in 1..Len(r.name) : x[k] = r.name[k] /\ r.name[k] # "/"
    BY <1>1 DEF Name
  <2> HIDE DEF x
  <2>2. c # "/" => \A k \in 1..Len(x) : x[k] # "/"
    BY <1>1, <2>1
  <2>3. c # "/" => x \in Name
    BY <2>1, <2>2 DEF Name
  <2> QED
    BY <2>3 DEF x
<1> QED
  BY <1>1, <1>2, <1>3 DEF ReadChar, ReadState

(* The reading of the reference, step by step. *)
LEMMA ResolvingDef ==
    ASSUME NEW p \in Seq(Char), NEW e, e = Resolving(p)
    PROVE  /\ \A i \in 0..Len(p) : e[i] \in ReadState
           /\ e[0] = [dir |-> <<>>, name |-> <<>>]
           /\ \A i \in 1..Len(p) : e[i] = ReadChar(e[i - 1], p[i])
<1> DEFINE n == Len(p)
           a == [dir |-> <<>>, name |-> <<>>]
           step == [i \in 1..n |-> [r \in ReadState |-> ReadChar(r, p[i])]]
           Round(f) == [i \in 0..n |-> IF i = 0 THEN a ELSE ReadChar(f[i - 1], p[i])]
<1>1. n \in Nat /\ a \in ReadState /\ \A i \in 1..n : p[i] \in Char
  <2>1. <<>> \in Name
    BY DEF Name
  <2> QED
    BY <2>1 DEF ReadState
<1>2. step \in [1..n -> [ReadState -> ReadState]]
  <2> HIDE DEF n
  <2> QED
    BY <1>1, ReadType
<1>3. PICK f \in [0..n -> ReadState] : IsRun(f, n, a, step)
  <2> HIDE DEF a, step, n
  <2> QED BY <1>1, <1>2, LoopExists
<1>4. f = Round(f)
  <2>1. ASSUME NEW i \in 1..n PROVE f[i] = ReadChar(f[i - 1], p[i])
    <3>1. f[i - 1] \in ReadState
      OBVIOUS
    <3> QED
      BY <1>3, <3>1 DEF IsRun
  <2> HIDE DEF a
  <2> QED
    BY <1>1, <1>3, <2>1 DEF IsRun
<1>5. e = Round(e)
  <2>1. e = CHOOSE g : g = Round(g)
    BY DEF Resolving
  <2> HIDE DEF Round
  <2> QED BY <1>4, <2>1
<1>6. e[0] = a /\ \A i \in 1..n : e[i] = ReadChar(e[i - 1], p[i])
  <2> HIDE DEF a
  <2> QED BY <1>1, <1>5
<1> DEFINE T == {i \in 0..n : e[i] \in ReadState}
<1>7. \A i \in 0..n : i \in T
  <2>1. 0 \in T
    BY <1>1, <1>6
  <2>2. ASSUME NEW i \in 1..n, i - 1 \in T PROVE i \in T
    <3>1. e[i - 1] \in ReadState /\ p[i] \in Char
      BY <1>1, <2>2
    <3> QED
      BY <1>6, <3>1, ReadType
  <2> HIDE DEF T, n
  <2> QED
    BY <1>1, <2>1, <2>2, Rounds
<1> QED
  BY <1>6, <1>7

(* What Listed gives. *)
LEMMA ListedStep ==
    ASSUME NEW dir \in Seq(Name), NEW name \in Name
    PROVE  /\ Listed(dir) \in Seq(Char)
           /\ Listed(<<>>) = <<>>
           /\ Listed(Append(dir, name)) = Listed(dir) \o (<<"/">> \o name)
<1> DEFINE ss == [i \in DOMAIN dir |-> <<"/">> \o dir[i]]
           tt == [i \in DOMAIN Append(dir, name) |-> <<"/">> \o Append(dir, name)[i]]
           s  == <<"/">> \o name
<1>1. \A x \in Name : <<"/">> \o x \in Seq(Char)
  <2>1. "/" \in Char /\ Name \subseteq Seq(Char)
    BY DEF Char, Name
  <2> QED
    BY <2>1
<1>2. ss \in Seq(Seq(Char)) /\ s \in Seq(Char)
  <2>1. s \in Seq(Char)
    BY <1>1
  <2>2. DOMAIN dir = 1..Len(dir) /\ Len(dir) \in Nat /\ \A i \in DOMAIN dir : dir[i] \in Name
    OBVIOUS
  <2>3. \A i \in DOMAIN dir : <<"/">> \o dir[i] \in Seq(Char)
    BY <1>1, <2>2
  <2>4. ss \in [1..Len(dir) -> Seq(Char)]
    BY <2>2, <2>3
  <2>5. ss \in Seq(Seq(Char))
    <3> HIDE DEF ss
    <3> QED
      BY <2>2, <2>4
  <2> QED
    BY <2>1, <2>5
<1>3. tt = Append(ss, s)
  OBVIOUS
<1>4. Listed(<<>>) = <<>>
  <2>1. [i \in DOMAIN <<>> |-> <<"/">> \o <<>>[i]] = <<>>
    OBVIOUS
  <2>2. <<>> \in Seq(Seq(Char))
    OBVIOUS
  <2>3. FlattenSeq(<<>>) = <<>>
    BY <2>2, Flatten
  <2> QED
    BY <2>1, <2>3 DEF Listed
<1> HIDE DEF ss, tt, s
<1>5. FlattenSeq(ss) \in Seq(Char) /\ FlattenSeq(tt) = FlattenSeq(ss) \o s
  BY <1>2, <1>3, Flatten
<1> QED
  BY <1>4, <1>5 DEF Listed, ss, tt, s

(* dest goes on behind s with the name. *)
Rest(dest, s, name) ==
    /\ s + 1 + Len(name) <= Len(dest)
    /\ dest[s + 1] = "/"
    /\ \A k \in 1..Len(name) : dest[s + 1 + k] = name[k]

(* Where the names of a directory stand in its text. *)
LEMMA ListedParts ==
    ASSUME NEW dir \in Seq(Name), NEW name \in Name, NEW dest \in Seq(Char)
    PROVE  /\ Listed(dir) \in Seq(Char) /\ Listed(Append(dir, name)) \in Seq(Char)
           /\ Len(name) \in Nat
           /\ Len(Listed(Append(dir, name))) = Len(Listed(dir)) + 1 + Len(name)
           /\ Extends(Listed(Append(dir, name)), dest)
                <=> Extends(Listed(dir), dest) /\ Rest(dest, Len(Listed(dir)), name)
<1> DEFINE l == Listed(dir)
           m == Listed(Append(dir, name))
<1>1. l \in Seq(Char) /\ name \in Seq(Char) /\ m = l \o (<<"/">> \o name) /\ "/" \in Char
  BY ListedStep DEF Name, Char
<1> HIDE DEF l, m
<1>2. /\ <<"/">> \o name \in Seq(Char) /\ Len(<<"/">> \o name) = 1 + Len(name)
      /\ (<<"/">> \o name)[1] = "/"
      /\ \A k \in 1..Len(name) : (<<"/">> \o name)[1 + k] = name[k]
  BY <1>1
<1>3. /\ m \in Seq(Char) /\ Len(m) = Len(l) + 1 + Len(name) /\ m[Len(l) + 1] = "/"
      /\ \A k \in 1..Len(l) : m[k] = l[k]
      /\ \A k \in 1..Len(name) : m[Len(l) + 1 + k] = name[k]
  <2>1. ASSUME NEW x \in Seq(Char), x = <<"/">> \o name
        PROVE  /\ l \o x \in Seq(Char) /\ Len(l \o x) = Len(l) + Len(x)
               /\ \A k \in 1..Len(l) : (l \o x)[k] = l[k]
               /\ \A k \in 1..Len(x) : (l \o x)[Len(l) + k] = x[k]
    BY <1>1
  <2>2. Len(name) \in Nat /\ Len(l) \in Nat
    BY <1>1
  <2>3. /\ m \in Seq(Char) /\ Len(m) = Len(l) + (1 + Len(name))
        /\ \A k \in 1..Len(l) : m[k] = l[k]
        /\ \A k \in 1..(1 + Len(name)) : m[Len(l) + k] = (<<"/">> \o name)[k]
    BY <1>1, <1>2, <2>1
  <2>4. ASSUME NEW k \in 1..Len(name) PROVE m[Len(l) + 1 + k] = name[k]
    <3>1. 1 + k \in 1..(1 + Len(name)) /\ Len(l) + (1 + k) = Len(l) + 1 + k
      BY <2>2
    <3> QED
      BY <1>2, <2>3, <3>1
  <2>5. m[Len(l) + 1] = "/"
    <3>1. 1 \in 1..(1 + Len(name))
      BY <2>2
    <3> QED
      BY <1>2, <2>3, <3>1
  <2> QED
    BY <2>2, <2>3, <2>4, <2>5
<1>4. Len(name) \in Nat /\ Len(l) \in Nat /\ Len(m) \in Nat /\ Len(dest) \in Nat
  BY <1>1, <1>3
<1>5. ASSUME Extends(m, dest) PROVE Extends(l, dest) /\ Rest(dest, Len(l), name)
  <2>1. ASSUME NEW k \in 1..Len(name) PROVE dest[Len(l) + 1 + k] = name[k]
    BY <1>3, <1>4, <1>5 DEF Extends
  <2>2. dest[Len(l) + 1] = "/" /\ Len(l) + 1 + Len(name) <= Len(dest)
    BY <1>3, <1>4, <1>5 DEF Extends
  <2>3. Extends(l, dest)
    BY <1>3, <1>4, <1>5 DEF Extends
  <2> QED
    BY <2>1, <2>2, <2>3 DEF Rest
<1>6. ASSUME Extends(l, dest), Rest(dest, Len(l), name) PROVE Extends(m, dest)
  <2>1. Len(m) <= Len(dest)
    BY <1>3, <1>6 DEF Rest
  <2>2. ASSUME NEW k \in 1..Len(m) PROVE dest[k] = m[k]
    <3>1. CASE k <= Len(l)
      BY <1>3, <1>4, <1>6, <3>1 DEF Extends
    <3>2. CASE k = Len(l) + 1
      BY <1>3, <1>6, <3>2 DEF Rest
    <3>3. CASE k > Len(l) + 1
      <4> DEFINE j == k - (Len(l) + 1)
      <4>1. j \in 1..Len(name) /\ Len(l) + 1 + j = k
        BY <1>3, <1>4, <3>3
      <4> HIDE DEF j
      <4>2. dest[Len(l) + 1 + j] = name[j] /\ m[Len(l) + 1 + j] = name[j]
        BY <1>3, <1>6, <4>1 DEF Rest
      <4> QED
        BY <4>1, <4>2
    <3> QED
      BY <1>4, <3>1, <3>2, <3>3
  <2> QED
    BY <2>1, <2>2 DEF Extends
<1> QED
  BY <1>1, <1>3, <1>4, <1>5, <1>6 DEF l, m

(* The directory the last component lies in. *)
LEMMA ParentFound ==
    ASSUME NEW dir \in Seq(Name), NEW name \in Name, NEW dest \in Seq(Char),
           Extends(Listed(Append(dir, name)), dest)
    PROVE  Parent(dest, Len(Listed(Append(dir, name)))) = Len(Listed(dir))
<1> DEFINE l == Len(Listed(dir))
           s == Len(Listed(Append(dir, name)))
           T == {k \in 0..(s - 1) : dest[k + 1] = "/"}
<1>1. l \in Nat /\ s \in Nat /\ Len(name) \in Nat /\ s = l + 1 + Len(name) /\ Rest(dest, l, name)
  BY ListedParts
<1>2. Parent(dest, s) = IF T = {} THEN 0 ELSE Max(T)
  BY DEF Parent
<1> HIDE DEF l, s
<1>3. l \in T
  BY <1>1 DEF Rest
<1>4. ASSUME NEW k \in T PROVE k <= l
  <2>1. SUFFICES ASSUME k > l PROVE FALSE
    BY <1>1
  <2> DEFINE j == k - l
  <2>2. j \in 1..Len(name) /\ l + 1 + j = k + 1
    BY <1>1, <2>1
  <2> HIDE DEF j
  <2>3. dest[k + 1] = name[j]
    BY <1>1, <2>2 DEF Rest
  <2>4. name[j] # "/"
    BY <2>2 DEF Name
  <2> QED
    BY <2>3, <2>4
<1>5. \A k \in T : k \in 0..s /\ k \in Nat
  BY <1>1
<1> HIDE DEF T
<1>6. T \in SUBSET (0..s) /\ T # {}
  BY <1>3, <1>5
<1>7. Max(T) \in T /\ \A k \in T : k <= Max(T)
  BY <1>1, <1>6, Greatest
<1>8. Max(T) <= l /\ l <= Max(T) /\ Max(T) \in Nat
  BY <1>3, <1>4, <1>5, <1>7
<1>9. Max(T) = l
  BY <1>1, <1>8
<1>10. Parent(dest, s) = l
  BY <1>2, <1>6, <1>9
<1> QED
  BY <1>10 DEF l, s

(* A byte is written at out; what lies before it stays. *)
Puts(w, dest, out, c) ==
    /\ w \in Seq(Char) /\ Len(w) \in Nat /\ Len(dest) <= Len(w) /\ out + 1 <= Len(w)
    /\ w[out + 1] = c
    /\ \A k \in 1..out : w[k] = dest[k]

(* What was written before out stays. *)
LEMMA WrittenFacts ==
    ASSUME NEW dest \in Seq(Char), NEW out \in Nat, out <= Len(dest), NEW c \in Char
    PROVE  Puts(Written(dest, out, c), dest, out, c)
<1> DEFINE w == Written(dest, out, c)
<1> SUFFICES Puts(w, dest, out, c)
  OBVIOUS
<1>1. CASE out < Len(dest)
  <2>1. w = [dest EXCEPT ![out + 1] = c] /\ out + 1 \in 1..Len(dest) /\ out + 1 \in DOMAIN dest
    BY <1>1 DEF Written
  <2>2. w \in Seq(Char) /\ Len(w) = Len(dest)
    BY <2>1
  <2>3. w[out + 1] = c /\ \A k \in 1..out : w[k] = dest[k]
    BY <2>1
  <2> HIDE DEF w
  <2> QED
    BY <1>1, <2>2, <2>3 DEF Puts
<1>2. CASE ~(out < Len(dest))
  <2>1. w = Append(dest, c) /\ out = Len(dest)
    BY <1>2 DEF Written
  <2> HIDE DEF w
  <2> QED
    BY <2>1 DEF Puts
<1> QED
  BY <1>1, <1>2

(* The buffer while a component is written, and between two.                 *)
Open(dest, slash, out, dir, name) ==
    /\ slash = Len(Listed(dir)) /\ out = slash + 1 + Len(name)
    /\ Extends(Listed(dir), dest) /\ Rest(dest, slash, name)
Closed(dest, slash, out, dir) ==
    slash = out /\ out = Len(Listed(dir)) /\ Extends(Listed(dir), dest)

(* The tests on the last two characters tell which name ends. *)
Ends(name, pre2, pre1) ==
    /\ (pre2 = "/" /\ pre1 = ".") <=> name = <<".">>
    /\ (Len(name) = 2 /\ pre2 = "." /\ pre1 = ".") <=> name = <<".", ".">>

LEMMA TwoLetters ==
    ASSUME NEW s \in Seq(Char), Len(s) = 2, s[1] = ".", s[2] = "."
    PROVE  s = <<".", ".">>
  OBVIOUS

(* What the last two characters say of a name that ends. *)
LEMMA NameEnds ==
    ASSUME NEW p \in Seq(Char), Len(p) >= 1, p[1] = "/",
           NEW q, q = Resolving(p), NEW i \in 1..Len(p)
    PROVE  /\ Ends(q[i].name, IF i > 1 THEN p[i - 1] ELSE "", p[i])
           /\ q[i].name = <<>> <=> p[i] = "/"
<1>1. /\ q[i] \in ReadState /\ q[i - 1] \in ReadState /\ q[i] = ReadChar(q[i - 1], p[i])
      /\ p[i] \in Char
  BY ResolvingDef
<1>2. CASE p[i] = "/"
  <2>1. q[i].name = <<>>
    BY <1>1, <1>2 DEF ReadChar
  <2> QED
    BY <1>2, <2>1 DEF Ends
<1>3. CASE p[i] # "/"
  <2> DEFINE m == q[i - 1].name
             c == p[i]
             b == p[i - 1]
  <2>1. i > 1 /\ i - 1 \in 1..Len(p) /\ b \in Char /\ c \in Char
    BY <1>1, <1>3
  <2>2. q[i].name = Append(m, c) /\ m \in Seq(Char)
    BY <1>1, <1>3 DEF ReadChar, ReadState, Name
  <2>3. q[i - 1] = ReadChar(q[i - 2], b) /\ q[i - 2] \in ReadState
    <3>1. i - 2 \in 0..Len(p) /\ (i - 1) - 1 = i - 2
      BY <2>1
    <3> QED
      BY <2>1, <3>1, ResolvingDef
  <2>4. CASE b = "/"
    <3>1. m = <<>>
      BY <2>3, <2>4 DEF ReadChar
    <3>2. q[i].name = <<c>> /\ q[i].name \in Seq(Char)
      BY <2>1, <2>2, <3>1
    <3> HIDE DEF c, b
    <3>3. ASSUME NEW name \in Seq(Char), name = <<c>> PROVE Ends(name, b, c) /\ name # <<>>
      <4>1. Len(name) = 1 /\ name[1] = c /\ name # <<".", ".">> /\ name # <<>>
        BY <3>3
      <4>2. (c = ".") <=> (name = <<".">>)
        BY <3>3, <4>1
      <4>3. ~(Len(name) = 2)
        BY <4>1
      <4> QED
        BY <2>4, <4>1, <4>2, <4>3 DEF Ends
    <3> QED
      BY <1>3, <2>1, <3>2, <3>3 DEF c, b
  <2>5. CASE b # "/"
    <3> DEFINE m0 == q[i - 2].name
    <3>1. m = Append(m0, b) /\ m0 \in Seq(Char)
      BY <2>3, <2>5 DEF ReadChar, ReadState, Name
    <3>2. q[i].name = Append(Append(m0, b), c) /\ q[i].name \in Seq(Char)
      BY <2>1, <2>2, <3>1
    <3> HIDE DEF c, b, m0, m
    <3>3. ASSUME NEW name \in Seq(Char), name = Append(Append(m0, b), c)
          PROVE  Ends(name, b, c) /\ name # <<>>
      <4>1. Len(m0) \in Nat /\ Len(name) \in Nat /\ Len(name) = Len(m0) + 2
        BY <2>1, <3>1, <3>3
      <4>2. name[Len(m0) + 1] = b /\ name[Len(m0) + 2] = c
        BY <2>1, <3>1, <3>3
      <4>3. Len(name) # 1 /\ Len(name) # 0 /\ (Len(name) = 2 => Len(m0) = 0)
        BY <4>1
      <4>4. name # <<".">> /\ name # <<>>
        BY <4>3
      <4>5. Len(name) = 2 => name[1] = b /\ name[2] = c
        BY <4>2, <4>3
      <4>6. ASSUME Len(name) = 2, b = ".", c = "." PROVE name = <<".", ".">>
        BY <4>5, <4>6, TwoLetters
      <4>7. ASSUME name = <<".", ".">> PROVE Len(name) = 2 /\ b = "." /\ c = "."
        <5>1. Len(name) = 2 /\ name[1] = "." /\ name[2] = "."
          BY <4>7
        <5> QED
          BY <4>5, <5>1
      <4> QED
        BY <2>5, <4>4, <4>6, <4>7 DEF Ends
    <3> QED
      BY <1>3, <2>1, <3>2, <3>3 DEF c, b
  <2> QED
    BY <2>4, <2>5
<1> QED
  BY <1>2, <1>3

(* The length of the component that ends. *)
LEMMA TokLen ==
    ASSUME NEW out \in Nat, NEW slash \in Nat, NEW m \in Nat, out - slash = 1 + m, out - slash = 3
    PROVE  m = 2
  OBVIOUS

(* At the end of a component out goes where the directory it leads to ends. *)
LEMMA EndRight ==
    ASSUME NEW dest \in Seq(Char), NEW dir \in Seq(Name), NEW name \in Name,
           NEW slash \in Nat, NEW out \in Nat, NEW pre2, NEW pre1, NEW atEnd \in BOOLEAN,
           Open(dest, slash, out, dir, name), Ends(name, pre2, pre1),
           NEW l, l = Len(Listed(Enter(dir, name)))
    PROVE  /\ Extends(Listed(Enter(dir, name)), dest)
           /\ l \in Nat /\ l <= Len(dest)
           /\ name \in Dots => l + 1 <= Len(dest) /\ dest[l + 1] = "/"
           /\ Ended(dest, slash, out, pre2, pre1, atEnd) =
                 IF atEnd /\ name \in Dots THEN l + 1 ELSE l
<1>1. /\ Len(name) \in Nat /\ out - slash = 1 + Len(name) /\ dest[slash + 1] = "/"
      /\ slash + 1 <= Len(dest) /\ Len(dest) \in Nat /\ slash = Len(Listed(dir))
      /\ Extends(Listed(dir), dest) /\ Rest(dest, slash, name) /\ name \in Seq(Char)
  BY DEF Open, Rest, Name
<1>2. CASE name = <<".", ".">>
  <2>1. /\ name \in Dots /\ Len(name) = 2 /\ pre2 = "." /\ pre1 = "."
        /\ Enter(dir, name) = IF dir # <<>> THEN Front(dir) ELSE dir
    BY <1>2 DEF Ends, Dots, Enter
  <2>2. out - slash = 3
    BY <1>1, <2>1
  <2>3. Ended(dest, slash, out, pre2, pre1, atEnd) =
          IF atEnd THEN Parent(dest, slash) + 1 ELSE Parent(dest, slash)
    BY <1>1, <2>1, <2>2 DEF Ended
  <2>4. CASE dir = <<>>
    <3>0. Listed(dir) = <<>> /\ Enter(dir, name) = dir
      BY <2>1, <2>4, ListedStep
    <3>1. slash = 0 /\ l = 0
      BY <1>1, <3>0
    <3>2. Parent(dest, 0) = 0
      BY DEF Parent
    <3> QED
      BY <1>1, <2>1, <2>3, <3>0, <3>1, <3>2
  <2>5. CASE dir # <<>>
    <3> DEFINE d == Front(dir)
               x == dir[Len(dir)]
    <3>1. d \in Seq(Name) /\ x \in Name /\ dir = Append(d, x)
      BY <2>5 DEF Front
    <3>2. Enter(dir, name) = d
      BY <2>1, <2>5
    <3> HIDE DEF d, x
    <3>3. Extends(Listed(Append(d, x)), dest) /\ slash = Len(Listed(Append(d, x)))
      BY <1>1, <3>1
    <3>4. /\ Extends(Listed(d), dest) /\ Rest(dest, Len(Listed(d)), x) /\ Len(x) \in Nat
          /\ Listed(d) \in Seq(Char)
      BY <3>1, <3>3, ListedParts
    <3>5. Parent(dest, slash) = Len(Listed(d))
      BY <3>1, <3>3, ParentFound
    <3>6. l = Len(Listed(d)) /\ l \in Nat
      BY <3>2, <3>4
    <3>7. l + 1 <= Len(dest) /\ dest[l + 1] = "/"
      BY <1>1, <3>4, <3>6 DEF Rest
    <3> QED
      BY <1>1, <2>1, <2>3, <3>2, <3>4, <3>5, <3>6, <3>7
  <2> QED
    BY <2>4, <2>5
<1>3. CASE name # <<".", ".">>
  <2>1. ~(Len(name) = 2 /\ pre2 = "." /\ pre1 = ".")
    BY <1>3 DEF Ends
  <2>0. ASSUME out - slash = 3 PROVE Len(name) = 2
    BY <1>1, <2>0, TokLen
  <2>2. ~(out - slash = 3 /\ pre2 = "." /\ pre1 = ".")
    BY <2>0, <2>1
  <2>3. (out - slash = 1) <=> (name = <<>>)
    BY <1>1
  <2>4. (out - slash = 1 \/ (pre2 = "/" /\ pre1 = ".")) <=> name \in Dots
    BY <1>3, <2>3 DEF Ends, Dots
  <2>5. Ended(dest, slash, out, pre2, pre1, atEnd) =
          IF name \notin Dots THEN out ELSE IF atEnd THEN slash + 1 ELSE slash
    BY <2>2, <2>4 DEF Ended
  <2>6. CASE name \in Dots
    <3>1. Enter(dir, name) = dir
      BY <1>3, <2>6 DEF Enter
    <3> QED
      BY <1>1, <2>5, <2>6, <3>1
  <2>7. CASE name \notin Dots
    <3>1. Enter(dir, name) = Append(dir, name)
      BY <2>7 DEF Enter
    <3>2. Extends(Listed(Append(dir, name)), dest) /\ Len(Listed(Append(dir, name))) = slash + 1 + Len(name)
      BY <1>1, ListedParts
    <3>3. l = out /\ out <= Len(dest)
      BY <1>1, <3>1, <3>2 DEF Rest
    <3> QED
      BY <2>5, <2>7, <3>1, <3>2, <3>3
  <2> QED
    BY <2>6, <2>7
<1> QED
  BY <1>2, <1>3
(* Round i writes its character behind what it has. *)
LEMMA MidRight ==
    ASSUME NEW dest \in Seq(Char), NEW slash \in Nat, NEW out \in Nat, NEW c \in Char,
           NEW q \in ReadState, NEW w, w = Written(dest, out, c),
           IF c = "/" THEN Closed(dest, slash, out, Enter(q.dir, q.name))
                      ELSE Open(dest, slash, out, q.dir, q.name),
           NEW x, x = ReadChar(q, c)
    PROVE  Open(w, slash, out + 1, x.dir, x.name)
<1>1. CASE c = "/"
  <2> DEFINE d == Enter(q.dir, q.name)
  <2>1. Closed(dest, slash, out, d) /\ x.dir = d /\ x.name = <<>>
    BY <1>1 DEF ReadChar
  <2>2. d \in Seq(Name) /\ <<>> \in Name
    <3>1. q.dir \in Seq(Name) /\ q.name \in Name
      BY DEF ReadState
    <3>2. <<>> \in Name
      BY DEF Name
    <3> QED
      BY <3>1, <3>2, EnterType
  <2> HIDE DEF d
  <2>3. Listed(d) \in Seq(Char)
    BY <2>2, ListedStep
  <2>4. slash = out /\ out = Len(Listed(d)) /\ Extends(Listed(d), dest) /\ out <= Len(dest)
    BY <2>1 DEF Closed, Extends
  <2>5. /\ w \in Seq(Char) /\ Len(w) \in Nat /\ Len(dest) <= Len(w) /\ out + 1 <= Len(w)
        /\ w[out + 1] = c
        /\ \A k \in 1..out : w[k] = dest[k]
    <3>1. Puts(Written(dest, out, c), dest, out, c)
      <4>1. out <= Len(dest)
        BY <2>4
      <4> QED
        BY <4>1, WrittenFacts
    <3> QED
      BY <3>1 DEF Puts
  <2>6. Extends(Listed(d), w)
    BY <2>4, <2>5 DEF Extends
  <2>7. Rest(w, slash, <<>>)
    BY <1>1, <2>4, <2>5 DEF Rest
  <2> QED
    BY <2>1, <2>4, <2>6, <2>7 DEF Open
<1>2. CASE c # "/"
  <2> DEFINE d == q.dir
             m == q.name
  <2>1. Open(dest, slash, out, d, m) /\ x.dir = d /\ x.name = Append(m, c)
    BY <1>2 DEF ReadChar
  <2>2. d \in Seq(Name) /\ m \in Name /\ m \in Seq(Char)
    BY DEF ReadState, Name
  <2> HIDE DEF d, m
  <2>3. Listed(d) \in Seq(Char) /\ Len(m) \in Nat
    BY <2>2, ListedStep
  <2>4. /\ slash = Len(Listed(d)) /\ out = slash + 1 + Len(m) /\ out <= Len(dest)
        /\ Extends(Listed(d), dest) /\ Rest(dest, slash, m)
    BY <2>1 DEF Open, Rest
  <2>5. /\ w \in Seq(Char) /\ Len(w) \in Nat /\ Len(dest) <= Len(w) /\ out + 1 <= Len(w)
        /\ w[out + 1] = c
        /\ \A k \in 1..out : w[k] = dest[k]
    <3>1. Puts(Written(dest, out, c), dest, out, c)
      <4>1. out <= Len(dest)
        BY <2>4
      <4> QED
        BY <4>1, WrittenFacts
    <3> QED
      BY <3>1 DEF Puts
  <2>6. Extends(Listed(d), w)
    <3>1. Len(Listed(d)) <= Len(w)
      BY <2>3, <2>4, <2>5
    <3>2. ASSUME NEW k \in 1..Len(Listed(d)) PROVE w[k] = Listed(d)[k]
      <4>1. k \in 1..out
        BY <2>3, <2>4
      <4> QED
        BY <2>4, <2>5, <4>1 DEF Extends
    <3> QED
      BY <3>1, <3>2 DEF Extends
  <2> DEFINE a == Append(m, c)
  <2>7. Len(a) = Len(m) + 1 /\ a[Len(m) + 1] = c /\ \A k \in 1..Len(m) : a[k] = m[k]
    BY <2>2
  <2> HIDE DEF a
  <2>8. Rest(w, slash, a)
    <3>1. slash + 1 + Len(a) <= Len(w)
      BY <2>3, <2>4, <2>5, <2>7
    <3>2. w[slash + 1] = "/"
      <4>1. slash + 1 \in 1..out
        BY <2>3, <2>4
      <4> QED
        BY <2>4, <2>5, <4>1 DEF Rest
    <3>3. ASSUME NEW k \in 1..Len(a) PROVE w[slash + 1 + k] = a[k]
      <4>1. CASE k = Len(m) + 1
        <5>1. slash + 1 + k = out + 1
          BY <2>3, <2>4, <4>1
        <5> QED
          BY <2>5, <2>7, <4>1, <5>1
      <4>2. CASE k # Len(m) + 1
        <5>1. k \in 1..Len(m) /\ slash + 1 + k \in 1..out
          BY <2>3, <2>4, <2>7, <4>2
        <5>2. w[slash + 1 + k] = dest[slash + 1 + k]
          BY <2>5, <5>1
        <5>3. dest[slash + 1 + k] = m[k] /\ a[k] = m[k]
          BY <2>4, <2>7, <5>1 DEF Rest
        <5> QED
          BY <5>2, <5>3
      <4> QED
        BY <4>1, <4>2
    <3> QED
      BY <3>1, <3>2, <3>3 DEF Rest
  <2>9. out + 1 = slash + 1 + Len(a)
    BY <2>3, <2>4, <2>7
  <2> QED
    BY <2>1, <2>4, <2>6, <2>8, <2>9 DEF Open, a
<1> QED
  BY <1>1, <1>2

(* The state of the loop against that of the reference, and the result.      *)
LEMMA Simulated ==
    ASSUME NEW p \in Seq(Char), Len(p) >= 1, p[1] = "/",
           NEW e, e = Simplifying(p), NEW q, q = Resolving(p), NEW i \in 1..Len(p),
           IF p[i] = "/" THEN Closed(e[i - 1].dest, e[i - 1].slash, e[i - 1].out,
                                     Enter(q[i - 1].dir, q[i - 1].name))
           ELSE Open(e[i - 1].dest, e[i - 1].slash, e[i - 1].out, q[i - 1].dir, q[i - 1].name),
           NEW d, d = Enter(q[i].dir, q[i].name)
    PROVE  /\ i < Len(p) => IF p[i + 1] = "/" THEN Closed(e[i].dest, e[i].slash, e[i].out, d)
                            ELSE Open(e[i].dest, e[i].slash, e[i].out, q[i].dir, q[i].name)
           /\ i = Len(p) =>
                 /\ Extends(Listed(d), e[i].dest)
                 /\ q[i].name \notin Dots => e[i].out = Len(Listed(d))
                 /\ q[i].name \in Dots => /\ e[i].out = Len(Listed(d)) + 1
                                          /\ e[i].out <= Len(e[i].dest)
                                          /\ e[i].dest[e[i].out] = "/"
<1> DEFINE r == e[i - 1]
           w == Written(r.dest, r.out, p[i])
           pre2 == IF i > 1 THEN p[i - 1] ELSE ""
           next == Ended(w, r.slash, r.out + 1, pre2, p[i], i = Len(p))
           l == Len(Listed(d))
           dir == q[i].dir
           name == q[i].name
<1>1. /\ r \in SimplifyState /\ e[i] \in SimplifyState /\ e[i] = Simplified(r, p, i)
      /\ p[i] \in Char
  BY SimplifyingDef
<1>2. q[i - 1] \in ReadState /\ q[i] \in ReadState /\ q[i] = ReadChar(q[i - 1], p[i])
  BY ResolvingDef
<1>3. e[i] = IF i = Len(p) \/ p[i + 1] = "/" THEN [dest |-> w, out |-> next, slash |-> next]
             ELSE [dest |-> w, out |-> r.out + 1, slash |-> r.slash]
  BY <1>1 DEF Simplified
<1>4. r.dest \in Seq(Char) /\ r.out \in Nat /\ r.slash \in Nat /\ r.out + 1 \in Nat
  BY <1>1 DEF SimplifyState
<1>5. w \in Seq(Char) /\ dir \in Seq(Name) /\ name \in Name
  BY <1>1, <1>2, <1>4, WrittenType DEF ReadState
<1>6. Open(w, r.slash, r.out + 1, dir, name)
  BY <1>1, <1>2, <1>4, MidRight
<1>7. Ends(name, pre2, p[i])
  BY NameEnds
<1> HIDE DEF w, pre2, r, dir, name
<1>8. /\ Extends(Listed(d), w)
      /\ l \in Nat /\ l <= Len(w)
      /\ name \in Dots => l + 1 <= Len(w) /\ w[l + 1] = "/"
      /\ next = IF i = Len(p) /\ name \in Dots THEN l + 1 ELSE l
  <2> DEFINE fin == i = Len(p)
  <2>1. fin \in BOOLEAN /\ l = Len(Listed(Enter(dir, name))) /\ Enter(dir, name) = d
    BY DEF dir, name
  <2> HIDE DEF fin, l
  <2>2. /\ Extends(Listed(Enter(dir, name)), w)
        /\ l \in Nat /\ l <= Len(w)
        /\ name \in Dots => l + 1 <= Len(w) /\ w[l + 1] = "/"
        /\ Ended(w, r.slash, r.out + 1, pre2, p[i], fin) =
              IF fin /\ name \in Dots THEN l + 1 ELSE l
    BY <1>4, <1>5, <1>6, <1>7, <2>1, EndRight
  <2> HIDE DEF next
  <2>3. next = Ended(w, r.slash, r.out + 1, pre2, p[i], fin)
    BY DEF next, fin
  <2>4. fin <=> i = Len(p)
    BY DEF fin
  <2> QED
    BY <2>1, <2>2, <2>3, <2>4
<1> HIDE DEF next, l
<1>9. CASE i = Len(p)
  <2>1. e[i].dest = w /\ e[i].out = next
    BY <1>3, <1>9
  <2> QED
    BY <1>8, <1>9, <2>1 DEF l, name
<1>10. CASE i # Len(p) /\ p[i + 1] = "/"
  <2>1. e[i].dest = w /\ e[i].out = next /\ e[i].slash = next /\ next = l
    BY <1>3, <1>8, <1>10
  <2> QED
    BY <1>8, <1>10, <2>1 DEF Closed, l
<1>11. CASE i # Len(p) /\ p[i + 1] # "/"
  <2>1. e[i].dest = w /\ e[i].out = r.out + 1 /\ e[i].slash = r.slash
    BY <1>3, <1>11
  <2> QED
    BY <1>6, <1>11, <2>1 DEF dir, name
<1> QED
  BY <1>9, <1>10, <1>11

LEMMA SubSeqExtends ==
    ASSUME NEW S, NEW s \in Seq(S), NEW t \in Seq(S), Extends(s, t)
    PROVE  SubSeq(t, 1, Len(s)) = s
<1>1. Len(s) \in Nat /\ Len(t) \in Nat /\ Len(s) <= Len(t) /\ \A k \in 1..Len(s) : t[k] = s[k]
  BY DEF Extends
<1>2. SubSeq(t, 1, Len(s)) = [k \in 1..Len(s) |-> t[k]]
  BY <1>1
<1>3. s = [k \in 1..Len(s) |-> s[k]]
  OBVIOUS
<1> QED
  BY <1>1, <1>2, <1>3

(* The loop agrees with the reference. *)
LEMMA SimplifyingRight ==
    ASSUME NEW p \in Seq(Char), Len(p) >= 1, p[1] = "/"
    PROVE  LET r == Simplifying(p)[Len(p)] IN SubSeq(r.dest, 1, r.out) = Resolved(p)
<1> DEFINE n == Len(p)
           e == Simplifying(p)
           q == Resolving(p)
           Related(i) == IF p[i + 1] = "/"
                         THEN Closed(e[i].dest, e[i].slash, e[i].out, Enter(q[i].dir, q[i].name))
                         ELSE Open(e[i].dest, e[i].slash, e[i].out, q[i].dir, q[i].name)
           T == {i \in 0..n : i < n => Related(i)}
<1>1. n \in Nat /\ n >= 1
  OBVIOUS
<1>2. 0 \in T
  <2>1. e[0] = [dest |-> <<>>, out |-> 0, slash |-> 0] /\ q[0] = [dir |-> <<>>, name |-> <<>>]
    BY SimplifyingDef, ResolvingDef
  <2>2. Enter(<<>>, <<>>) = <<>>
    BY DEF Enter, Dots
  <2>3. Listed(<<>>) = <<>>
    <3>1. <<>> \in Seq(Name) /\ <<>> \in Name
      BY DEF Name
    <3> QED
      BY <3>1, ListedStep
  <2>4. Closed(<<>>, 0, 0, <<>>)
    BY <2>3 DEF Closed, Extends
  <2>5. Closed(e[0].dest, e[0].slash, e[0].out, Enter(q[0].dir, q[0].name))
    BY <2>1, <2>2, <2>4
  <2> HIDE DEF e, q
  <2> QED
    BY <1>1, <2>5
<1>3. ASSUME NEW i \in 1..n, i - 1 \in T PROVE i \in T
  <2>1. Related(i - 1) /\ (i - 1) + 1 = i
    BY <1>1, <1>3
  <2>2. IF p[i] = "/" THEN Closed(e[i - 1].dest, e[i - 1].slash, e[i - 1].out,
                                  Enter(q[i - 1].dir, q[i - 1].name))
        ELSE Open(e[i - 1].dest, e[i - 1].slash, e[i - 1].out, q[i - 1].dir, q[i - 1].name)
    <3> HIDE DEF e, q
    <3> QED
      BY <2>1
  <2>3. i < Len(p) => IF p[i + 1] = "/"
                      THEN Closed(e[i].dest, e[i].slash, e[i].out, Enter(q[i].dir, q[i].name))
                      ELSE Open(e[i].dest, e[i].slash, e[i].out, q[i].dir, q[i].name)
    BY <2>2, Simulated
  <2> HIDE DEF e, q
  <2> QED
    BY <2>3
<1>4. \A i \in 0..n : i \in T
  <2> HIDE DEF T, n
  <2> QED
    BY <1>1, <1>2, <1>3, Rounds
<1>5. IF p[n] = "/" THEN Closed(e[n - 1].dest, e[n - 1].slash, e[n - 1].out,
                                Enter(q[n - 1].dir, q[n - 1].name))
      ELSE Open(e[n - 1].dest, e[n - 1].slash, e[n - 1].out, q[n - 1].dir, q[n - 1].name)
  <2>1. n - 1 \in 0..n /\ n - 1 < n /\ (n - 1) + 1 = n
    BY <1>1
  <2>2. n - 1 \in T
    BY <1>4, <2>1
  <2> HIDE DEF e, q, n
  <2> QED
    BY <2>1, <2>2
<1> DEFINE d == Enter(q[n].dir, q[n].name)
<1>6. /\ Extends(Listed(d), e[n].dest)
      /\ q[n].name \notin Dots => e[n].out = Len(Listed(d))
      /\ q[n].name \in Dots => /\ e[n].out = Len(Listed(d)) + 1
                               /\ e[n].out <= Len(e[n].dest)
                               /\ e[n].dest[e[n].out] = "/"
  <2>1. n \in 1..Len(p)
    BY <1>1
  <2> QED
    BY <1>5, <2>1, Simulated
<1>7. d \in Seq(Name) /\ e[n] \in SimplifyState
  <2>1. q[n] \in ReadState /\ e[n] \in SimplifyState
    BY ResolvingDef, SimplifyingDef
  <2>2. q[n].dir \in Seq(Name) /\ q[n].name \in Name
    BY <2>1 DEF ReadState
  <2> HIDE DEF q, e
  <2> QED
    BY <2>1, <2>2, EnterType
<1> DEFINE f == Listed(d)
           x == e[n].dest
           out == e[n].out
<1>8. f \in Seq(Char) /\ x \in Seq(Char) /\ out \in Nat
  <2>1. f \in Seq(Char)
    <3>1. <<>> \in Name
      BY DEF Name
    <3> HIDE DEF d
    <3> QED
      BY <1>7, <3>1, ListedStep
  <2> HIDE DEF e
  <2> QED
    BY <1>7, <2>1 DEF SimplifyState
<1>9. Resolved(p) = f \o (IF q[n].name \in Dots THEN <<"/">> ELSE <<>>)
  BY DEF Resolved
<1>10. SUFFICES SubSeq(x, 1, out) = Resolved(p)
  OBVIOUS
<1> HIDE DEF f, x, out, e, q, n, d
<1>11. CASE q[n].name \notin Dots
  <2>1. Extends(f, x) /\ out = Len(f)
    BY <1>6, <1>11 DEF f, x, out
  <2>2. SubSeq(x, 1, out) = f
    BY <1>8, <2>1, SubSeqExtends
  <2>3. f \o <<>> = f
    BY <1>8
  <2> QED
    BY <1>9, <1>11, <2>2, <2>3
<1>12. CASE q[n].name \in Dots
  <2>1. Extends(f, x) /\ out = Len(f) + 1 /\ out <= Len(x) /\ x[out] = "/"
    BY <1>6, <1>12 DEF f, x, out
  <2> DEFINE g == f \o <<"/">>
  <2>2. g \in Seq(Char) /\ Len(g) = Len(f) + 1 /\ g[Len(f) + 1] = "/" /\ \A k \in 1..Len(f) : g[k] = f[k]
    <3>1. "/" \in Char
      BY DEF Char
    <3> QED
      BY <1>8, <3>1
  <2> HIDE DEF g
  <2>3. Extends(g, x) /\ out = Len(g)
    <3>1. Len(f) \in Nat /\ Len(x) \in Nat
      BY <1>8
    <3>2. ASSUME NEW k \in 1..Len(g) PROVE x[k] = g[k]
      <4>1. CASE k = Len(f) + 1
        BY <2>1, <2>2, <4>1
      <4>2. CASE k # Len(f) + 1
        <5>1. k \in 1..Len(f)
          BY <2>2, <3>1, <4>2
        <5> QED
          BY <2>1, <2>2, <5>1 DEF Extends
      <4> QED
        BY <4>1, <4>2
    <3> QED
      BY <2>1, <2>2, <3>1, <3>2 DEF Extends
  <2>4. SubSeq(x, 1, out) = g
    BY <1>8, <2>2, <2>3, SubSeqExtends
  <2> QED
    BY <1>9, <1>12, <2>4 DEF g
<1> QED
  BY <1>11, <1>12

(* Nothing is skipped of a path that begins with a slash. *)
LEMMA WalkFromSlash ==
    ASSUME NEW p \in Seq(Char), Len(p) >= 1, p[1] = "/"
    PROVE  Walk(p) = p
<1> DEFINE first == {i \in DOMAIN p : p[i] # " "}
           begun == IF first = {} THEN <<>> ELSE SubSeq(p, Min(first), Len(p))
           Begins(dots) == IsPrefix(dots, begun) /\ (Len(begun) = Len(dots) \/ begun[Len(dots) + 1] = "/")
<1>1. 1 \in first /\ \A k \in first : k \in Nat /\ 1 <= k
  <2>1. DOMAIN p = 1..Len(p) /\ Len(p) \in Nat
    OBVIOUS
  <2>2. \A k \in DOMAIN p : k \in Nat /\ 1 <= k
    BY <2>1
  <2>3. 1 \in DOMAIN p /\ p[1] # " "
    BY <2>1
  <2> QED
    BY <2>2, <2>3
<1>2. Min(first) = 1
  <2> HIDE DEF first
  <2>2. Min(first) \in first /\ \A k \in first : Min(first) <= k
    BY <1>1 DEF Min
  <2>3. Min(first) <= 1 /\ Min(first) \in Nat /\ 1 <= Min(first)
    BY <1>1, <2>2
  <2> QED
    BY <2>3
<1>3. begun = p
  <2>1. SubSeq(p, 1, Len(p)) = p
    OBVIOUS
  <2> HIDE DEF first
  <2> QED
    BY <1>1, <1>2, <2>1
<1>4. ~IsPrefix(<<".">>, p) /\ ~IsPrefix(<<".", ".">>, p)
  <2>1. ~IsPrefix(<<".">>, p)
    BY DEF IsPrefix
  <2>2. ~IsPrefix(<<".", ".">>, p)
    BY DEF IsPrefix
  <2> QED
    BY <2>1, <2>2
<1>5. Walk(p) = IF Begins(<<".">>) THEN Tail(begun)
                ELSE IF Begins(<<".", ".">>) THEN Tail(Tail(begun)) ELSE begun
  BY DEF Walk
<1> HIDE DEF begun
<1> QED
  BY <1>3, <1>4, <1>5

(* buffer_path_simplify gives for a path from the root, of any length, what  *)
(* is read name by name, although it works in one buffer with one character  *)
(* of each component at a time, and goes back in what it wrote.              *)
THEOREM PathResolved ==
    ASSUME NEW p \in Seq(Char), Len(p) >= 1, p[1] = "/"
    PROVE  buffer_path_simplify(p) = Resolved(p)
  BY WalkFromSlash, SimplifyingRight DEF buffer_path_simplify

---------------------------------------------------------------------------
(* Paths: no ".." is left. *)

(* No component ".." lies in the first s characters of the buffer. *)
UpAt(d, s, k) ==
    /\ k + 2 <= s /\ d[k + 1] = "." /\ d[k + 2] = "."
    /\ k = 0 \/ d[k] = "/"
    /\ k + 2 = s \/ d[k + 3] = "/"
NoUp(d, s) == \A k \in Nat : ~UpAt(d, s, k)

(* Going back to a slash, or showing it, leaves no ".." behind. *)
LEMMA UpBack ==
    ASSUME NEW d, NEW s \in Nat, NEW x \in Nat, x <= s, x = 0 \/ d[x + 1] = "/", NoUp(d, s)
    PROVE  NoUp(d, x) /\ NoUp(d, x + 1)
<1>1. ASSUME NEW k \in Nat, UpAt(d, x, k) PROVE FALSE
  <2>1. k + 2 <= x /\ k + 2 <= s /\ x # 0
    BY <1>1 DEF UpAt
  <2>2. d[k + 3] = "/"
    <3>1. CASE k + 2 = x
      <4>1. k + 3 = x + 1
        BY <3>1
      <4> QED
        BY <2>1, <4>1
    <3>2. CASE k + 2 # x
      BY <1>1, <3>2 DEF UpAt
    <3> QED
      BY <3>1, <3>2
  <2>3. UpAt(d, s, k)
    BY <1>1, <2>1, <2>2 DEF UpAt
  <2> QED
    BY <2>3 DEF NoUp
<1>2. ASSUME NEW k \in Nat, UpAt(d, x + 1, k) PROVE FALSE
  <2>1. k + 2 <= x + 1 /\ x # 0
    BY <1>2 DEF UpAt
  <2>2. k + 2 # x + 1
    <3>1. SUFFICES ASSUME k + 2 = x + 1 PROVE FALSE
      OBVIOUS
    <3>2. d[k + 2] = "." /\ d[k + 2] = "/"
      BY <1>2, <2>1, <3>1 DEF UpAt
    <3> QED
      BY <3>2
  <2>3. k + 2 <= s
    BY <2>1, <2>2
  <2>4. UpAt(d, s, k)
    BY <1>2, <2>2, <2>3 DEF UpAt
  <2> QED
    BY <2>4 DEF NoUp
<1> QED
  BY <1>1, <1>2 DEF NoUp

(* What is written behind a text makes no ".." in it. *)
LEMMA UpKept ==
    ASSUME NEW d, NEW w, NEW s \in Nat, NoUp(d, s), \A k \in 1..s : w[k] = d[k]
    PROVE  NoUp(w, s)
<1>1. ASSUME NEW k \in Nat, UpAt(w, s, k) PROVE FALSE
  <2>1. k + 2 <= s
    BY <1>1 DEF UpAt
  <2>2. k + 1 \in 1..s /\ k + 2 \in 1..s /\ (k # 0 => k \in 1..s) /\ (k + 2 # s => k + 3 \in 1..s)
    BY <2>1
  <2>3. UpAt(d, s, k)
    BY <1>1, <2>1, <2>2 DEF UpAt
  <2> QED
    BY <2>3 DEF NoUp
<1> QED
  BY <1>1 DEF NoUp

(* The component that is written is the one of p that begins behind b. *)
Part(d, slash, out, p, b) ==
    /\ \A k \in 1..(out - slash) : d[slash + k] = p[b + k]
    /\ \A k \in 2..(out - slash) : p[b + k] # "/"
    /\ (b = 0 /\ slash = 0) \/ p[b + 1] = "/"

(* The path does not begin with the component "..". *)
BeginsBelow(p) == ~(Len(p) >= 2 /\ p[1] = "." /\ p[2] = "." /\ (Len(p) = 2 \/ p[3] = "/"))

(* A component that is not ".." makes none. *)
LEMMA UpOn ==
    ASSUME NEW d, NEW slash \in Nat, NEW out \in Nat, slash < out, NEW p \in Seq(Char),
           NEW i \in 1..Len(p), NEW b \in Nat, b + (out - slash) = i,
           Part(d, slash, out, p, b), NoUp(d, slash), BeginsBelow(p),
           i = Len(p) \/ p[i + 1] = "/",
           ~(out - slash = 3 /\ d[slash + 1] = "/" /\ p[i - 1] = "." /\ p[i] = ".")
    PROVE  NoUp(d, out)
<1>1. SUFFICES ASSUME NEW k \in Nat, UpAt(d, out, k) PROVE FALSE
  BY DEF NoUp
<1>2. /\ k + 2 <= out /\ d[k + 1] = "." /\ d[k + 2] = "." /\ (k = 0 \/ d[k] = "/")
      /\ k + 2 = out \/ d[k + 3] = "/"
  BY <1>1 DEF UpAt
<1>3. 1 \in 1..(out - slash) /\ d[slash + 1] = p[b + 1] /\ (slash # 0 => d[slash + 1] = "/")
  <2>1. 1 \in 1..(out - slash)
    OBVIOUS
  <2> QED
    BY <2>1 DEF Part
<1>4. CASE k + 2 <= slash
  <2>1. k + 2 = slash \/ d[k + 3] = "/"
    BY <1>2, <1>4
  <2>2. UpAt(d, slash, k)
    BY <1>2, <1>4, <2>1 DEF UpAt
  <2> QED
    BY <2>2 DEF NoUp
<1>5. CASE k + 1 = slash
  <2>1. slash # 0 /\ slash + 1 = k + 2
    BY <1>5
  <2> QED
    BY <1>2, <1>3, <2>1
<1>6. CASE k = slash
  <2>1. p[b + 1] = "." /\ b = 0 /\ slash = 0 /\ k = 0 /\ i = out
    <3>1. p[b + 1] = "."
      BY <1>2, <1>3, <1>6
    <3>2. b = 0 /\ slash = 0
      BY <3>1 DEF Part
    <3> QED
      BY <1>6, <3>1, <3>2
  <2>2. \A j \in 1..out : d[j] = p[j]
    <3>1. \A j \in 1..(out - slash) : d[slash + j] = p[b + j]
      BY DEF Part
    <3> QED
      BY <2>1, <3>1
  <2>3. 2 <= out /\ p[1] = "." /\ p[2] = "." /\ out <= Len(p)
    BY <1>2, <2>1, <2>2
  <2>4. CASE out = 2
    <3>1. Len(p) = 2 \/ p[3] = "/"
      BY <2>1, <2>4
    <3> QED
      BY <2>3, <3>1 DEF BeginsBelow
  <2>5. CASE out # 2
    <3>1. 3 \in 2..(out - slash) /\ 3 \in 1..out /\ d[3] = "/"
      BY <1>2, <2>1, <2>3, <2>5
    <3>2. p[3] # "/" /\ d[3] = p[3]
      BY <2>1, <2>2, <3>1 DEF Part
    <3> QED
      BY <3>1, <3>2
  <2> QED
    BY <2>4, <2>5
<1>7. CASE k > slash
  <2> DEFINE j == k - slash
  <2>1. j \in Nat /\ 1 <= j /\ j + 2 <= out - slash /\ k = slash + j
    BY <1>2, <1>7
  <2> HIDE DEF j
  <2>2. d[slash + j] = p[b + j] /\ d[slash + j] = "/"
    <3>1. j \in 1..(out - slash) /\ k # 0
      BY <1>7, <2>1
    <3> QED
      BY <1>2, <2>1, <3>1 DEF Part
  <2>3. j = 1
    <3>1. SUFFICES ASSUME j # 1 PROVE FALSE
      OBVIOUS
    <3>2. j \in 2..(out - slash)
      BY <2>1, <3>1
    <3> QED
      BY <2>2, <3>2 DEF Part
  <2>4. k = slash + 1 /\ 3 <= out - slash /\ d[slash + 1] = "/"
    BY <2>1, <2>2, <2>3
  <2>5. CASE out - slash = 3
    <3>1. i = b + 3 /\ i - 1 = b + 2 /\ k + 1 = slash + 2 /\ k + 2 = slash + 3
      BY <2>4, <2>5
    <3>2. 2 \in 1..(out - slash) /\ 3 \in 1..(out - slash)
      BY <2>5
    <3>3. d[slash + 2] = p[b + 2] /\ d[slash + 3] = p[b + 3]
      BY <3>2 DEF Part
    <3> QED
      BY <1>2, <2>4, <2>5, <3>1, <3>3
  <2>6. CASE out - slash # 3
    <3>1. 4 \in 1..(out - slash) /\ 4 \in 2..(out - slash) /\ k + 3 = slash + 4 /\ k + 2 # out
      BY <2>4, <2>6
    <3>2. d[slash + 4] = p[b + 4] /\ p[b + 4] # "/"
      BY <3>1 DEF Part
    <3> QED
      BY <1>2, <3>1, <3>2
  <2> QED
    BY <2>5, <2>6
<1> QED
  BY <1>4, <1>5, <1>6, <1>7

(* The walk back goes back. *)
LEMMA ParentBack ==
    ASSUME NEW d, NEW s \in Nat, NEW x, x = Parent(d, s)
    PROVE  x \in Nat /\ x <= s /\ (x = 0 \/ d[x + 1] = "/")
<1> DEFINE T == {k \in 0..(s - 1) : d[k + 1] = "/"}
<1>1. \A k \in T : k \in 0..s /\ k \in Nat /\ k <= s /\ d[k + 1] = "/"
  OBVIOUS
<1>2. x = IF T = {} THEN 0 ELSE Max(T)
  BY DEF Parent
<1> HIDE DEF T
<1>3. T \in SUBSET (0..s)
  BY <1>1
<1>4. T # {} => Max(T) \in T
  BY <1>3, Greatest
<1> QED
  BY <1>1, <1>2, <1>4

(* The buffer before and after a round. *)
Below(r, p, i) ==
    /\ r.slash <= r.out /\ r.out <= Len(r.dest) /\ r.out - r.slash <= i
    /\ NoUp(r.dest, r.slash)
    /\ Part(r.dest, r.slash, r.out, p, i - (r.out - r.slash))
    /\ r.slash < r.out => p[i + 1] # "/"

(* A character more of the component that is being copied. *)
LEMMA PartWritten ==
    ASSUME NEW d, NEW w, NEW slash \in Nat, NEW out \in Nat, slash <= out, NEW p, NEW b \in Nat,
           \A k \in 1..out : w[k] = d[k], w[out + 1] = p[b + (out - slash) + 1],
           slash < out => p[b + (out - slash) + 1] # "/", Part(d, slash, out, p, b)
    PROVE  Part(w, slash, out + 1, p, b)
<1>1. ASSUME NEW k \in 1..((out + 1) - slash) PROVE w[slash + k] = p[b + k]
  <2>1. CASE k = (out - slash) + 1
    <3>1. slash + k = out + 1 /\ b + k = b + (out - slash) + 1
      BY <2>1
    <3> QED
      BY <3>1
  <2>2. CASE k # (out - slash) + 1
    <3>1. k \in 1..(out - slash) /\ slash + k \in 1..out
      BY <2>2
    <3>2. w[slash + k] = d[slash + k] /\ d[slash + k] = p[b + k]
      BY <3>1 DEF Part
    <3> QED
      BY <3>2
  <2> QED
    BY <2>1, <2>2
<1>2. ASSUME NEW k \in 2..((out + 1) - slash) PROVE p[b + k] # "/"
  <2>1. CASE k = (out - slash) + 1
    <3>1. slash < out /\ b + k = b + (out - slash) + 1
      BY <2>1
    <3> QED
      BY <3>1
  <2>2. CASE k # (out - slash) + 1
    <3>1. k \in 2..(out - slash)
      BY <2>2
    <3> QED
      BY <3>1 DEF Part
  <2> QED
    BY <2>1, <2>2
<1>3. (b = 0 /\ slash = 0) \/ p[b + 1] = "/"
  BY DEF Part
<1> QED
  BY <1>1, <1>2, <1>3 DEF Part

(* A component begins. *)
LEMMA PartEmpty ==
    ASSUME NEW d, NEW s \in Nat, NEW p, NEW b \in Nat, p[b + 1] = "/"
    PROVE  Part(d, s, s, p, b)
  BY DEF Part

(* A round of buffer_path_simplify leaves no "..". *)
LEMMA BelowRound ==
    ASSUME NEW p \in Seq(Char), NEW i \in 1..Len(p), NEW r \in SimplifyState,
           BeginsBelow(p), Below(r, p, i - 1), NEW x, x = Simplified(r, p, i)
    PROVE  /\ i < Len(p) => Below(x, p, i)
           /\ i = Len(p) => NoUp(x.dest, x.out) /\ x.out <= Len(x.dest)
<1> DEFINE w == Written(r.dest, r.out, p[i])
           pre2 == IF i > 1 THEN p[i - 1] ELSE ""
           fin == i = Len(p)
           slash == r.slash
           out == r.out
           next == Ended(w, slash, out + 1, pre2, p[i], fin)
           b == (i - 1) - (out - slash)
<1>1. /\ r.dest \in Seq(Char) /\ out \in Nat /\ slash \in Nat /\ p[i] \in Char
      /\ Len(r.dest) \in Nat
  BY DEF SimplifyState
<1>2. /\ slash <= out /\ out <= Len(r.dest) /\ out - slash <= i - 1 /\ NoUp(r.dest, slash)
      /\ Part(r.dest, slash, out, p, b) /\ (slash < out => p[i] # "/")
  <2>1. (i - 1) + 1 = i
    OBVIOUS
  <2> QED
    BY <2>1 DEF Below
<1>3. Puts(w, r.dest, out, p[i])
  BY <1>1, <1>2, WrittenFacts
<1>4. x = IF i = Len(p) \/ p[i + 1] = "/" THEN [dest |-> w, out |-> next, slash |-> next]
          ELSE [dest |-> w, out |-> out + 1, slash |-> slash]
  BY DEF Simplified
<1> HIDE DEF w, pre2, slash, out
<1>5. /\ w \in Seq(Char) /\ Len(w) \in Nat /\ out + 1 <= Len(w) /\ w[out + 1] = p[i]
      /\ \A k \in 1..out : w[k] = r.dest[k]
  BY <1>3 DEF Puts
<1>6. b \in Nat /\ b + (out - slash) + 1 = i /\ b + ((out + 1) - slash) = i /\ slash < out + 1
  BY <1>1, <1>2
<1>7. b = i - ((out + 1) - slash) /\ (out + 1) - slash <= i
  BY <1>1, <1>2
<1> HIDE DEF b
<1>8. Part(w, slash, out + 1, p, b)
  BY <1>1, <1>2, <1>5, <1>6, PartWritten
<1>9. NoUp(w, slash)
  <2>1. \A k \in 1..slash : w[k] = r.dest[k]
    BY <1>1, <1>2, <1>5
  <2> QED
    BY <1>1, <1>2, <2>1, UpKept
<1>10. CASE i # Len(p) /\ p[i + 1] # "/"
  <2>1. x.dest = w /\ x.out = out + 1 /\ x.slash = slash
    BY <1>4, <1>10
  <2>2. slash <= out + 1
    BY <1>1, <1>6
  <2> QED
    BY <1>5, <1>7, <1>8, <1>9, <1>10, <2>1, <2>2 DEF Below
<1>11. CASE i = Len(p) \/ p[i + 1] = "/"
  <2> DEFINE up == out + 1 - slash = 3 /\ pre2 = "." /\ p[i] = "." /\ w[slash + 1] = "/"
             same == out + 1 - slash = 1 \/ (pre2 = "/" /\ p[i] = ".")
             back == IF up THEN Parent(w, slash) ELSE slash
  <2>1. next = IF ~(up \/ same) THEN out + 1 ELSE IF fin THEN back + 1 ELSE back
    <3>1. fin \in BOOLEAN
      OBVIOUS
    <3> HIDE DEF fin
    <3>2. CASE up
      BY <1>1, <3>1, <3>2 DEF Ended
    <3>3. CASE ~up
      BY <1>1, <3>1, <3>3 DEF Ended
    <3> QED
      BY <3>2, <3>3
  <2>2. w[slash + 1] = "/" \/ slash = 0
    <3>1. 1 \in 1..((out + 1) - slash)
      BY <1>1, <1>6
    <3>2. w[slash + 1] = p[b + 1] /\ (slash = 0 \/ p[b + 1] = "/")
      BY <1>8, <3>1 DEF Part
    <3> QED
      BY <3>2
  <2>3. back \in Nat /\ back <= slash /\ (back = 0 \/ w[back + 1] = "/")
    <3>1. CASE up
      BY <1>1, <3>1, ParentBack
    <3>2. CASE ~up
      BY <1>1, <2>2, <3>2
    <3> QED
      BY <3>1, <3>2
  <2> HIDE DEF back
  <2>4. NoUp(w, back) /\ NoUp(w, back + 1)
    BY <1>1, <1>9, <2>3, UpBack
  <2>5. back <= Len(w) /\ back + 1 <= Len(w) /\ back + 1 \in Nat
    BY <1>1, <1>2, <1>5, <2>3
  <2>7. ~(up \/ same) => NoUp(w, out + 1)
    <3>1. SUFFICES ASSUME ~up PROVE NoUp(w, out + 1)
      OBVIOUS
    <3>2. ~((out + 1) - slash = 3 /\ w[slash + 1] = "/" /\ p[i - 1] = "." /\ p[i] = ".")
      <4>1. SUFFICES ASSUME (out + 1) - slash = 3, w[slash + 1] = "/", p[i - 1] = ".", p[i] = "."
                     PROVE  FALSE
        OBVIOUS
      <4>2. out + 1 - slash = 3 /\ i > 1
        BY <1>1, <1>7, <4>1
      <4>3. pre2 = "."
        BY <4>1, <4>2 DEF pre2
      <4> QED
        BY <3>1, <4>1, <4>2, <4>3
    <3>3. out + 1 \in Nat
      BY <1>1
    <3> QED
      BY <1>1, <1>6, <1>8, <1>9, <1>11, <3>2, <3>3, UpOn
  <2>8. next \in Nat /\ next <= Len(w) /\ NoUp(w, next)
    <3>1. out + 1 \in Nat
      BY <1>1
    <3> HIDE DEF up, same, fin, next
    <3> QED
      BY <1>5, <2>1, <2>3, <2>4, <2>5, <2>7, <3>1
  <2>9. x.dest = w /\ x.out = next /\ x.slash = next
    <3> HIDE DEF next
    <3> QED
      BY <1>4, <1>11
  <2> HIDE DEF next
  <2>10. CASE i = Len(p)
    BY <2>8, <2>9, <2>10
  <2>11. CASE i # Len(p)
    <3>1. p[i + 1] = "/" /\ i \in Nat
      BY <1>11, <2>11
    <3>2. Part(w, next, next, p, i)
      BY <2>8, <3>1, PartEmpty
    <3>3. next - next = 0 /\ i - (next - next) = i /\ 0 <= i
      BY <2>8
    <3> QED
      BY <2>8, <2>9, <2>11, <3>2, <3>3 DEF Below
  <2> QED
    BY <2>10, <2>11
<1> QED
  BY <1>10, <1>11

(* What is left of a path behind its leading spaces and dots. *)
LEMMA WalkType ==
    ASSUME NEW src \in Seq(Char)
    PROVE  Walk(src) \in Seq(Char) /\ BeginsBelow(Walk(src))
<1> DEFINE first == {i \in DOMAIN src : src[i] # " "}
           p == IF first = {} THEN <<>> ELSE SubSeq(src, Min(first), Len(src))
           Begins(dots) == IsPrefix(dots, p) /\ (Len(p) = Len(dots) \/ p[Len(dots) + 1] = "/")
<1>1. p \in Seq(Char)
  <2>1. CASE first = {}
    <3>1. p = <<>>
      BY <2>1
    <3>2. <<>> \in Seq(Char)
      OBVIOUS
    <3> HIDE DEF p
    <3> QED
      BY <3>1, <3>2
  <2>2. CASE first # {}
    <3>1. \A k \in first : k \in 0..Len(src) /\ k \in 1..Len(src)
      <4>1. DOMAIN src = 1..Len(src) /\ Len(src) \in Nat
        OBVIOUS
      <4>2. \A k \in DOMAIN src : k \in 0..Len(src) /\ k \in 1..Len(src)
        BY <4>1
      <4> QED
        BY <4>2
    <3> HIDE DEF first
    <3>2. first \in SUBSET Nat
      BY <3>1
    <3>3. PICK m \in first : \A k \in first : m <= k
      BY <2>2, <3>2, LeastNumber
    <3>4. Min(first) \in first
      BY <3>3 DEF Min
    <3>5. SubSeq(src, Min(first), Len(src)) \in Seq(Char)
      BY <3>1, <3>4
    <3> QED
      BY <2>2, <3>5
  <2> QED
    BY <2>1, <2>2
<1>2. Walk(src) = IF Begins(<<".">>) THEN Tail(p)
                  ELSE IF Begins(<<".", ".">>) THEN Tail(Tail(p)) ELSE p
  BY DEF Walk
<1> HIDE DEF p
<1>3. CASE Begins(<<".">>)
  <2>1. Len(p) >= 1 /\ (Len(p) = 1 \/ p[2] = "/")
    BY <1>1, <1>3 DEF IsPrefix
  <2> DEFINE t == Tail(p)
  <2>2. t \in Seq(Char) /\ Len(t) = Len(p) - 1 /\ (Len(p) > 1 => t[1] = p[2])
    BY <1>1, <2>1
  <2>3. BeginsBelow(t)
    <3> HIDE DEF t
    <3> QED
      BY <1>1, <2>1, <2>2 DEF BeginsBelow
  <2> QED
    BY <1>2, <1>3, <2>2, <2>3
<1>4. CASE ~Begins(<<".">>) /\ Begins(<<".", ".">>)
  <2>1. Len(p) >= 2 /\ (Len(p) = 2 \/ p[3] = "/")
    BY <1>1, <1>4 DEF IsPrefix
  <2> DEFINE t == Tail(Tail(p))
  <2>2. t \in Seq(Char) /\ Len(t) = Len(p) - 2 /\ (Len(p) > 2 => t[1] = p[3])
    <3> DEFINE u == Tail(p)
    <3>1. u \in Seq(Char) /\ Len(u) = Len(p) - 1 /\ (Len(p) > 2 => u[2] = p[3])
      BY <1>1, <2>1
    <3> HIDE DEF u
    <3>2. Tail(u) \in Seq(Char) /\ Len(Tail(u)) = Len(u) - 1 /\ (Len(u) > 1 => Tail(u)[1] = u[2])
      BY <1>1, <2>1, <3>1
    <3>3. t = Tail(u)
      BY DEF u
    <3> HIDE DEF t
    <3> QED
      BY <1>1, <2>1, <3>1, <3>2, <3>3
  <2>3. BeginsBelow(t)
    <3> HIDE DEF t
    <3> QED
      BY <1>1, <2>1, <2>2 DEF BeginsBelow
  <2> QED
    BY <1>2, <1>4, <2>2, <2>3
<1>5. CASE ~Begins(<<".">>) /\ ~Begins(<<".", ".">>)
  <2>1. BeginsBelow(p)
    <3>1. SUFFICES ASSUME Len(p) >= 2, p[1] = ".", p[2] = ".", Len(p) = 2 \/ p[3] = "/"
                   PROVE  Begins(<<".", ".">>)
      BY <1>5 DEF BeginsBelow
    <3>2. SubSeq(p, 1, 2) = <<".", ".">>
      <4>1. SubSeq(p, 1, 2) \in Seq(Char) /\ Len(SubSeq(p, 1, 2)) = 2
        BY <1>1, <3>1
      <4>2. SubSeq(p, 1, 2)[1] = "." /\ SubSeq(p, 1, 2)[2] = "."
        BY <1>1, <3>1
      <4> QED
        BY <4>1, <4>2, TwoLetters
    <3>3. Len(<<".", ".">>) = 2 /\ SubSeq(<<".", ".">>, 1, 2) = <<".", ".">>
      <4>1. "." \in Char
        BY DEF Char
      <4>2. ASSUME NEW u \in Seq(Char), u = <<".", ".">> PROVE Len(u) = 2 /\ SubSeq(u, 1, 2) = u
        <5>1. Len(u) = 2
          BY <4>2
        <5> QED
          BY <5>1
      <4>3. <<".", ".">> \in Seq(Char)
        BY <4>1
      <4> QED
        BY <4>2, <4>3, Zenon
    <3> QED
      BY <1>1, <3>1, <3>2, <3>3 DEF IsPrefix
  <2> QED
    BY <1>1, <1>2, <1>5, <2>1
<1> QED
  BY <1>3, <1>4, <1>5

(* No ".." is left in any path. *)
LEMMA SimplifiedBelow ==
    ASSUME NEW src \in Seq(Char)
    PROVE  \E x \in Seq(Char), out \in Nat :
              buffer_path_simplify(src) = SubSeq(x, 1, out) /\ NoUp(x, out) /\ out <= Len(x)
<1> DEFINE p == Walk(src)
           n == Len(p)
           e == Simplifying(p)
           T == {i \in 0..n : i < n => Below(e[i], p, i)}
<1>1. p \in Seq(Char) /\ BeginsBelow(p) /\ n \in Nat
  BY WalkType
<1> HIDE DEF p
<1>2. /\ e[0] = [dest |-> <<>>, out |-> 0, slash |-> 0]
      /\ \A i \in 0..n : e[i] \in SimplifyState
      /\ \A i \in 1..n : e[i] = Simplified(e[i - 1], p, i)
  BY <1>1, SimplifyingDef
<1>3. buffer_path_simplify(src) = SubSeq(e[n].dest, 1, e[n].out)
  BY DEF buffer_path_simplify, p
<1> HIDE DEF e
<1>4. 0 \in T
  <2>1. NoUp(<<>>, 0) /\ Part(<<>>, 0, 0, p, 0)
    BY DEF NoUp, UpAt, Part
  <2>2. Below(e[0], p, 0)
    BY <1>2, <2>1 DEF Below
  <2> QED
    BY <1>1, <2>2
<1>5. ASSUME NEW i \in 1..n, i - 1 \in T PROVE i \in T
  <2>1. Below(e[i - 1], p, i - 1) /\ e[i - 1] \in SimplifyState /\ e[i] = Simplified(e[i - 1], p, i)
    BY <1>1, <1>2, <1>5
  <2>2. i < n => Below(e[i], p, i)
    BY <1>1, <2>1, BelowRound
  <2> QED
    BY <2>2
<1>6. \A i \in 0..n : i \in T
  <2> HIDE DEF T, n
  <2> QED
    BY <1>1, <1>4, <1>5, Rounds
<1> DEFINE x == e[n].dest
           out == e[n].out
<1>7. NoUp(x, out) /\ out <= Len(x) /\ x \in Seq(Char) /\ out \in Nat
  <2>1. x \in Seq(Char) /\ out \in Nat
    BY <1>1, <1>2 DEF SimplifyState
  <2>2. CASE n = 0
    <3>1. x = <<>> /\ out = 0
      BY <1>2, <2>2
    <3> QED
      BY <2>1, <3>1 DEF NoUp, UpAt
  <2>3. CASE n # 0
    <3>1. n \in 1..n /\ n - 1 \in 0..n /\ n - 1 < n
      BY <1>1, <2>3
    <3>2. Below(e[n - 1], p, n - 1) /\ e[n - 1] \in SimplifyState /\ e[n] = Simplified(e[n - 1], p, n)
      BY <1>2, <1>6, <3>1
    <3>3. NoUp(e[n].dest, e[n].out) /\ e[n].out <= Len(e[n].dest)
      BY <1>1, <3>1, <3>2, BelowRound
    <3> QED
      BY <2>1, <3>3
  <2> QED
    BY <2>2, <2>3
<1> HIDE DEF x, out
<1> QED
  BY <1>3, <1>7 DEF x, out

(* No component of what buffer_path_simplify gives is "..", whatever it is   *)
(* given, so that no path leads out of webroot.                              *)
THEOREM PathStaysBelow ==
    ASSUME NEW src \in Seq(Char), NEW k \in Nat
    PROVE  buffer_path_simplify(src) \in Seq(Char) /\ ~GoesUp(buffer_path_simplify(src), k)
<1>1. PICK x \in Seq(Char), out \in Nat :
         buffer_path_simplify(src) = SubSeq(x, 1, out) /\ NoUp(x, out) /\ out <= Len(x)
  BY SimplifiedBelow
<1> DEFINE s == SubSeq(x, 1, out)
<1>2. s \in Seq(Char) /\ Len(s) = out /\ \A j \in 1..out : s[j] = x[j]
  BY <1>1
<1>3. ASSUME GoesUp(s, k) PROVE FALSE
  <2> HIDE DEF s
  <2>1. k + 2 <= out /\ s[k + 1] = "." /\ s[k + 2] = "." /\ (k = 0 \/ s[k] = "/")
         /\ (k + 2 = out \/ s[k + 3] = "/")
    BY <1>2, <1>3 DEF GoesUp
  <2>2. /\ k + 1 \in 1..out /\ k + 2 \in 1..out /\ (k # 0 => k \in 1..out)
         /\ (k + 2 # out => k + 3 \in 1..out)
    BY <1>1, <2>1
  <2>3. UpAt(x, out, k)
    BY <1>2, <2>1, <2>2 DEF UpAt
  <2> QED
    BY <1>1, <2>3 DEF NoUp
<1> HIDE DEF s
<1> QED
  BY <1>1, <1>2, <1>3 DEF s

---------------------------------------------------------------------------
(* Templates *)

(* A run of name characters is read as the name. *)
LEMMA VarNameIs ==
    ASSUME NEW src \in Seq(Char), NEW i \in 1..(Len(src) + 1), NEW m \in Nat, i + m <= Len(src) + 1,
           \A j \in i..(i + m - 1) : IsNameChar(src[j]),
           i + m = Len(src) + 1 \/ ~IsNameChar(src[i + m])
    PROVE  VarName(src, i) = SubSeq(src, i, i + m - 1)
<1> DEFINE ends == {j \in i..Len(src) : ~IsNameChar(src[j])}
<1>1. Len(src) \in Nat /\ i \in Nat
  OBVIOUS
<1>2. VarName(src, i) = SubSeq(src, i, (IF ends = {} THEN Len(src) + 1 ELSE Min(ends)) - 1)
  BY DEF VarName
<1>3. ASSUME NEW k \in ends PROVE k \in Nat /\ i + m <= k
  BY <1>1
<1>4. CASE i + m = Len(src) + 1
  <2>1. ends = {}
    <3>1. SUFFICES ASSUME NEW k \in ends PROVE FALSE
      OBVIOUS
    <3>2. k <= Len(src) /\ k \in Nat /\ i + m <= k
      BY <1>1, <1>3
    <3> HIDE DEF ends
    <3> QED
      BY <1>1, <1>4, <3>2
  <2>2. (Len(src) + 1) - 1 = i + m - 1
    BY <1>1, <1>4
  <2> HIDE DEF ends
  <2> QED
    BY <1>2, <2>1, <2>2
<1>5. CASE i + m # Len(src) + 1
  <2>1. i + m \in ends
    BY <1>1, <1>5
  <2>2. Min(ends) \in ends /\ Min(ends) <= i + m
    <3> HIDE DEF ends
    <3> QED
      BY <1>3, <2>1 DEF Min
  <2> HIDE DEF ends
  <2>3. Min(ends) \in Nat /\ i + m <= Min(ends)
    BY <1>3, <2>2
  <2>4. Min(ends) = i + m
    BY <1>1, <2>2, <2>3
  <2> QED
    BY <1>2, <2>1, <2>4
<1> QED
  BY <1>4, <1>5

(* A name is a text that lies in the template. *)
LEMMA VarNameType ==
    ASSUME NEW src \in Seq(Char), NEW i \in 1..(Len(src) + 1)
    PROVE  VarName(src, i) \in Seq(Char)
<1> DEFINE ends == {j \in i..Len(src) : ~IsNameChar(src[j])}
           x == IF ends = {} THEN Len(src) + 1 ELSE Min(ends)
<1>1. Len(src) \in Nat /\ i \in Nat /\ 1 <= i
  OBVIOUS
<1>2. \A k \in ends : k \in Nat /\ k <= Len(src)
  BY <1>1
<1>3. VarName(src, i) = SubSeq(src, i, x - 1)
  BY DEF VarName
<1> HIDE DEF ends
<1>4. x \in Nat /\ x - 1 <= Len(src)
  <2>1. CASE ends = {}
    BY <1>1, <2>1
  <2>2. CASE ends # {}
    <3>1. PICK m \in ends : \A k \in ends : m <= k
      BY <1>2, <2>2, LeastNumber
    <3>2. Min(ends) \in ends
      BY <3>1 DEF Min
    <3> QED
      BY <1>1, <1>2, <2>2, <3>2
  <2> QED
    BY <2>1, <2>2
<1> HIDE DEF x
<1>5. SubSeq(src, i, x - 1) \in Seq(Char)
  <2>1. ASSUME NEW k \in i..(x - 1) PROVE k \in 1..Len(src)
    BY <1>1, <1>4
  <2>2. x - 1 \in Int
    BY <1>4
  <2> QED
    BY <1>1, <1>4, <2>1, <2>2
<1> QED
  BY <1>3, <1>5

ParseState == [dst : Seq(Char), src_i : Nat]

(* The variables map names to texts. *)
IsVars(env) == \A name \in DOMAIN env : env[name] \in Seq(Char)

LEMMA ValueType ==
    ASSUME NEW env, IsVars(env), NEW maxname, NEW name \in Seq(Char)
    PROVE  Value(env, maxname, name) \in Seq(Char)
  BY DEF Value, IsVars

(* A round of tmpl_parse keeps the types. *)
LEMMA ParseType ==
    ASSUME NEW env, IsVars(env), NEW maxname \in Nat, NEW dst_len \in Nat,
           NEW src \in Seq(Char), NEW r \in ParseState, NEW i \in 1..Len(src)
    PROVE  ParseChar(r, env, maxname, dst_len, src, i) \in ParseState
<1> DEFINE name == VarName(src, i + 1)
           v == Value(env, maxname, name)
<1>1. r.dst \in Seq(Char) /\ r.src_i \in Nat /\ src[i] \in Char
  BY DEF ParseState
<1>2. name \in Seq(Char) /\ Len(name) \in Nat
  <2>1. i + 1 \in 1..(Len(src) + 1)
    OBVIOUS
  <2>2. name \in Seq(Char)
    BY <2>1, VarNameType
  <2> QED
    BY <2>2
<1>3. v \in Seq(Char)
  <2> HIDE DEF name
  <2> QED
    BY <1>2, ValueType
<1>4. ParseChar(r, env, maxname, dst_len, src, i) =
        IF i < r.src_i \/ Len(r.dst) >= dst_len THEN r
        ELSE IF src[i] # "$" THEN [dst |-> Append(r.dst, src[i]), src_i |-> i + 1]
        ELSE [dst |-> r.dst \o v, src_i |-> i + 1 + Len(name)]
  BY DEF ParseChar
<1> HIDE DEF name, v
<1>5. r.dst \o v \in Seq(Char) /\ Append(r.dst, src[i]) \in Seq(Char)
  BY <1>1, <1>3
<1>6. i + 1 \in Nat /\ i + 1 + Len(name) \in Nat
  BY <1>2
<1> QED
  BY <1>4, <1>5, <1>6 DEF ParseState

(* The loop of tmpl_parse *)
LEMMA ParsingDef ==
    ASSUME NEW env, IsVars(env), NEW maxname \in Nat, NEW dst_len \in Nat,
           NEW src \in Seq(Char), NEW e, e = Parsing(env, maxname, dst_len, src)
    PROVE  /\ \A i \in 0..Len(src) : e[i] \in ParseState
           /\ e[0] = [dst |-> <<>>, src_i |-> 1]
           /\ \A i \in 1..Len(src) : e[i] = ParseChar(e[i - 1], env, maxname, dst_len, src, i)
<1> DEFINE n == Len(src)
           a == [dst |-> <<>>, src_i |-> 1]
           P(r, i) == ParseChar(r, env, maxname, dst_len, src, i)
           step == [i \in 1..n |-> [r \in ParseState |-> P(r, i)]]
           Round(f) == [i \in 0..n |-> IF i = 0 THEN a ELSE P(f[i - 1], i)]
<1>1. n \in Nat /\ a \in ParseState
  BY DEF ParseState
<1>2. step \in [1..n -> [ParseState -> ParseState]]
  BY ParseType
<1>3. PICK f \in [0..n -> ParseState] : IsRun(f, n, a, step)
  <2> HIDE DEF a, step, n
  <2> QED BY <1>1, <1>2, LoopExists
<1>4. f = Round(f)
  <2>1. ASSUME NEW i \in 1..n PROVE f[i] = P(f[i - 1], i)
    <3>1. f[i - 1] \in ParseState
      OBVIOUS
    <3> QED
      BY <1>3, <3>1 DEF IsRun
  <2> HIDE DEF a, P
  <2> QED
    BY <1>1, <1>3, <2>1 DEF IsRun
<1>5. e = Round(e)
  <2>1. e = CHOOSE g : g = Round(g)
    BY DEF Parsing
  <2> HIDE DEF Round
  <2> QED BY <1>4, <2>1
<1>6. e[0] = a /\ \A i \in 1..n : e[i] = P(e[i - 1], i)
  <2> HIDE DEF a, P
  <2> QED BY <1>1, <1>5
<1> DEFINE T == {i \in 0..n : e[i] \in ParseState}
<1>7. \A i \in 0..n : i \in T
  <2>1. 0 \in T
    BY <1>1, <1>6
  <2>2. ASSUME NEW i \in 1..n, i - 1 \in T PROVE i \in T
    <3>1. e[i - 1] \in ParseState
      BY <2>2
    <3>2. P(e[i - 1], i) \in ParseState
      BY <3>1, ParseType
    <3> HIDE DEF P
    <3> QED
      BY <1>6, <3>2
  <2> HIDE DEF T, n
  <2> QED
    BY <1>1, <2>1, <2>2, Rounds
<1> QED
  BY <1>6, <1>7

(* The first k texts, one after the other. *)
Joined(ss, k) == FlattenSeq(SubSeq(ss, 1, k))

(* The texts are put together one by one. *)
LEMMA JoinedStep ==
    ASSUME NEW ss \in Seq(Seq(Char))
    PROVE  /\ Joined(ss, 0) = <<>> /\ Joined(ss, Len(ss)) = FlattenSeq(ss)
           /\ \A k \in 0..Len(ss) : Joined(ss, k) \in Seq(Char)
           /\ \A k \in 1..Len(ss) : Joined(ss, k) = Joined(ss, k - 1) \o ss[k]
<1> DEFINE S == Seq(Char)
<1> HIDE DEF S
<1>0. ss \in Seq(S) /\ Len(ss) \in Nat
  BY DEF S
<1>1. \A k \in 0..Len(ss) : SubSeq(ss, 1, k) \in Seq(S)
  BY <1>0
<1>2. SubSeq(ss, 1, 0) = <<>> /\ SubSeq(ss, 1, Len(ss)) = ss
  BY <1>0
<1>3. ASSUME NEW k \in 1..Len(ss)
      PROVE  SubSeq(ss, 1, k) = Append(SubSeq(ss, 1, k - 1), ss[k]) /\ ss[k] \in S
  BY <1>0
<1>4. <<>> \in Seq(S)
  OBVIOUS
<1>5. FlattenSeq(<<>>) = <<>>
  BY <1>4, Flatten DEF S
<1>6. \A k \in 0..Len(ss) : Joined(ss, k) \in S
  BY <1>1, Flatten DEF S, Joined
<1>7. ASSUME NEW k \in 1..Len(ss) PROVE Joined(ss, k) = Joined(ss, k - 1) \o ss[k]
  <2>1. k - 1 \in 0..Len(ss)
    BY <1>0
  <2>2. SubSeq(ss, 1, k - 1) \in Seq(S)
    BY <1>1, <2>1
  <2> DEFINE a == SubSeq(ss, 1, k - 1)
             t == ss[k]
  <2>3. a \in Seq(Seq(Char)) /\ t \in Seq(Char)
    BY <1>3, <2>2 DEF S
  <2>4. SubSeq(ss, 1, k) = Append(a, t)
    BY <1>3
  <2> HIDE DEF a, t
  <2>5. FlattenSeq(Append(a, t)) = FlattenSeq(a) \o t
    BY <2>3, Flatten
  <2> QED
    BY <2>4, <2>5 DEF Joined, a, t
<1> QED
  BY <1>2, <1>5, <1>6, <1>7 DEF S, Joined

LEMMA ConcatFacts ==
    ASSUME NEW a \in Seq(Char), NEW b \in Seq(Char), NEW c, c = a \o b
    PROVE  /\ c \in Seq(Char) /\ Len(c) = Len(a) + Len(b) /\ Len(a) \in Nat /\ Len(b) \in Nat
           /\ Extends(a, c)
           /\ \A j \in 1..Len(b) : c[Len(a) + j] = b[j]
  BY DEF Extends

(* The first texts are the begin of the whole. *)
LEMMA JoinedExtends ==
    ASSUME NEW ss \in Seq(Seq(Char)), NEW k \in 0..Len(ss)
    PROVE  Extends(Joined(ss, k), FlattenSeq(ss))
<1> DEFINE n == Len(ss)
           T == {j \in 0..n : k <= j => Extends(Joined(ss, k), Joined(ss, j))}
<1>1. /\ n \in Nat /\ k \in Nat /\ \A j \in 0..n : Joined(ss, j) \in Seq(Char)
      /\ Joined(ss, n) = FlattenSeq(ss)
      /\ \A j \in 1..n : Joined(ss, j) = Joined(ss, j - 1) \o ss[j] /\ ss[j] \in Seq(Char)
  <2>1. n \in Nat /\ k \in Nat /\ \A j \in 1..n : ss[j] \in Seq(Char)
    OBVIOUS
  <2>2. /\ Joined(ss, n) = FlattenSeq(ss) /\ \A j \in 0..n : Joined(ss, j) \in Seq(Char)
        /\ \A j \in 1..n : Joined(ss, j) = Joined(ss, j - 1) \o ss[j]
    BY JoinedStep
  <2> HIDE DEF n
  <2> QED
    BY <2>1, <2>2
<1>2. Extends(Joined(ss, k), Joined(ss, k))
  <2>1. Joined(ss, k) \in Seq(Char)
    BY <1>1
  <2> QED
    BY <2>1 DEF Extends
<1> HIDE DEF n
<1>3. 0 \in T
  <2>1. k <= 0 => k = 0
    BY <1>1
  <2> QED
    BY <1>1, <1>2, <2>1
<1>4. ASSUME NEW j \in 1..n, j - 1 \in T PROVE j \in T
  <2>1. CASE k = j
    BY <1>1, <1>2, <2>1
  <2>2. CASE k # j
    <3>1. SUFFICES ASSUME k <= j PROVE Extends(Joined(ss, k), Joined(ss, j))
      BY <1>1
    <3>2. Extends(Joined(ss, k), Joined(ss, j - 1)) /\ j - 1 \in 0..n
      BY <1>1, <1>4, <2>2, <3>1
    <3>3. Joined(ss, j - 1) \in Seq(Char) /\ ss[j] \in Seq(Char) /\ Joined(ss, j) = Joined(ss, j - 1) \o ss[j]
      BY <1>1, <3>2
    <3>4. Extends(Joined(ss, j - 1), Joined(ss, j))
      BY <3>3, ConcatFacts
    <3>5. Joined(ss, k) \in Seq(Char) /\ Joined(ss, j) \in Seq(Char)
      <4>1. k \in 0..n /\ j \in 0..n
        BY <1>1 DEF n
      <4> QED
        BY <1>1, <4>1
    <3>6. Len(Joined(ss, k)) \in Nat /\ Len(Joined(ss, j - 1)) \in Nat /\ Len(Joined(ss, j)) \in Nat
      <4>1. \A s \in Seq(Char) : Len(s) \in Nat
        OBVIOUS
      <4> QED
        BY <3>3, <3>5, <4>1, Zenon
    <3> QED
      BY <3>2, <3>4, <3>6, ExtendsAgain
  <2> QED
    BY <2>1, <2>2
<1>5. \A j \in 0..n : j \in T
  <2> HIDE DEF T
  <2> QED
    BY <1>1, <1>3, <1>4, Rounds
<1>6. n \in T /\ k <= n
  BY <1>1, <1>5 DEF n
<1> QED
  BY <1>1, <1>6

(* A character that is copied, or a variable and its value. *)
IsPiece(env, maxname, t, v) ==
    /\ t \in Seq(Char) /\ v \in Seq(Char) /\ Len(t) >= 1
    /\ \/ Len(t) = 1 /\ t[1] # "$" /\ v = t
       \/ /\ t[1] = "$" /\ \A j \in 2..Len(t) : IsNameChar(t[j])
          /\ v = Value(env, maxname, Tail(t))

(* After k pieces the buffer has their values, or is full. *)
Filled(r, dst_len, full, pos) ==
    /\ Cut(r.dst, dst_len) = Cut(full, dst_len)
    /\ Len(r.dst) < dst_len => r.dst = full /\ r.src_i = pos + 1

(* What a cut leaves does not depend on what comes behind it. *)
LEMMA CutFacts ==
    ASSUME NEW a \in Seq(Char), NEW b \in Seq(Char), NEW n \in Nat
    PROVE  /\ Len(Cut(a, n)) = IF n < Len(a) THEN n ELSE Len(a)
           /\ Len(a) >= n => Cut(a \o b, n) = Cut(a, n)
<1>1. Len(a) \in Nat /\ Len(b) \in Nat
  OBVIOUS
<1>2. Len(Cut(a, n)) = IF n < Len(a) THEN n ELSE Len(a)
  BY <1>1 DEF Cut
<1>3. ASSUME Len(a) >= n PROVE Cut(a \o b, n) = Cut(a, n)
  <2> DEFINE c == a \o b
  <2>1. /\ c \in Seq(Char) /\ Len(c) = Len(a) + Len(b) /\ Extends(a, c)
    BY ConcatFacts
  <2> HIDE DEF c
  <2>2. Cut(c, n) = SubSeq(c, 1, n) /\ Cut(a, n) = SubSeq(a, 1, n)
    BY <1>1, <1>3, <2>1 DEF Cut
  <2>3. SubSeq(c, 1, n) = [k \in 1..n |-> c[k]] /\ SubSeq(a, 1, n) = [k \in 1..n |-> a[k]]
    BY <1>1, <1>3, <2>1
  <2>4. \A k \in 1..n : c[k] = a[k]
    BY <1>1, <1>3, <2>1 DEF Extends
  <2> QED
    BY <2>2, <2>3, <2>4 DEF c
<1> QED
  BY <1>2, <1>3
IsParsing(e, env, maxname, dst_len, src) ==
    /\ e[0] = [dst |-> <<>>, src_i |-> 1]
    /\ \A i \in 0..Len(src) : e[i] \in ParseState
    /\ \A i \in 1..Len(src) : e[i] = ParseChar(e[i - 1], env, maxname, dst_len, src, i)

Rests(r, dst_len, b) == Len(r.dst) >= dst_len \/ b < r.src_i

(* Nothing changes while the buffer is full, or in the rounds of a name. *)
LEMMA ParseRests ==
    ASSUME NEW env, NEW maxname \in Nat, NEW dst_len \in Nat,
           NEW src \in Seq(Char), NEW e, IsParsing(e, env, maxname, dst_len, src)
    PROVE  \A a, b \in Nat : (a <= b /\ b <= Len(src) /\ Rests(e[a], dst_len, b)) => e[b] = e[a]
<1>0. SUFFICES ASSUME NEW a \in Nat, NEW b \in Nat, a <= b, b <= Len(src), Rests(e[a], dst_len, b)
               PROVE  e[b] = e[a]
  OBVIOUS
<1> DEFINE n == Len(src)
           T == {i \in 0..n : a <= i /\ i <= b => e[i] = e[a]}
<1>1. /\ n \in Nat /\ a \in Nat /\ b \in Nat /\ b <= n /\ a <= b
      /\ \A i \in 0..n : e[i] \in ParseState
      /\ \A i \in 1..n : e[i] = ParseChar(e[i - 1], env, maxname, dst_len, src, i)
  <2>1. /\ \A i \in 0..n : e[i] \in ParseState
        /\ \A i \in 1..n : e[i] = ParseChar(e[i - 1], env, maxname, dst_len, src, i)
    BY DEF IsParsing
  <2>2. n \in Nat /\ a \in Nat /\ b \in Nat /\ b <= n /\ a <= b
    BY <1>0
  <2> QED
    BY <2>1, <2>2
<1>2. e[a].src_i \in Nat
  BY <1>1 DEF ParseState
<1> HIDE DEF n
<1>3. 0 \in T
  <2>1. a <= 0 => a = 0
    BY <1>1
  <2> QED
    BY <1>1, <2>1
<1>4. ASSUME NEW i \in 1..n, i - 1 \in T PROVE i \in T
  <2>1. SUFFICES ASSUME a <= i, i <= b PROVE e[i] = e[a]
    BY <1>1
  <2>2. CASE i = a
    BY <2>2
  <2>3. CASE i # a
    <3>1. e[i - 1] = e[a]
      BY <1>1, <1>4, <2>1, <2>3
    <3>2. Len(e[a].dst) >= dst_len \/ i < e[a].src_i
      <4>1. Len(e[a].dst) >= dst_len \/ b < e[a].src_i
        BY <1>0 DEF Rests
      <4> QED
        BY <1>1, <1>2, <2>1, <4>1
    <3> QED
      BY <1>1, <3>1, <3>2 DEF ParseChar
  <2> QED
    BY <2>2, <2>3
<1>5. \A i \in 0..n : i \in T
  <2> HIDE DEF T
  <2> QED
    BY <1>1, <1>3, <1>4, Rounds
<1>6. b \in 0..n
  BY <1>1
<1> QED
  BY <1>1, <1>5, <1>6

(* A text stands in src behind pos. *)
Stands(src, pos, t) == pos + Len(t) <= Len(src) /\ \A j \in 1..Len(t) : src[pos + j] = t[j]

(* No name goes on behind pos. *)
NameStops(src, pos) == pos = Len(src) \/ ~IsNameChar(src[pos + 1])

(* A "$" and a name. *)
IsNamed(t) == \A j \in 2..Len(t) : IsNameChar(t[j])

(* The name behind a "$" is read up to its end. *)
LEMMA NameRead ==
    ASSUME NEW src \in Seq(Char), NEW pos \in Nat, NEW t \in Seq(Char), Len(t) >= 1,
           Stands(src, pos, t), NameStops(src, pos + Len(t)), IsNamed(t)
    PROVE  VarName(src, (pos + 1) + 1) = Tail(t)
<1> DEFINE i == (pos + 1) + 1
           m == Len(t)
           h == m - 1
<1>1. m \in Nat /\ m >= 1 /\ pos + m <= Len(src) /\ Len(src) \in Nat
  BY DEF Stands
<1>0. \A j \in 1..m : src[pos + j] = t[j]
  BY DEF Stands
<1> HIDE DEF m
<1>2. /\ i \in 1..(Len(src) + 1) /\ h \in Nat /\ i + h <= Len(src) + 1 /\ i + h = pos + m + 1
      /\ i + h - 1 = pos + m /\ i \in Nat
  BY <1>1
<1>3. ASSUME NEW j \in i..(i + h - 1) PROVE IsNameChar(src[j])
  <2>1. j - pos \in 2..m /\ j - pos \in 1..m /\ pos + (j - pos) = j
    BY <1>1
  <2>2. src[j] = t[j - pos]
    BY <1>0, <2>1
  <2> QED
    BY <2>1, <2>2 DEF m, IsNamed
<1>4. i + h = Len(src) + 1 \/ ~IsNameChar(src[i + h])
  <2>1. pos + m = Len(src) \/ ~IsNameChar(src[pos + m + 1])
    BY DEF NameStops, m
  <2> HIDE DEF i, h
  <2> QED
    BY <1>1, <1>2, <2>1
<1>5. VarName(src, i) = SubSeq(src, i, i + h - 1)
  <2> HIDE DEF i, h
  <2> QED
    BY <1>2, <1>3, <1>4, VarNameIs
<1>6. SubSeq(src, i, i + h - 1) = Tail(t)
  <2> DEFINE u == SubSeq(src, i, pos + m)
             v == Tail(t)
  <2>1. u \in Seq(Char) /\ Len(u) = h /\ \A k \in 1..h : u[k] = src[pos + (k + 1)]
    <3>1. pos + m \in Int /\ (pos + m) - i + 1 = h
      BY <1>1
    <3>2. ASSUME NEW k \in 1..h PROVE i + k - 1 = pos + (k + 1)
      BY <1>1
    <3> HIDE DEF i, h
    <3>3. u \in Seq(Char) /\ Len(u) = h /\ \A k \in 1..h : u[k] = src[i + k - 1]
      BY <1>1, <1>2, <3>1
    <3> QED
      BY <3>2, <3>3
  <2>2. v \in Seq(Char) /\ Len(v) = h /\ \A k \in 1..h : v[k] = t[k + 1]
    BY <1>1 DEF m
  <2>3. ASSUME NEW k \in 1..h PROVE u[k] = v[k]
    <3>1. k + 1 \in 1..m
      BY <1>1
    <3>2. src[pos + (k + 1)] = t[k + 1]
      BY <1>0, <3>1
    <3> HIDE DEF u, v
    <3> QED
      BY <2>1, <2>2, <3>2
  <2> HIDE DEF u, v, h
  <2>4. u = v
    BY <2>1, <2>2, <2>3
  <2> QED
    BY <1>2, <2>4 DEF u, v
<1> QED
  BY <1>5, <1>6

(* The rounds of one piece, at the characters behind pos. *)
LEMMA PieceParsed ==
    ASSUME NEW env, NEW maxname \in Nat, NEW dst_len \in Nat,
           NEW src \in Seq(Char), NEW e, IsParsing(e, env, maxname, dst_len, src),
           NEW pos \in Nat, NEW t, NEW v, IsPiece(env, maxname, t, v), Stands(src, pos, t),
           t[1] = "$" => NameStops(src, pos + Len(t)),
           NEW full \in Seq(Char), Filled(e[pos], dst_len, full, pos)
    PROVE  Filled(e[pos + Len(t)], dst_len, full \o v, pos + Len(t))
<1> DEFINE r == e[pos]
           m == Len(t)
           x == e[pos + 1]
<1>1. t \in Seq(Char) /\ v \in Seq(Char) /\ m \in Nat /\ m >= 1 /\ Len(src) \in Nat
  BY DEF IsPiece
<1>0. pos + m <= Len(src)
  BY DEF Stands
<1>9. \A a, b \in Nat : (a <= b /\ b <= Len(src) /\ Rests(e[a], dst_len, b)) => e[b] = e[a]
  BY ParseRests
<1>2. /\ pos \in 0..Len(src) /\ pos + 1 \in 1..Len(src) /\ pos + 1 \in 0..Len(src)
      /\ pos + m \in Nat /\ pos <= pos + m /\ pos + 1 <= pos + m /\ pos + 1 \in Nat
  BY <1>0, <1>1
<1>3. r \in ParseState /\ x = ParseChar(r, env, maxname, dst_len, src, pos + 1)
  <2>1. /\ \A i \in 0..Len(src) : e[i] \in ParseState
        /\ \A i \in 1..Len(src) : e[i] = ParseChar(e[i - 1], env, maxname, dst_len, src, i)
    BY DEF IsParsing
  <2>2. (pos + 1) - 1 = pos
    OBVIOUS
  <2> QED
    BY <1>2, <2>1, <2>2
<1>4. r.dst \in Seq(Char) /\ r.src_i \in Nat /\ Len(r.dst) \in Nat
  BY <1>3 DEF ParseState
<1>5. src[pos + 1] = t[1]
  <2>1. 1 \in 1..m
    BY <1>1
  <2> QED
    BY <2>1 DEF Stands
<1>6. CASE Len(r.dst) >= dst_len
  <2>1. e[pos + m] = r
    <3> DEFINE q == pos + m
    <3>1. q \in Nat /\ pos <= q /\ q <= Len(src)
      BY <1>0, <1>2
    <3> HIDE DEF q
    <3>2. Rests(e[pos], dst_len, q)
      BY <1>6 DEF Rests
    <3>3. e[q] = e[pos]
      BY <1>9, <3>1, <3>2
    <3> QED
      BY <3>3 DEF q
  <2>2. Len(Cut(r.dst, dst_len)) = dst_len
    <3>1. Len(Cut(r.dst, dst_len)) = IF dst_len < Len(r.dst) THEN dst_len ELSE Len(r.dst)
      BY <1>4, CutFacts
    <3> QED
      BY <1>4, <1>6, <3>1
  <2>3. Len(full) >= dst_len
    <3>1. Len(Cut(full, dst_len)) = IF dst_len < Len(full) THEN dst_len ELSE Len(full)
      BY CutFacts
    <3>2. Cut(r.dst, dst_len) = Cut(full, dst_len)
      BY DEF Filled
    <3>3. Len(full) \in Nat
      OBVIOUS
    <3> QED
      BY <2>2, <3>1, <3>2, <3>3
  <2>4. Cut(full \o v, dst_len) = Cut(full, dst_len)
    BY <1>1, <2>3, CutFacts
  <2>5. ~(Len(r.dst) < dst_len)
    BY <1>4, <1>6
  <2> HIDE DEF r, m
  <2> QED
    BY <2>1, <2>4, <2>5 DEF Filled, r, m
<1>7. CASE ~(Len(r.dst) >= dst_len)
  <2>1. r.dst = full /\ r.src_i = pos + 1
    <3>1. Len(r.dst) < dst_len
      BY <1>4, <1>7
    <3> QED
      BY <3>1 DEF Filled
  <2>2. ~(pos + 1 < r.src_i)
    BY <2>1
  <2>3. CASE t[1] # "$"
    <3>1. m = 1 /\ v = t
      BY <2>3 DEF IsPiece
    <3>2. x = [dst |-> Append(full, t[1]), src_i |-> (pos + 1) + 1]
      BY <1>3, <1>5, <1>7, <2>1, <2>2, <2>3 DEF ParseChar
    <3>3. Append(full, t[1]) = full \o v
      <4>1. t[1] \in Char
        BY <1>1
      <4>2. t = <<t[1]>>
        BY <1>1, <3>1
      <4>3. \A c \in Char : Append(full, c) = full \o <<c>>
        OBVIOUS
      <4> QED
        BY <3>1, <4>1, <4>2, <4>3, Zenon
    <3>4. x.dst = full \o v /\ x.src_i = (pos + m) + 1
      BY <3>1, <3>2, <3>3
    <3> HIDE DEF x, m
    <3>5. e[pos + m] = x
      BY <3>1 DEF x
    <3> QED
      BY <3>4, <3>5 DEF Filled, m
  <2>4. CASE t[1] = "$"
    <3> DEFINE name == VarName(src, (pos + 1) + 1)
    <3>1. (\A j \in 2..m : IsNameChar(t[j])) /\ v = Value(env, maxname, Tail(t))
      BY <2>4 DEF IsPiece
    <3>2. name = Tail(t)
      <4>1. NameStops(src, pos + Len(t))
        BY <2>4
      <4> QED
        BY <1>1, <3>1, <4>1, NameRead DEF IsNamed
    <3>3. Len(Tail(t)) = m - 1
      BY <1>1
    <3>4. x = [dst |-> full \o v, src_i |-> (pos + 1) + 1 + (m - 1)]
      <4>1. x = [dst |-> r.dst \o Value(env, maxname, name), src_i |-> (pos + 1) + 1 + Len(name)]
        BY <1>3, <1>5, <1>7, <2>2, <2>4 DEF ParseChar
      <4> HIDE DEF name, m
      <4> QED
        BY <2>1, <3>1, <3>2, <3>3, <4>1
    <3>5. x.dst = full \o v /\ x.src_i = (pos + m) + 1
      <4>1. (pos + 1) + 1 + (m - 1) = (pos + m) + 1
        BY <1>1
      <4> HIDE DEF x, m
      <4> QED
        BY <3>4, <4>1
    <3>6. e[pos + m] = x
      <4>1. pos + m < x.src_i
        BY <1>1, <3>5
      <4> DEFINE q == pos + m
                 b == pos + 1
      <4>2. q \in Nat /\ b \in Nat /\ b <= q /\ q <= Len(src) /\ Rests(e[b], dst_len, q)
        BY <1>0, <1>2, <4>1 DEF Rests
      <4> HIDE DEF q, b
      <4>3. e[q] = e[b]
        BY <1>9, <4>2
      <4> QED
        BY <4>3 DEF q, b
    <3> HIDE DEF x, m
    <3> QED
      BY <3>5, <3>6 DEF Filled, m
  <2> QED
    BY <2>3, <2>4
<1> QED
  BY <1>6, <1>7

(* Texts of pieces and their values, one after the other; no name goes on    *)
(* into the next piece.                                                      *)
IsTemplate(env, maxname, texts, values) ==
    \A k \in 1..Len(texts) :
       /\ IsPiece(env, maxname, texts[k], values[k])
       /\ texts[k][1] = "$" => k = Len(texts) \/ ~IsNameChar(texts[k + 1][1])

(* tmpl_parse gives for a template of any pieces, with any variables, their  *)
(* values one after the other, cut at the size of the buffer.                *)
THEOREM TemplateParsed ==
    ASSUME NEW env, IsVars(env), NEW maxname \in Nat, NEW dst_len \in Nat,
           NEW texts \in Seq(Seq(Char)), NEW values \in Seq(Seq(Char)), Len(values) = Len(texts),
           IsTemplate(env, maxname, texts, values)
    PROVE  tmpl_parse(env, maxname, dst_len, FlattenSeq(texts)) = Cut(FlattenSeq(values), dst_len)
<1> DEFINE n == Len(texts)
           src == FlattenSeq(texts)
           e == Parsing(env, maxname, dst_len, src)
           pos(k) == Len(Joined(texts, k))
           T == {k \in 0..n : Filled(e[pos(k)], dst_len, Joined(values, k), pos(k))}
<1>1. /\ n \in Nat /\ src \in Seq(Char) /\ Joined(texts, n) = src
      /\ Joined(texts, 0) = <<>> /\ Joined(values, 0) = <<>> /\ Joined(values, n) = FlattenSeq(values)
  <2>1. n \in Nat /\ n \in 0..n
    OBVIOUS
  <2>2. /\ Joined(texts, 0) = <<>> /\ Joined(texts, n) = src /\ Joined(texts, n) \in Seq(Char)
    BY <2>1, JoinedStep
  <2>3. Joined(values, 0) = <<>> /\ Joined(values, n) = FlattenSeq(values)
    BY JoinedStep
  <2> QED
    BY <2>1, <2>2, <2>3
<1>2. \A k \in 0..n : /\ Joined(texts, k) \in Seq(Char) /\ Joined(values, k) \in Seq(Char)
                       /\ Extends(Joined(texts, k), src)
  BY JoinedStep, JoinedExtends
<1>3. \A k \in 1..n : /\ Joined(texts, k) = Joined(texts, k - 1) \o texts[k]
                       /\ Joined(values, k) = Joined(values, k - 1) \o values[k]
                       /\ texts[k] \in Seq(Char) /\ values[k] \in Seq(Char)
  <2>1. \A k \in 1..n : texts[k] \in Seq(Char) /\ values[k] \in Seq(Char)
    OBVIOUS
  <2>2. \A k \in 1..n : /\ Joined(texts, k) = Joined(texts, k - 1) \o texts[k]
                         /\ Joined(values, k) = Joined(values, k - 1) \o values[k]
    BY JoinedStep
  <2> QED
    BY <2>1, <2>2
<1> HIDE DEF src
<1>4. IsParsing(e, env, maxname, dst_len, src)
  BY <1>1, ParsingDef DEF IsParsing
<1> HIDE DEF e
<1>5. \A k \in 0..n : pos(k) \in Nat
  <2>1. \A s \in Seq(Char) : Len(s) \in Nat
    OBVIOUS
  <2> QED
    BY <1>2, <2>1, Zenon
<1>6. 0 \in T
  <2>1. e[0] = [dst |-> <<>>, src_i |-> 1]
    BY <1>4 DEF IsParsing
  <2>2. pos(0) = 0 /\ 0 \in 0..n
    BY <1>1
  <2>3. Filled(e[0], dst_len, <<>>, 0)
    BY <2>1 DEF Filled
  <2> HIDE DEF pos
  <2> QED
    BY <1>1, <2>2, <2>3
<1>7. ASSUME NEW k \in 1..n, k - 1 \in T PROVE k \in T
  <2> DEFINE a == Joined(texts, k - 1)
             t == texts[k]
             v == values[k]
             full == Joined(values, k - 1)
             p == Len(a)
  <2>1. k - 1 \in 0..n /\ k \in 0..n
    BY <1>1
  <2>2. /\ a \in Seq(Char) /\ t \in Seq(Char) /\ full \in Seq(Char) /\ p \in Nat
        /\ Joined(texts, k) = a \o t /\ Joined(values, k) = full \o v
    <3>1. a \in Seq(Char) /\ full \in Seq(Char) /\ p \in Nat
      BY <1>2, <1>5, <2>1
    <3> QED
      BY <1>3, <3>1
  <2>3. Filled(e[p], dst_len, full, p)
    BY <1>7
  <2>4. IsPiece(env, maxname, t, v)
    BY DEF IsTemplate
  <2> DEFINE b == a \o t
  <2> HIDE DEF a, t, v, full
  <2>5. b \in Seq(Char) /\ Len(b) = p + Len(t) /\ Len(t) \in Nat /\ \A j \in 1..Len(t) : b[p + j] = t[j]
    <3>1. /\ b \in Seq(Char) /\ Len(b) = Len(a) + Len(t) /\ Len(t) \in Nat
          /\ \A j \in 1..Len(t) : b[Len(a) + j] = t[j]
      <4>1. \A x, y \in Seq(Char) :
               /\ x \o y \in Seq(Char) /\ Len(x \o y) = Len(x) + Len(y) /\ Len(y) \in Nat
               /\ \A j \in 1..Len(y) : (x \o y)[Len(x) + j] = y[j]
        BY ConcatFacts
      <4> QED
        BY <2>2, <4>1
    <3> QED
      BY <3>1
  <2>6. Extends(b, src)
    BY <1>2, <2>1, <2>2
  <2>7. pos(k) = p + Len(t)
    BY <2>2, <2>5
  <2> HIDE DEF b
  <2>8. Stands(src, p, t)
    <3>1. ASSUME NEW j \in 1..Len(t) PROVE src[p + j] = t[j]
      <4>1. p + j \in 1..Len(b)
        BY <2>2, <2>5
      <4> QED
        BY <2>5, <2>6, <4>1 DEF Extends
    <3>2. p + Len(t) <= Len(src)
      BY <2>5, <2>6 DEF Extends
    <3> QED
      BY <3>1, <3>2 DEF Stands
  <2>9. t[1] = "$" => NameStops(src, p + Len(t))
    <3>1. SUFFICES ASSUME t[1] = "$" PROVE NameStops(src, p + Len(t))
      OBVIOUS
    <3>2. CASE k = n
      <4>1. Len(src) = p + Len(t)
        BY <1>1, <2>2, <2>5, <3>2 DEF b
      <4> QED
        BY <4>1 DEF NameStops
    <3>3. CASE k # n
      <4> DEFINE u == texts[k + 1]
                 c == b \o u
      <4>1. k + 1 \in 1..n /\ (k + 1) - 1 = k /\ k + 1 \in 0..n
        BY <1>1, <3>3
      <4>2. ~IsNameChar(u[1])
        BY <3>1, <3>3 DEF t, IsTemplate
      <4>3. u \in Seq(Char) /\ Len(u) >= 1
        BY <4>1 DEF IsPiece, IsTemplate
      <4>4. Joined(texts, k + 1) = c
        BY <1>3, <2>2, <4>1 DEF b
      <4>5. Extends(c, src)
        BY <1>2, <4>1, <4>4
      <4> HIDE DEF u
      <4>6. /\ Len(c) = Len(b) + Len(u) /\ Len(u) \in Nat /\ Len(b) \in Nat
            /\ \A j \in 1..Len(u) : c[Len(b) + j] = u[j]
        BY <2>5, <4>3, ConcatFacts
      <4> HIDE DEF c
      <4>7. 1 \in 1..Len(u) /\ Len(b) + 1 \in 1..Len(c)
        BY <4>3, <4>6
      <4>8. src[Len(b) + 1] = u[1]
        BY <4>5, <4>6, <4>7 DEF Extends
      <4> QED
        BY <2>5, <4>2, <4>8 DEF NameStops
    <3> QED
      BY <3>2, <3>3
  <2> HIDE DEF p
  <2>10. Filled(e[p + Len(t)], dst_len, full \o v, p + Len(t))
    BY <1>1, <1>4, <2>2, <2>3, <2>4, <2>8, <2>9, PieceParsed
  <2> HIDE DEF pos
  <2> QED
    BY <2>1, <2>2, <2>7, <2>10
<1>8. \A k \in 0..n : k \in T
  <2> HIDE DEF T, n
  <2> QED
    BY <1>1, <1>6, <1>7, Rounds
<1>9. Filled(e[Len(src)], dst_len, FlattenSeq(values), Len(src))
  <2>1. n \in 0..n
    BY <1>1
  <2>2. Filled(e[pos(n)], dst_len, Joined(values, n), pos(n))
    BY <1>8, <2>1
  <2> HIDE DEF n
  <2> QED
    BY <1>1, <2>2
<1>10. tmpl_parse(env, maxname, dst_len, src) = Cut(e[Len(src)].dst, dst_len)
  BY DEF tmpl_parse, e
<1> QED
  BY <1>9, <1>10 DEF Filled, src

---------------------------------------------------------------------------
(* What the runs check of texts *)

(* The texts up to a length. *)
LEMMA TextType ==
    ASSUME NEW S, NEW n \in Nat, NEW t \in Text(S, n)
    PROVE  t \in Seq(S) /\ Len(t) \in 0..n
<1>1. PICK m \in 0..n : t \in [1..m -> S]
  BY DEF Text, SeqOf
<1> QED
  BY <1>1

(* For texts and buffers of every size: uh_urlencode fails exactly when the  *)
(* encoded text does not fit, never writes behind its buffer, and what it    *)
(* wrote uh_urldecode reads back.                                            *)
THEOREM EncodingRoundTrip ==
    ASSUME NEW blen \in Nat, NEW t \in Seq(Char), NEW e, e = uh_urlencode(blen, t)
    PROVE  /\ (e.rc = 0) <=> (Size(t, Len(t)) <= blen)
           /\ Len(e.text) <= blen
           /\ e.rc = 0 => uh_urldecode(Len(t), e.text) = [text |-> t, rc |-> 0]
<1> DEFINE f == Encoding(blen, t)
           n == Len(t)
<1>1. n \in Nat /\ n \in 0..n
  OBVIOUS
<1>2. \A i \in 0..n : /\ (f[i].rc = 0) <=> (Size(t, i) <= blen)
                      /\ Len(f[i].text) <= blen
  BY EncodingSize
<1>3. e = f[n]
  BY DEF uh_urlencode
<1>4. e.rc = 0 => uh_urldecode(n, e.text) = [text |-> t, rc |-> 0]
  BY <1>1, DecodingInverts
<1> HIDE DEF f, n
<1>5. ((e.rc = 0) <=> (Size(t, n) <= blen)) /\ Len(e.text) <= blen
  BY <1>1, <1>2, <1>3
<1> QED
  BY <1>4, <1>5 DEF n

(* EncodingInverts from the theorem about all texts. *)
LEMMA EncodingAlways == EncodingInverts
<1> DEFINE C == {"2", "f", "/", "%"}
           size(t) == 3 * Len(t) - 2 * Cardinality({i \in DOMAIN t : t[i] \notin DOMAIN Hex})
           R(t, blen) == LET e == uh_urlencode(blen, t)
                         IN /\ (e.rc = 0) = (size(t) <= blen)
                            /\ Len(e.text) <= blen
                            /\ e.rc = 0 => uh_urldecode(Len(t), e.text) = [text |-> t, rc |-> 0]
<1>1. SUFFICES ASSUME NEW t \in Text(C, MaxText), NEW blen \in 0..(size(t) + 1) PROVE R(t, blen)
  BY DEF EncodingInverts
<1>2. t \in Seq(Char)
  <2>1. C \subseteq Char
    BY DEF Char
  <2>2. MaxText \in Nat
    BY SplashAssumption
  <2>3. t \in Seq(C)
    BY <2>2, TextType
  <2> HIDE DEF C
  <2> QED
    BY <2>1, <2>3
<1>3. size(t) = Size(t, Len(t))
  <2>1. DOMAIN t = 1..Len(t)
    BY <1>2
  <2> QED
    BY <2>1 DEF Size, Plain
<1>4. blen \in Nat
  OBVIOUS
<1>5. /\ (uh_urlencode(blen, t).rc = 0) <=> (size(t) <= blen)
      /\ Len(uh_urlencode(blen, t).text) <= blen
      /\ uh_urlencode(blen, t).rc = 0 =>
            uh_urldecode(Len(t), uh_urlencode(blen, t).text) = [text |-> t, rc |-> 0]
  <2> HIDE DEF size
  <2> QED
    BY <1>2, <1>3, <1>4, EncodingRoundTrip
<1> HIDE DEF size
<1> QED
  BY <1>5

(* PathsResolved from the theorems about all paths. *)
LEMMA PathsAlways == PathsResolved
<1> DEFINE C == {"/", ".", "a"}
<1>1. SUFFICES ASSUME NEW p \in Text(C, MaxPath)
               PROVE  /\ IsPrefix(<<"/">>, p) => buffer_path_simplify(p) = Resolved(p)
                      /\ \A k \in 0..MaxPath : ~GoesUp(buffer_path_simplify(p), k)
  BY DEF PathsResolved
<1>2. p \in Seq(Char) /\ MaxPath \in Nat
  <2>1. C \subseteq Char
    BY DEF Char
  <2>2. MaxPath \in Nat
    BY SplashAssumption
  <2>3. p \in Seq(C)
    BY <2>2, TextType
  <2> HIDE DEF C
  <2> QED
    BY <2>1, <2>2, <2>3
<1>3. IsPrefix(<<"/">>, p) => Len(p) >= 1 /\ p[1] = "/"
  BY <1>2 DEF IsPrefix
<1>4. IsPrefix(<<"/">>, p) => buffer_path_simplify(p) = Resolved(p)
  BY <1>2, <1>3, PathResolved
<1>5. \A k \in 0..MaxPath : ~GoesUp(buffer_path_simplify(p), k)
  BY <1>2, PathStaysBelow
<1> QED
  BY <1>4, <1>5

(* The pieces of a template that TemplateFilled puts together *)
LEMMA VariablesGive ==
    /\ IsVars(Variables)
    /\ Value(Variables, 2, <<"a", "_">>) = <<"-", "$", "a">>
    /\ Value(Variables, 2, <<"a">>) = <<"a">>
    /\ Value(Variables, 2, <<>>) = <<>>
    /\ Value(Variables, 2, <<"a", "a", "a">>) = <<"a", "a", "a">>
<1>1. <<"-", "$", "a">> \in Seq(Char)
  <2>1. "-" \in Char /\ "$" \in Char /\ "a" \in Char
    BY DEF Char
  <2> QED
    BY <2>1
<1>2. IsVars(Variables)
  BY <1>1 DEF IsVars, Variables
<1>3. /\ Len(<<"a", "_">>) = 2 /\ Len(<<"a">>) = 1 /\ Len(<<>>) = 0
      /\ Len(<<"a", "a", "a">>) = 3
  OBVIOUS
<1>4. DOMAIN Variables = {<<"a", "_">>, <<"a", "a", "a">>}
  BY DEF Variables
<1>5. Variables[<<"a", "_">>] = <<"-", "$", "a">>
  BY DEF Variables
<1>6. Value(Variables, 2, <<"a", "_">>) = <<"-", "$", "a">>
  <2>1. ASSUME NEW name, name \in DOMAIN Variables, Len(name) = 2
        PROVE  Value(Variables, 2, name) = Variables[name]
    BY <2>1 DEF Value
  <2>2. <<"a", "_">> \in DOMAIN Variables
    BY <1>4
  <2> QED
    BY <1>3, <1>5, <2>1, <2>2
<1>7. Value(Variables, 2, <<"a">>) = <<"a">>
  BY <1>3, <1>4 DEF Value
<1>8. Value(Variables, 2, <<>>) = <<>>
  BY <1>3, <1>4 DEF Value
<1>9. Value(Variables, 2, <<"a", "a", "a">>) = <<"a", "a", "a">>
  BY <1>3 DEF Value
<1> QED
  BY <1>2, <1>6, <1>7, <1>8, <1>9
(* Texts of one to four characters. *)
LEMMA Tuple1 ==
    ASSUME NEW a \in Char
    PROVE  /\ <<a>> \in Seq(Char) /\ Len(<<a>>) = 1 /\ Tail(<<a>>) = <<>>
           /\ <<a>>[1] = a
<1>1. <<a>> \in Seq(Char) /\ Len(<<a>>) = 1
  OBVIOUS
<1>2. Tail(<<a>>) = <<>>
  OBVIOUS
<1>3. <<a>>[1] = a
  OBVIOUS
<1> QED
  BY <1>1, <1>2, <1>3

LEMMA Tuple2 ==
    ASSUME NEW a \in Char, NEW b \in Char
    PROVE  /\ <<a, b>> \in Seq(Char) /\ Len(<<a, b>>) = 2 /\ Tail(<<a, b>>) = <<b>>
           /\ <<a, b>>[1] = a /\ <<a, b>>[2] = b
<1>1. <<a, b>> \in Seq(Char) /\ Len(<<a, b>>) = 2
  OBVIOUS
<1>2. Tail(<<a, b>>) = <<b>>
  OBVIOUS
<1>3. <<a, b>>[1] = a /\ <<a, b>>[2] = b
  OBVIOUS
<1> QED
  BY <1>1, <1>2, <1>3

LEMMA Tuple3 ==
    ASSUME NEW a \in Char, NEW b \in Char, NEW c \in Char
    PROVE  /\ <<a, b, c>> \in Seq(Char) /\ Len(<<a, b, c>>) = 3 /\ Tail(<<a, b, c>>) = <<b, c>>
           /\ <<a, b, c>>[1] = a /\ <<a, b, c>>[2] = b /\ <<a, b, c>>[3] = c
<1>1. <<a, b, c>> \in Seq(Char) /\ Len(<<a, b, c>>) = 3
  OBVIOUS
<1>2. Tail(<<a, b, c>>) = <<b, c>>
  OBVIOUS
<1>3. <<a, b, c>>[1] = a /\ <<a, b, c>>[2] = b /\ <<a, b, c>>[3] = c
  OBVIOUS
<1> QED
  BY <1>1, <1>2, <1>3

LEMMA Tuple4 ==
    ASSUME NEW a \in Char, NEW b \in Char, NEW c \in Char, NEW d \in Char
    PROVE  /\ <<a, b, c, d>> \in Seq(Char) /\ Len(<<a, b, c, d>>) = 4 /\ Tail(<<a, b, c, d>>) = <<b, c, d>>
           /\ <<a, b, c, d>>[1] = a /\ <<a, b, c, d>>[2] = b /\ <<a, b, c, d>>[3] = c /\ <<a, b, c, d>>[4] = d
<1>1. <<a, b, c, d>> \in Seq(Char) /\ Len(<<a, b, c, d>>) = 4
  OBVIOUS
<1>2. Tail(<<a, b, c, d>>) = <<b, c, d>>
  OBVIOUS
<1>3. <<a, b, c, d>>[1] = a /\ <<a, b, c, d>>[2] = b /\ <<a, b, c, d>>[3] = c /\ <<a, b, c, d>>[4] = d
  OBVIOUS
<1> QED
  BY <1>1, <1>2, <1>3

(* The texts of the variables are pieces with their values. *)
RightPiece(t, v) == IsPiece(Variables, 2, t, v) /\ ~IsNameChar(t[1])

LEMMA NamePiece ==
    ASSUME NEW t \in Seq(Char), NEW v \in Seq(Char), t[1] = "$", Len(t) >= 1, IsNamed(t),
           v = Value(Variables, 2, Tail(t))
    PROVE  RightPiece(t, v)
<1>1. ~IsNameChar("$")
  BY DEF IsNameChar
<1>2. IsPiece(Variables, 2, t, v)
  BY DEF IsPiece, IsNamed
<1> QED
  BY <1>1, <1>2 DEF RightPiece

(* A "$" alone. *)
LEMMA PieceOf1 ==
    RightPiece(<<"$">>, <<>>)
<1> DEFINE t == <<"$">>
           v == <<>>
<1>1. "$" \in Char
  BY DEF Char
<1>2. t \in Seq(Char) /\ Len(t) = 1 /\ t[1] = "$" /\ Tail(t) = <<>>
  BY <1>1, Tuple1, Zenon
<1>3. v \in Seq(Char)
  OBVIOUS
<1>4. v = Value(Variables, 2, <<>>)
  BY VariablesGive, Zenon
<1> HIDE DEF t, v
<1>5. Len(t) >= 1 /\ IsNamed(t)
  BY <1>2 DEF IsNamed
<1>6. RightPiece(t, v)
  BY <1>2, <1>3, <1>4, <1>5, NamePiece, Zenon
<1> QED
  BY <1>6 DEF t, v

(* A "$" and a name of one, two or three characters. *)
LEMMA PieceOf2 ==
    ASSUME NEW b \in Char, IsNameChar(b), NEW v \in Seq(Char), v = Value(Variables, 2, <<b>>)
    PROVE  RightPiece(<<"$", b>>, v)
<1> DEFINE t == <<"$", b>>
<1>1. "$" \in Char
  BY DEF Char
<1>2. t \in Seq(Char) /\ Len(t) = 2 /\ t[1] = "$" /\ t[2] = b /\ Tail(t) = <<b>>
  BY <1>1, Tuple2, Zenon
<1> HIDE DEF t
<1>3. Len(t) >= 1 /\ IsNamed(t)
  <2>1. \A j \in 2..2 : j = 2
    OBVIOUS
  <2> QED
    BY <1>2, <2>1 DEF IsNamed
<1>4. RightPiece(t, v)
  BY <1>2, <1>3, NamePiece, Zenon
<1> QED
  BY <1>4 DEF t

LEMMA PieceOf3 ==
    ASSUME NEW b \in Char, NEW c \in Char, IsNameChar(b), IsNameChar(c),
           NEW v \in Seq(Char), v = Value(Variables, 2, <<b, c>>)
    PROVE  RightPiece(<<"$", b, c>>, v)
<1> DEFINE t == <<"$", b, c>>
<1>1. "$" \in Char
  BY DEF Char
<1>2. t \in Seq(Char) /\ Len(t) = 3 /\ t[1] = "$" /\ t[2] = b /\ t[3] = c /\ Tail(t) = <<b, c>>
  <2>1. ASSUME NEW a \in Char, NEW u, u = <<a, b, c>>
        PROVE  u \in Seq(Char) /\ Len(u) = 3 /\ u[1] = a /\ u[2] = b /\ u[3] = c /\ Tail(u) = <<b, c>>
    BY <2>1, Tuple3
  <2> QED
    BY <1>1, <2>1, Zenon
<1> HIDE DEF t
<1>3. Len(t) >= 1 /\ IsNamed(t)
  <2>1. \A j \in 2..3 : j = 2 \/ j = 3
    OBVIOUS
  <2> QED
    BY <1>2, <2>1 DEF IsNamed
<1>4. RightPiece(t, v)
  BY <1>2, <1>3, NamePiece, Zenon
<1> QED
  BY <1>4 DEF t

LEMMA PieceOf4 ==
    ASSUME NEW b \in Char, NEW c \in Char, NEW d \in Char,
           IsNameChar(b), IsNameChar(c), IsNameChar(d),
           NEW v \in Seq(Char), v = Value(Variables, 2, <<b, c, d>>)
    PROVE  RightPiece(<<"$", b, c, d>>, v)
<1> DEFINE t == <<"$", b, c, d>>
<1>1. "$" \in Char
  BY DEF Char
<1>2. /\ t \in Seq(Char) /\ Len(t) = 4 /\ t[1] = "$" /\ t[2] = b /\ t[3] = c /\ t[4] = d
      /\ Tail(t) = <<b, c, d>>
  <2>1. ASSUME NEW a \in Char, NEW u, u = <<a, b, c, d>>
        PROVE  /\ u \in Seq(Char) /\ Len(u) = 4 /\ u[1] = a /\ u[2] = b /\ u[3] = c /\ u[4] = d
               /\ Tail(u) = <<b, c, d>>
    BY <2>1, Tuple4
  <2> QED
    BY <1>1, <2>1, Zenon
<1> HIDE DEF t
<1>3. Len(t) >= 1 /\ IsNamed(t)
  <2>1. \A j \in 2..4 : j = 2 \/ j = 3 \/ j = 4
    OBVIOUS
  <2> QED
    BY <1>2, <2>1 DEF IsNamed
<1>4. RightPiece(t, v)
  BY <1>2, <1>3, NamePiece, Zenon
<1> QED
  BY <1>4 DEF t

(* All that TemplateFilled puts together are pieces. *)
LEMMA PiecesAre ==
    ASSUME NEW p \in Pieces
    PROVE  RightPiece(p.text, p.value)
<1>1. "-" \in Char /\ "$" \in Char /\ "a" \in Char /\ "_" \in Char
  BY DEF Char
<1>2. IsNameChar("a") /\ IsNameChar("_") /\ ~IsNameChar("-")
  BY DEF IsNameChar
<1>3. RightPiece(<<"-">>, <<"-">>)
  <2>1. ASSUME NEW c \in Char, c # "$", ~IsNameChar(c) PROVE RightPiece(<<c>>, <<c>>)
    BY <2>1, Tuple1 DEF IsPiece, RightPiece
  <2> QED
    BY <1>1, <1>2, <2>1
<1>4. RightPiece(<<"$", "a", "_">>, <<"-", "$", "a">>)
  <2>1. <<"-", "$", "a">> \in Seq(Char)
    BY <1>1, Tuple3, Zenon
  <2> QED
    BY <1>1, <1>2, <2>1, VariablesGive, PieceOf3, Zenon
<1>5. RightPiece(<<"$", "a">>, <<"a">>)
  <2>1. <<"a">> \in Seq(Char)
    BY <1>1, Tuple1, Zenon
  <2> QED
    BY <1>1, <1>2, <2>1, VariablesGive, PieceOf2, Zenon
<1>6. RightPiece(<<"$", "a", "a", "a">>, <<"a", "a", "a">>)
  <2>1. <<"a", "a", "a">> \in Seq(Char)
    BY <1>1, Tuple3, Zenon
  <2> QED
    BY <1>1, <1>2, <2>1, VariablesGive, PieceOf4, Zenon
<1>7. ASSUME NEW t, NEW v, p = [text |-> t, value |-> v], RightPiece(t, v)
      PROVE  RightPiece(p.text, p.value)
  BY <1>7
<1> QED
  BY <1>3, <1>4, <1>5, <1>6, <1>7, PieceOf1, Zenon DEF Pieces

(* TemplateFilled from the theorem about all templates. *)
LEMMA TemplateAlways == TemplateFilled
<1> DEFINE full(ps) == FlattenSeq([i \in DOMAIN ps |-> ps[i].value])
           src(ps) == FlattenSeq([i \in DOMAIN ps |-> ps[i].text])
<1>1. SUFFICES ASSUME NEW ps \in Text(Pieces, MaxPieces), NEW dst_len \in 0..(Len(full(ps)) + 1)
               PROVE  tmpl_parse(Variables, 2, dst_len, src(ps)) = Cut(full(ps), dst_len)
  BY DEF TemplateFilled
<1> DEFINE texts == [i \in DOMAIN ps |-> ps[i].text]
           values == [i \in DOMAIN ps |-> ps[i].value]
           n == Len(ps)
<1>2. ps \in Seq(Pieces) /\ n \in Nat /\ DOMAIN ps = 1..n /\ \A i \in 1..n : ps[i] \in Pieces
  <2>1. ps \in Seq(Pieces)
    BY SplashAssumption, TextType
  <2> QED
    BY <2>1
<1>3. \A i \in 1..n : /\ IsPiece(Variables, 2, ps[i].text, ps[i].value)
                       /\ ~IsNameChar(ps[i].text[1])
                       /\ ps[i].text \in Seq(Char) /\ ps[i].value \in Seq(Char)
  BY <1>2, PiecesAre DEF IsPiece, RightPiece
<1>4. texts \in Seq(Seq(Char)) /\ values \in Seq(Seq(Char)) /\ Len(texts) = n /\ Len(values) = n
  <2> DEFINE S == Seq(Char)
  <2> HIDE DEF S, n
  <2>1. \A i \in 1..n : ps[i].text \in S /\ ps[i].value \in S
    BY <1>3 DEF S
  <2>2. texts \in [1..n -> S] /\ values \in [1..n -> S]
    BY <1>2, <2>1
  <2> HIDE DEF texts, values
  <2>3. texts \in Seq(S) /\ values \in Seq(S) /\ Len(texts) = n /\ Len(values) = n
    BY <1>2, <2>2
  <2> QED
    BY <2>3 DEF S
<1>5. \A k \in 1..n : texts[k] = ps[k].text /\ values[k] = ps[k].value
  BY <1>2
<1>6. dst_len \in Nat
  OBVIOUS
<1>7. src(ps) = FlattenSeq(texts) /\ full(ps) = FlattenSeq(values)
  OBVIOUS
<1> HIDE DEF texts, values, n, src, full
<1>8. IsTemplate(Variables, 2, texts, values)
  <2>1. ASSUME NEW k \in 1..n, k # n PROVE ~IsNameChar(texts[k + 1][1])
    <3>1. k + 1 \in 1..n
      BY <1>2, <2>1
    <3> QED
      BY <1>3, <1>5, <3>1
  <2>2. \A k \in 1..n : IsPiece(Variables, 2, texts[k], values[k])
    BY <1>3, <1>5
  <2> QED
    BY <1>4, <2>1, <2>2 DEF IsTemplate
<1>9. tmpl_parse(Variables, 2, dst_len, FlattenSeq(texts)) = Cut(FlattenSeq(values), dst_len)
  <2>1. 2 \in Nat /\ Len(values) = Len(texts) /\ IsVars(Variables)
    BY <1>4, VariablesGive
  <2> QED
    BY <1>4, <1>6, <1>8, <2>1, TemplateParsed, Zenon
<1> QED
  BY <1>7, <1>9

---------------------------------------------------------------------------
(* Tokens *)

(* Every window shows something, with all its fields, and a page has the     *)
(* token of the time it was made at.                                         *)
PagesOK(shown) ==
    /\ shown = [w \in Window |-> shown[w]]
    /\ \A w \in Window : DOMAIN shown[w] = {"pc", "origin", "redir", "tok", "made", "linked"}
    /\ \A w \in Window : shown[w].tok = shown[w].made

(* The token of the client tells how often it was reset. *)
TokenOK(c) ==
    /\ DOMAIN c = {"state", "token", "resets"}
    /\ c.resets \in Nat
    /\ c.token = c.resets

TokenInv == TokenOK(client) /\ PagesOK(window)

(* Only a window whose page is of the present time arrives. *)
ArrivesInTime ==
    \A w \in Window : (window[w].pc # "arrived" /\ window'[w].pc = "arrived") =>
       window[w].made = client.resets

LEMMA ShowsKeeps ==
    ASSUME PagesOK(window), NEW v \in Window, NEW pc, NEW redir, Shows(v, pc, redir)
    PROVE  /\ PagesOK(window')
           /\ \A w \in Window \ {v} : window'[w] = window[w]
           /\ window'[v].pc = pc
  BY DEF PagesOK, Shows

LEMMA ServeFileKeeps ==
    ASSUME PagesOK(window), NEW v \in Window, serve_file(v)
    PROVE  PagesOK(window') /\ ArrivesInTime
  BY ShowsKeeps DEF serve_file, ArrivesInTime

LEMMA TemplateKeeps ==
    ASSUME TokenInv, NEW v \in Window, NEW page, page # "arrived", show_templated_page(v, page)
    PROVE  PagesOK(window') /\ ArrivesInTime
  <1>1. CASE Shows(v, "error", None)
    BY <1>1, ShowsKeeps DEF TokenInv, ArrivesInTime
  <1>2. ASSUME NEW redir,
               window' = [window EXCEPT ![v].pc = page, ![v].redir = redir,
                                        ![v].tok = client.token, ![v].made = client.resets]
        PROVE  PagesOK(window') /\ ArrivesInTime
    BY <1>2 DEF TokenInv, TokenOK, PagesOK, ArrivesInTime
  <1> QED
    BY <1>1, <1>2 DEF show_templated_page

LEMMA RedirectKeeps ==
    ASSUME PagesOK(window), NEW v \in Window, NEW url,
           encode_and_redirect_to_splashpage(v, url)
    PROVE  PagesOK(window') /\ ArrivesInTime
  <1>1. PICK pc \in {"error", "redirect"} : \E redir : Shows(v, pc, redir)
    BY DEF encode_and_redirect_to_splashpage
  <1> QED
    BY <1>1, ShowsKeeps DEF ArrivesInTime

(* A request to the authdir, by form or by link. *)
LEMMA AuthdirKeeps ==
    ASSUME TokenInv, NEW v \in Window, NEW url, RequestAuthdir(v, url)
    PROVE  TokenInv' /\ ArrivesInTime
  <1> DEFINE redirect_url == IF RedirectURL # <<>> THEN RedirectURL ELSE url
  <1> HIDE DEF redirect_url
  <1>1. CASE show_templated_page(v, "status") /\ UNCHANGED client
    BY <1>1, TemplateKeeps DEF TokenInv
  <1>2. CASE encode_and_redirect_to_splashpage(v, redirect_url) /\ UNCHANGED client
    BY <1>2, RedirectKeeps DEF TokenInv
  <1>3. CASE /\ try_to_authenticate(v)
             /\ client' = [client EXCEPT !.state = "authenticated"]
             /\ Shows(v, "arrived", redirect_url)
    <2>1. PagesOK(window') /\ \A w \in Window \ {v} : window'[w] = window[w]
      BY <1>3, ShowsKeeps DEF TokenInv
    <2>2. TokenOK(client')
      BY <1>3 DEF TokenInv, TokenOK
    <2>3. window[v].made = client.resets
      BY <1>3 DEF TokenInv, TokenOK, PagesOK, try_to_authenticate
    <2> QED
      BY <2>1, <2>2, <2>3 DEF TokenInv, ArrivesInTime
  <1> QED
    BY <1>1, <1>2, <1>3 DEF RequestAuthdir, redirect_url

(* The other steps of a browser. *)
LEMMA WindowKeeps ==
    ASSUME TokenInv, NEW v \in Window,
           \/ \E o \in Origins : Ask(v, o)
           \/ RequestForeign(v) \/ Refresh(v) \/ Visit(v) \/ OpenSplashpage(v)
           \/ FollowLink(v) \/ RequestDenydir(v) \/ Close(v)
    PROVE  TokenInv' /\ ArrivesInTime
  <1>1. ASSUME NEW o \in Origins, Ask(v, o) PROVE TokenInv' /\ ArrivesInTime
    BY <1>1 DEF Ask, TokenInv, PagesOK, ArrivesInTime
  <1>2. CASE RequestForeign(v)
    <2>1. CASE Shows(v, "refresh", None) \/ Shows(v, "error", None)
      BY <1>2, <2>1, ShowsKeeps DEF RequestForeign, TokenInv, ArrivesInTime
    <2>2. ASSUME NEW url, encode_and_redirect_to_splashpage(v, url)
          PROVE  TokenInv' /\ ArrivesInTime
      BY <1>2, <2>2, RedirectKeeps DEF RequestForeign, TokenInv
    <2> QED
      BY <1>2, <2>1, <2>2 DEF RequestForeign, redirect_to_splashpage
  <1>3. CASE Refresh(v) \/ Visit(v)
    <2>1. PICK pc \in {"ask", "redirect"} : Shows(v, pc, None)
      BY <1>3 DEF Refresh, Visit
    <2>2. UNCHANGED client
      BY <1>3 DEF Refresh, Visit
    <2> QED
      BY <2>1, <2>2, ShowsKeeps DEF TokenInv, ArrivesInTime
  <1>4. CASE OpenSplashpage(v)
    <2>1. UNCHANGED client
      BY <1>4 DEF OpenSplashpage
    <2>2. PagesOK(window') /\ ArrivesInTime
      BY <1>4, ServeFileKeeps, TemplateKeeps DEF OpenSplashpage, TokenInv
    <2> QED
      BY <2>1, <2>2 DEF TokenInv
  <1>5. CASE FollowLink(v)
    <2>1. PICK redir : window' = [window EXCEPT ![v].pc = "link", ![v].linked = TRUE,
                                                ![v].redir = redir]
      BY <1>5 DEF FollowLink
    <2>2. PagesOK(window') /\ ArrivesInTime
      BY <2>1 DEF TokenInv, PagesOK, ArrivesInTime
    <2> QED
      BY <1>5, <2>2 DEF FollowLink, TokenInv
  <1>6. CASE RequestDenydir(v)
    <2>1. CASE Shows(v, "error", None) /\ UNCHANGED client
      BY <2>1, ShowsKeeps DEF TokenInv, ArrivesInTime
    <2>2. CASE /\ client' = [client_reset(client) EXCEPT !.state = "preauthenticated"]
               /\ window' = [window EXCEPT ![v] = [Nothing EXCEPT !.pc = "redirect"]]
      <3>1. TokenOK(client')
        BY <2>2 DEF TokenInv, TokenOK, client_reset
      <3>2. PagesOK(window') /\ ArrivesInTime
        BY <2>2 DEF TokenInv, PagesOK, ArrivesInTime, Nothing
      <3> QED
        BY <3>1, <3>2 DEF TokenInv
    <2> QED
      BY <1>6, <2>1, <2>2 DEF RequestDenydir
  <1>7. CASE Close(v)
    BY <1>7 DEF Close, Nothing, TokenInv, PagesOK, ArrivesInTime
  <1> QED
    BY <1>1, <1>2, <1>3, <1>4, <1>5, <1>6, <1>7

LEMMA TokenInit == Init => TokenInv
  BY DEF Init, Nothing, TokenInv, TokenOK, PagesOK

LEMMA TokenStep == TokenInv /\ [Next]_vars => TokenInv' /\ ArrivesInTime
  <1> SUFFICES ASSUME TokenInv, [Next]_vars PROVE TokenInv' /\ ArrivesInTime
    OBVIOUS
  <1>1. CASE UNCHANGED vars
    BY <1>1 DEF vars, TokenInv, ArrivesInTime
  <1>2. ASSUME NEW v \in Window, SubmitForm(v) PROVE TokenInv' /\ ArrivesInTime
    BY <1>2, AuthdirKeeps DEF SubmitForm
  <1>3. ASSUME NEW v \in Window, RequestAuthtarget(v) PROVE TokenInv' /\ ArrivesInTime
    BY <1>3, AuthdirKeeps DEF RequestAuthtarget
  <1>4. CASE SessionEnds
    BY <1>4 DEF SessionEnds, client_reset, TokenInv, TokenOK, ArrivesInTime
  <1>5. CASE NdsctlAuth
    BY <1>5 DEF NdsctlAuth, TokenInv, TokenOK, ArrivesInTime
  <1> QED
    BY <1>1, <1>2, <1>3, <1>4, <1>5, WindowKeeps DEF Next

(* A splash page made before the last reset of the client (client_reset)     *)
(* never gets through try_to_authenticate, for any number of windows, urls   *)
(* and resets.                                                               *)
THEOREM OldPagesCorrect == SplashSpec => OldPagesRejected
  <1>1. Init => TokenInv
    BY TokenInit
  <1>2. TokenInv /\ [Next]_vars => TokenInv'
    BY TokenStep
  <1>3. TokenInv /\ [Next]_vars =>
          [\A w \in Window : (window[w].pc # "arrived" /\ window'[w].pc = "arrived") =>
              window[w].made = client.resets]_vars
    BY TokenStep DEF ArrivesInTime
  <1> QED
    BY <1>1, <1>2, <1>3, PTL DEF SplashSpec, OldPagesRejected

---------------------------------------------------------------------------
(* The url a user wants *)

(* The encoding of a text is at least as long as the text, and at most three *)
(* times as long.                                                            *)
LEMMA SizeBounds ==
    ASSUME NEW t \in Seq(Char), NEW n, n = Len(t)
    PROVE  n \in Nat /\ Size(t, n) \in Nat /\ n <= Size(t, n) /\ Size(t, n) <= 3 * n
<1>1. n \in Nat
  OBVIOUS
<1>2. Cardinality(Plain(t, n)) \in Nat /\ Cardinality(Plain(t, n)) <= n
  <2>1. IsFiniteSet(1..n) /\ Cardinality(1..n) = n
    <3>1. n \in Int /\ 1 \in Int
      BY <1>1
    <3>2. /\ IsFiniteSet(1..n)
          /\ Cardinality(1..n) = IF 1 > n THEN 0 ELSE n - 1 + 1
      BY <3>1, FS_Interval, Zenon
    <3> QED
      BY <1>1, <3>2
  <2>2. Plain(t, n) \in SUBSET (1..n)
    BY DEF Plain
  <2> QED
    BY <2>1, <2>2, FS_Subset, FS_CardinalityType
<1> DEFINE c == Cardinality(Plain(t, n))
<1>3. Size(t, n) = 3 * n - 2 * c
  BY DEF Size
<1> HIDE DEF c
<1>4. c \in Nat /\ c <= n
  BY <1>2 DEF c
<1> QED
  BY <1>1, <1>3, <1>4

(* What the encoded text of a url is, in a buffer in which it fits. *)
LEMMA EncodedFacts ==
    ASSUME NEW blen \in Nat, NEW t \in Seq(Char), NEW e, e = uh_urlencode(blen, t)
    PROVE  /\ e.text \in Seq(Char) /\ e.rc \in {0, -1}
           /\ (e.rc = 0) <=> (Size(t, Len(t)) <= blen)
           /\ e.rc = 0 => Len(e.text) = Size(t, Len(t))
<1> DEFINE n == Len(t)
           f == Encoding(blen, t)
<1>1. n \in 0..n
  OBVIOUS
<1>2. e = f[n]
  BY DEF uh_urlencode
<1>3. f[n] \in EncodeState
  BY <1>1, EncodingDef
<1>4. /\ (f[n].rc = 0) <=> (Size(t, n) <= blen)
      /\ f[n].rc = 0 => Len(f[n].text) = Size(t, n)
  BY <1>1, EncodingSize
<1> HIDE DEF f
<1> QED
  BY <1>2, <1>3, <1>4 DEF EncodeState

(* The encoded url has the same length in the buffer of QUERYMAXLEN. *)
LEMMA CodedLength ==
    ASSUME NEW t \in Seq(Char)
    PROVE  /\ Coded(t) \in Seq(Char)
           /\ uh_urlencode(QueryMaxLen, t).rc = 0 =>
                Len(uh_urlencode(QueryMaxLen, t).text) = Len(Coded(t))
<1> DEFINE big == uh_urlencode(3 * Len(t), t)
           e == uh_urlencode(QueryMaxLen, t)
<1>1. Coded(t) = big.text
  BY TextAssumption DEF Coded
<1>2. Len(t) \in Nat /\ 3 * Len(t) \in Nat /\ Size(t, Len(t)) <= 3 * Len(t) /\ QueryMaxLen \in Nat
  <2>1. Len(t) \in Nat /\ Size(t, Len(t)) <= 3 * Len(t)
    BY SizeBounds
  <2> QED
    BY <2>1, SplashAssumption
<1>3. big.text \in Seq(Char) /\ Len(big.text) = Size(t, Len(t))
  <2> DEFINE m == 3 * Len(t)
  <2> HIDE DEF m
  <2>1. m \in Nat /\ big = uh_urlencode(m, t) /\ Size(t, Len(t)) <= m
    BY <1>2 DEF m
  <2> QED
    BY <2>1, EncodedFacts
<1>4. e.rc = 0 => Len(e.text) = Size(t, Len(t))
  BY <1>2, EncodedFacts
<1> QED
  BY <1>1, <1>3, <1>4

(* A text without characters that are encoded is its own encoding. *)
LEMMA NoCode ==
    ASSUME NEW t \in Seq(Char), NEW blen \in Nat, Len(t) <= blen, NeedsNoCode(t)
    PROVE  uh_urlencode(blen, t).text = t
<1> DEFINE n == Len(t)
           e == Encoding(blen, t)
           Sofar(i) == [text |-> SubSeq(t, 1, i), rc |-> 0]
           T == {i \in 0..n : e[i] = Sofar(i)}
<1>1. n \in Nat /\ n <= blen /\ \A i \in 1..n : t[i] \in Char /\ t[i] \notin DOMAIN Hex
  <2>1. DOMAIN t = 1..n /\ t # None
    BY TextAssumption
  <2> QED
    BY <2>1 DEF NeedsNoCode
<1>2. /\ e[0] = [text |-> <<>>, rc |-> 0]
      /\ \A i \in 1..n : e[i] = EncodeChar(e[i - 1], blen, t[i])
  BY EncodingDef
<1> HIDE DEF e
<1>3. 0 \in T
  <2>1. SubSeq(t, 1, 0) = <<>> /\ 0 \in 0..n
    BY <1>1
  <2> QED
    BY <1>2, <2>1
<1>4. ASSUME NEW i \in 1..n, i - 1 \in T PROVE i \in T
  <2> DEFINE s == SubSeq(t, 1, i - 1)
  <2>1. Len(s) = i - 1 /\ Append(s, t[i]) = SubSeq(t, 1, i)
    BY <1>1
  <2>2. i - 1 < blen /\ i \in 0..n
    BY <1>1
  <2>3. e[i] = EncodeChar([text |-> s, rc |-> 0], blen, t[i])
    BY <1>2, <1>4
  <2> HIDE DEF s
  <2>4. e[i] = [text |-> Append(s, t[i]), rc |-> 0]
    BY <1>1, <2>1, <2>2, <2>3 DEF EncodeChar
  <2> QED
    BY <2>1, <2>2, <2>4
<1>5. \A i \in 0..n : i \in T
  <2> HIDE DEF T, n
  <2> QED
    BY <1>1, <1>3, <1>4, Rounds
<1>6. e[n].text = SubSeq(t, 1, n) /\ SubSeq(t, 1, n) = t
  <2>1. e[n] = Sofar(n)
    BY <1>1, <1>5
  <2>2. SubSeq(t, 1, n) = t
    OBVIOUS
  <2> QED
    BY <2>1, <2>2
<1> QED
  BY <1>6 DEF uh_urlencode, e

(* The same for a value that may be missing. *)
LEMMA CodedPlain ==
    ASSUME NEW t \in Seq(Char) \cup {None}, NeedsNoCode(t)
    PROVE  Coded(t) = t
<1>1. CASE t = None
  BY <1>1 DEF Coded
<1>2. CASE t # None
  <2>1. t \in Seq(Char) /\ Len(t) \in Nat
    BY <1>2
  <2> DEFINE m == 3 * Len(t)
  <2>2. m \in Nat /\ Len(t) <= m
    BY <2>1
  <2> HIDE DEF m
  <2>3. uh_urlencode(m, t).text = t
    BY <2>1, <2>2, NoCode
  <2> QED
    BY <1>2, <2>3 DEF Coded, m
<1> QED
  BY <1>1, <1>2

(* The parts of a url. *)
LEMMA OriginParts ==
    ASSUME NEW o \in Origins
    PROVE  /\ o.path \in Seq(Char) /\ Len(o.path) >= 1 /\ o.path[1] = "/"
           /\ o.args \in Seq(Argument)
<1>1. /\ o \in [path : Seq(Char), args : Seq(Argument)]
      /\ IsPrefix(<<"/">>, o.path)
  BY TextAssumption DEF Origin
<1>2. o.path \in Seq(Char)
  BY <1>1
<1>3. Len(o.path) >= 1 /\ o.path[1] = "/"
  BY <1>1, <1>2 DEF IsPrefix
<1> QED
  BY <1>1, <1>2, <1>3

(* An argument is printed as a text. *)
LEMMA ArgType ==
    ASSUME NEW arg \in Argument, NEW first
    PROVE  Arg(arg, first) \in Seq(Char)
<1> DEFINE k == arg.key
           v == arg.value
           begin == IF first THEN <<"?">> ELSE <<"&">>
           end == IF v = None THEN <<>> ELSE <<"=">> \o v
<1>1. k \in Seq(Char) /\ v \in Seq(Char) \cup {None}
  BY DEF Argument
<1>2. "?" \in Char /\ "&" \in Char /\ "=" \in Char
  BY DEF Char
<1>3. Arg(arg, first) = begin \o k \o end
  BY DEF Arg
<1> HIDE DEF k, v
<1>4. begin \in Seq(Char)
  BY <1>2
<1>5. end \in Seq(Char)
  BY <1>1, <1>2
<1> HIDE DEF begin, end
<1> QED
  BY <1>1, <1>3, <1>4, <1>5

(* Keys and values that need no encoding are put together as they were. *)
LEMMA ArgPlain ==
    ASSUME NEW arg \in Argument, NEW first,
           NeedsNoCode(arg.key), NeedsNoCode(arg.value)
    PROVE  Arg([key |-> Coded(arg.key), value |-> Coded(arg.value)], first) = Arg(arg, first)
<1>1. arg.key \in Seq(Char) \cup {None} /\ arg.value \in Seq(Char) \cup {None}
  BY DEF Argument
<1>2. Coded(arg.key) = arg.key /\ Coded(arg.value) = arg.value
  BY <1>1, CodedPlain
<1> QED
  BY <1>2 DEF Arg

(* A query is printed as a text. *)
LEMMA QueryType ==
    ASSUME NEW args \in Seq(Argument)
    PROVE  get_query(args).text \in Seq(Char)
<1> DEFINE S == Seq(Char)
           n == Len(args)
           ts == [i \in DOMAIN args |-> Arg(args[i], i = 1)]
<1>1. n \in Nat /\ DOMAIN args = 1..n /\ \A i \in 1..n : args[i] \in Argument
  OBVIOUS
<1>2. \A i \in 1..n : Arg(args[i], i = 1) \in S
  BY <1>1, ArgType
<1> HIDE DEF S, n
<1>3. ts \in [1..n -> S]
  BY <1>1, <1>2
<1>4. get_query(args).text = FlattenSeq(ts)
  BY DEF get_query
<1> HIDE DEF ts
<1>5. ts \in Seq(S)
  BY <1>1, <1>3
<1> QED
  BY <1>4, <1>5, Flatten DEF S

(* The url that redirect_to_splashpage puts together is the wanted one. *)
LEMMA WantedIs ==
    ASSUME NEW o \in Origins, Rebuilt(o)
    PROVE  /\ Wanted(o) = <<"H">> \o buffer_path_simplify(o.path) \o get_query(o.args).text
           /\ Wanted(o) \in Seq(Char)
<1> DEFINE args == o.args
           new(i) == Arg([key |-> Coded(args[i].key), value |-> Coded(args[i].value)], i = 1)
           path == buffer_path_simplify(o.path)
           query == get_query(args).text
<1>1. args \in Seq(Argument) /\ path \in Seq(Char) /\ Resolved(o.path) = path
  <2>1. o.path \in Seq(Char) /\ Len(o.path) >= 1 /\ o.path[1] = "/" /\ o.args \in Seq(Argument)
    BY OriginParts
  <2>2. path \in Seq(Char)
    BY <2>1, PathStaysBelow
  <2> QED
    BY <2>1, <2>2, PathResolved
<1>2. query \in Seq(Char)
  BY <1>1, QueryType
<1>3. \A i \in DOMAIN args : new(i) = Arg(args[i], i = 1)
  <2>1. \A i \in DOMAIN args : args[i] \in Argument /\ NeedsNoCode(args[i].key) /\ NeedsNoCode(args[i].value)
    BY <1>1 DEF Rebuilt
  <2> QED
    BY <2>1, ArgPlain
<1>4. [i \in DOMAIN args |-> new(i)] = [i \in DOMAIN args |-> Arg(args[i], i = 1)]
  <2> HIDE DEF new
  <2> QED
    BY <1>3
<1>5. query = FlattenSeq([i \in DOMAIN args |-> Arg(args[i], i = 1)])
  BY DEF get_query
<1>6. Wanted(o) = <<"H">> \o Resolved(o.path) \o FlattenSeq([i \in DOMAIN args |-> new(i)])
  BY DEF Wanted
<1> HIDE DEF new, args, path, query
<1>7. Wanted(o) = <<"H">> \o path \o query
  BY <1>1, <1>4, <1>5, <1>6
<1>8. <<"H">> \in Seq(Char)
  <2>1. "H" \in Char
    BY DEF Char
  <2> QED
    BY <2>1
<1>9. <<"H">> \o path \o query \in Seq(Char)
  BY <1>1, <1>2, <1>8
<1> QED
  BY <1>7, <1>9 DEF path, query, args

(* What the window of a user who asked for origin carries. *)
Target(origin) == IF RedirectURL # <<>> THEN RedirectURL ELSE Wanted(origin)
CodeOf(origin) == uh_urlencode(QueryMaxLen, Wanted(origin))
Carried(pc, origin, redir) ==
    /\ pc = "arrived" => redir = Target(origin)
    /\ (pc = "splash" /\ RedirectURL = <<>>) => redir = Wanted(origin)
    /\ (pc = "redirect" /\ RedirectURL = <<>>) =>
          CodeOf(origin).rc = 0 /\ redir = CodeOf(origin).text

(* The user of a window asked for a url that is rebuilt, and took no link. *)
Carries(s) == ~s.linked /\ s.origin # None /\ Rebuilt(s.origin)

WindowOK(s) ==
    /\ s.origin \in Origins \cup {None}
    /\ s.pc = "blank" => s.origin = None
    /\ s.pc = "link" => s.linked
    /\ Carries(s) => Carried(s.pc, s.origin, s.redir)

OriginInv == \A w \in Window : WindowOK(window[w])

(* Pages without a value that is used later *)
Idle == {"ask", "refresh", "status", "file", "error"}

(* What Shows changes and what it leaves alone. *)
LEMMA ShowsFields ==
    ASSUME PagesOK(window), NEW v \in Window, NEW pc, NEW redir, Shows(v, pc, redir)
    PROVE  /\ \A w \in Window \ {v} : window'[w] = window[w]
           /\ window'[v].pc = pc /\ window'[v].redir = redir
           /\ window'[v].origin = window[v].origin /\ window'[v].linked = window[v].linked
  BY DEF PagesOK, Shows

(* A step changes one window. *)
LEMMA OneWindow ==
    ASSUME OriginInv, NEW v \in Window, \A w \in Window \ {v} : window'[w] = window[w],
           WindowOK(window'[v])
    PROVE  OriginInv'
<1>1. ASSUME NEW w \in Window PROVE WindowOK(window'[w])
  <2>1. CASE w = v
    BY <2>1
  <2>2. CASE w # v
    BY <2>2 DEF OriginInv
  <2> QED
    BY <2>1, <2>2
<1> QED
  BY <1>1 DEF OriginInv

(* A page without a value that is used later carries nothing. *)
LEMMA IdleOK ==
    ASSUME NEW s, WindowOK(s), NEW t, t.origin = s.origin, t.linked = s.linked, t.pc \in Idle
    PROVE  WindowOK(t)
<1>1. t.pc # "blank" /\ t.pc # "link" /\ t.pc # "arrived" /\ t.pc # "splash" /\ t.pc # "redirect"
  BY DEF Idle
<1>2. Carried(t.pc, t.origin, t.redir)
  BY <1>1 DEF Carried
<1> QED
  BY <1>1, <1>2 DEF WindowOK

LEMMA ShowsIdle ==
    ASSUME PagesOK(window), OriginInv, NEW v \in Window, NEW pc \in Idle, NEW redir,
           Shows(v, pc, redir)
    PROVE  OriginInv'
<1>1. /\ \A w \in Window \ {v} : window'[w] = window[w]
      /\ window'[v].pc = pc /\ window'[v].redir = redir
      /\ window'[v].origin = window[v].origin /\ window'[v].linked = window[v].linked
  BY ShowsFields
<1>2. WindowOK(window[v])
  BY DEF OriginInv
<1>3. WindowOK(window'[v])
  BY <1>1, <1>2, IdleOK
<1> QED
  BY <1>1, <1>3, OneWindow

(* A wanted url that fits goes through the pages and comes back. *)
LEMMA CodeGoesThrough ==
    ASSUME NEW o \in Origins, Rebuilt(o), CodeOf(o).rc = 0
    PROVE  /\ Len(CodeOf(o).text) # QueryMaxLen
           /\ CodeOf(o).text \in Seq(Char)
           /\ uh_urldecode(Len(CodeOf(o).text), CodeOf(o).text).text = Wanted(o)
<1> DEFINE W == Wanted(o)
           E == CodeOf(o).text
<1>1. W \in Seq(Char) /\ Len(Coded(W)) # QueryMaxLen /\ QueryMaxLen \in Nat
  BY WantedIs, SplashAssumption DEF Rebuilt
<1>2. CodeOf(o) = uh_urlencode(QueryMaxLen, W)
  BY DEF CodeOf
<1> HIDE DEF W
<1>3. E \in Seq(Char) /\ Len(E) = Size(W, Len(W))
  BY <1>1, <1>2, EncodedFacts
<1>4. Len(E) = Len(Coded(W))
  BY <1>1, <1>2, CodedLength
<1>5. Len(W) <= Len(E) /\ Len(E) \in Nat
  <2>1. Len(W) <= Size(W, Len(W))
    BY <1>1, SizeBounds
  <2> QED
    BY <1>3, <2>1
<1>6. uh_urldecode(Len(E), E) = [text |-> W, rc |-> 0]
  <2> DEFINE m == Len(E)
  <2> HIDE DEF m
  <2>1. m \in Nat /\ Len(W) <= m
    BY <1>5 DEF m
  <2>2. uh_urldecode(m, uh_urlencode(QueryMaxLen, W).text) = [text |-> W, rc |-> 0]
    BY <1>1, <1>2, <2>1, DecodingInverts
  <2> QED
    BY <1>2, <2>2 DEF m
<1> HIDE DEF E
<1>7. uh_urldecode(Len(E), E).text = W
  BY <1>6
<1> QED
  BY <1>1, <1>3, <1>4, <1>7 DEF W, E

(* url is what the user of the window wants. *)
Brings(s, url) == (Carries(s) /\ RedirectURL = <<>>) => url = Wanted(s.origin)

(* A redirect to the splash page carries the url, or is an error page. *)
LEMMA RedirectCarries ==
    ASSUME PagesOK(window), OriginInv, NEW v \in Window, window[v].pc # "blank", NEW url,
           Brings(window[v], url), encode_and_redirect_to_splashpage(v, url)
    PROVE  OriginInv'
<1> DEFINE encoded == uh_urlencode(QueryMaxLen, url)
           Behind  == IF Len(encoded.text) = QueryMaxLen THEN {<<>>, <<"a">>} ELSE {<<>>}
<1>1. CASE Shows(v, "error", None)
  <2>1. "error" \in Idle
    BY DEF Idle
  <2> QED
    BY <1>1, <2>1, ShowsIdle
<1>2. ASSUME encoded.rc = 0, NEW t \in Behind, Shows(v, "redirect", encoded.text \o t)
      PROVE  OriginInv'
  <2> DEFINE old == window[v]
             new == window'[v]
  <2>1. /\ \A w \in Window \ {v} : window'[w] = window[w]
        /\ new.pc = "redirect" /\ new.redir = encoded.text \o t
        /\ new.origin = old.origin /\ new.linked = old.linked
    BY <1>2, ShowsFields
  <2>2. WindowOK(old)
    BY DEF OriginInv
  <2>3. ASSUME Carries(old), RedirectURL = <<>>
        PROVE  CodeOf(old.origin).rc = 0 /\ new.redir = CodeOf(old.origin).text
    <3>1. old.origin \in Origins /\ Rebuilt(old.origin) /\ url = Wanted(old.origin)
      BY <2>2, <2>3 DEF WindowOK, Carries, Brings
    <3>2. encoded = CodeOf(old.origin)
      BY <3>1 DEF CodeOf
    <3> HIDE DEF old, new
    <3>3. Len(encoded.text) # QueryMaxLen /\ encoded.text \in Seq(Char)
      BY <1>2, <3>1, <3>2, CodeGoesThrough
    <3>4. t = <<>>
      BY <1>2, <3>3
    <3> HIDE DEF encoded
    <3>5. encoded.text \o t = encoded.text
      BY <3>3, <3>4
    <3> QED
      BY <1>2, <2>1, <3>2, <3>5
  <2> HIDE DEF old, new, encoded
  <2>4. Carries(new) => Carries(old)
    BY <2>1 DEF Carries
  <2>5. WindowOK(new)
    <3>1. old.pc # "blank"
      BY DEF old
    <3>2. Carries(new) => Carried(new.pc, new.origin, new.redir)
      BY <2>1, <2>3, <2>4 DEF Carried
    <3> QED
      BY <2>1, <2>2, <3>2 DEF WindowOK
  <2> QED
    BY <2>1, <2>5, OneWindow DEF new
<1> QED
  BY <1>1, <1>2 DEF encode_and_redirect_to_splashpage

(* The splash page has the url that was encoded in its own. *)
LEMMA TemplateCarries ==
    ASSUME PagesOK(window), OriginInv, NEW v \in Window, NEW page,
           page = "status" \/ (page = "splash" /\ window[v].pc = "redirect"),
           show_templated_page(v, page)
    PROVE  OriginInv'
<1> DEFINE old == window[v]
           new == window'[v]
           text == IF old.redir = None THEN None ELSE uh_urldecode(Len(old.redir), old.redir).text
<1>1. CASE Shows(v, "error", None)
  <2>1. "error" \in Idle
    BY DEF Idle
  <2> QED
    BY <1>1, <2>1, ShowsIdle
<1>2. CASE window' = [window EXCEPT ![v].pc = page, ![v].redir = text,
                                    ![v].tok = client.token, ![v].made = client.resets]
  <2>1. ASSUME NEW redir, NEW tok, NEW made,
               window' = [window EXCEPT ![v].pc = page, ![v].redir = redir,
                                        ![v].tok = tok, ![v].made = made]
        PROVE  /\ \A w \in Window \ {v} : window'[w] = window[w]
               /\ new.pc = page /\ new.redir = redir
               /\ new.origin = old.origin /\ new.linked = old.linked
    BY <2>1 DEF PagesOK
  <2> HIDE DEF text
  <2>2. /\ \A w \in Window \ {v} : window'[w] = window[w]
        /\ new.pc = page /\ new.redir = text
        /\ new.origin = old.origin /\ new.linked = old.linked
    BY <1>2, <2>1
  <2>3. WindowOK(old)
    BY DEF OriginInv
  <2>4. CASE page = "status"
    <3>1. WindowOK(new)
      BY <2>2, <2>3, <2>4, IdleOK DEF Idle
    <3> QED
      BY <2>2, <3>1, OneWindow
  <2>5. CASE page = "splash" /\ old.pc = "redirect"
    <3> HIDE DEF old, new
    <3>1. ASSUME Carries(old), RedirectURL = <<>> PROVE text = Wanted(old.origin)
      <4> DEFINE o == old.origin
      <4>1. o \in Origins /\ Rebuilt(o) /\ CodeOf(o).rc = 0 /\ old.redir = CodeOf(o).text
        BY <2>3, <2>5, <3>1 DEF WindowOK, Carries, Carried
      <4> HIDE DEF o
      <4>2. CodeOf(o).text \in Seq(Char) /\ uh_urldecode(Len(CodeOf(o).text), CodeOf(o).text).text = Wanted(o)
        BY <4>1, CodeGoesThrough
      <4>3. old.redir # None
        BY <4>1, <4>2, TextAssumption
      <4> QED
        BY <4>1, <4>2, <4>3 DEF text, o
    <3>2. Carries(new) => Carries(old)
      BY <2>2 DEF Carries
    <3>3. Carries(new) => Carried(new.pc, new.origin, new.redir)
      BY <2>2, <2>5, <3>1, <3>2 DEF Carried
    <3>4. WindowOK(new)
      BY <2>2, <2>3, <2>5, <3>3 DEF WindowOK
    <3> QED
      BY <2>2, <3>4, OneWindow DEF new
  <2> QED
    BY <2>4, <2>5
<1> QED
  BY <1>1, <1>2 DEF show_templated_page

(* The authdir sends the user on to the url, or back with it. *)
LEMMA AuthdirCarries ==
    ASSUME TokenInv, OriginInv, NEW v \in Window, window[v].pc # "blank", NEW url,
           Brings(window[v], url), RequestAuthdir(v, url)
    PROVE  OriginInv'
<1> DEFINE redirect_url == IF RedirectURL # <<>> THEN RedirectURL ELSE url
<1>1. PagesOK(window)
  BY DEF TokenInv
<1>2. Brings(window[v], redirect_url)
  BY DEF Brings
<1>3. Carries(window[v]) => redirect_url = Target(window[v].origin)
  BY DEF Brings, Target
<1>4. \/ show_templated_page(v, "status")
      \/ encode_and_redirect_to_splashpage(v, redirect_url)
      \/ Shows(v, "arrived", redirect_url)
  BY DEF RequestAuthdir
<1> HIDE DEF redirect_url
<1>5. CASE show_templated_page(v, "status")
  BY <1>1, <1>5, TemplateCarries
<1>6. CASE encode_and_redirect_to_splashpage(v, redirect_url)
  BY <1>1, <1>2, <1>6, RedirectCarries
<1>7. CASE Shows(v, "arrived", redirect_url)
  <2> DEFINE old == window[v]
             new == window'[v]
  <2>1. /\ \A w \in Window \ {v} : window'[w] = window[w]
        /\ new.pc = "arrived" /\ new.redir = redirect_url
        /\ new.origin = old.origin /\ new.linked = old.linked
    BY <1>1, <1>7, ShowsFields
  <2>2. WindowOK(old)
    BY DEF OriginInv
  <2>3. Carries(old) => redirect_url = Target(old.origin)
    BY <1>3
  <2> HIDE DEF old, new
  <2>4. Carries(new) => Carries(old)
    BY <2>1 DEF Carries
  <2>5. Carries(new) => Carried(new.pc, new.origin, new.redir)
    BY <2>1, <2>3, <2>4 DEF Carried
  <2>6. WindowOK(new)
    BY <2>1, <2>2, <2>5 DEF WindowOK
  <2> QED
    BY <2>1, <2>6, OneWindow DEF new
<1> QED
  BY <1>4, <1>5, <1>6, <1>7

(* The form sends the url of its page. *)
LEMMA FormCarries ==
    ASSUME TokenInv, OriginInv, NEW v \in Window, SubmitForm(v)
    PROVE  OriginInv'
<1> DEFINE s == window[v]
           url == RedirOfForm(s.redir)
<1>1. s.pc = "splash" /\ RequestAuthdir(v, url) /\ WindowOK(s)
  BY DEF SubmitForm, OriginInv
<1>2. Brings(s, url)
  <2>1. ASSUME Carries(s), RedirectURL = <<>> PROVE url = Wanted(s.origin)
    <3> HIDE DEF s
    <3>1. s.origin \in Origins /\ Rebuilt(s.origin) /\ s.redir = Wanted(s.origin)
      BY <1>1, <2>1 DEF WindowOK, Carries, Carried
    <3>2. s.redir # None
      BY <3>1, WantedIs, TextAssumption
    <3> QED
      BY <3>1, <3>2 DEF RedirOfForm
  <2> QED
    BY <2>1 DEF Brings
<1> HIDE DEF url
<1> QED
  BY <1>1, <1>2, AuthdirCarries

(* The link: nothing is said of its url. *)
LEMMA LinkCarries ==
    ASSUME TokenInv, OriginInv, NEW v \in Window, RequestAuthtarget(v)
    PROVE  OriginInv'
<1> DEFINE s == window[v]
           url == s.redir
<1>1. s.pc = "link" /\ RequestAuthdir(v, url) /\ WindowOK(s)
  BY DEF RequestAuthtarget, OriginInv
<1>2. Brings(s, url)
  BY <1>1 DEF WindowOK, Carries, Brings
<1> HIDE DEF url
<1> QED
  BY <1>1, <1>2, AuthdirCarries

(* The first redirect has the url the user asked for. *)
LEMMA ForeignCarries ==
    ASSUME TokenInv, OriginInv, NEW v \in Window, RequestForeign(v)
    PROVE  OriginInv'
<1> DEFINE o == window[v].origin
           url == <<"H">> \o buffer_path_simplify(o.path) \o get_query(o.args).text
<1>1. PagesOK(window) /\ window[v].pc = "ask" /\ WindowOK(window[v])
  BY DEF TokenInv, RequestForeign, OriginInv
<1>2. "refresh" \in Idle /\ "error" \in Idle
  BY DEF Idle
<1>3. CASE Shows(v, "refresh", None) \/ Shows(v, "error", None)
  BY <1>1, <1>2, <1>3, ShowsIdle
<1>4. CASE encode_and_redirect_to_splashpage(v, url)
  <2>1. Brings(window[v], url)
    <3>1. Carries(window[v]) => o \in Origins /\ Rebuilt(o)
      BY <1>1 DEF WindowOK, Carries
    <3> QED
      BY <3>1, WantedIs DEF Brings
  <2>2. window[v].pc # "blank"
    BY <1>1
  <2> HIDE DEF url
  <2> QED
    BY <1>1, <1>4, <2>1, <2>2, RedirectCarries
<1> QED
  BY <1>3, <1>4 DEF RequestForeign, redirect_to_splashpage

(* The steps that begin or end what a window carries *)
LEMMA OtherCarries ==
    ASSUME TokenInv, OriginInv, NEW v \in Window,
           \/ \E o \in Origins : Ask(v, o)
           \/ Refresh(v) \/ Visit(v) \/ OpenSplashpage(v)
           \/ FollowLink(v) \/ RequestDenydir(v) \/ Close(v)
    PROVE  OriginInv'
<1> DEFINE old == window[v]
           new == window'[v]
<1>1. PagesOK(window) /\ WindowOK(old)
  BY DEF TokenInv, OriginInv
<1>2. "ask" \in Idle /\ "file" \in Idle /\ "error" \in Idle
  BY DEF Idle
<1>3. ASSUME NEW o \in Origins, Ask(v, o) PROVE OriginInv'
  <2>1. /\ \A w \in Window \ {v} : window'[w] = window[w]
        /\ new.pc = "ask" /\ new.origin = o
    BY <1>1, <1>3 DEF Ask, PagesOK
  <2>2. WindowOK(new)
    BY <2>1 DEF WindowOK, Carried
  <2> QED
    BY <2>1, <2>2, OneWindow
<1>4. CASE Refresh(v)
  BY <1>1, <1>2, <1>4, ShowsIdle DEF Refresh
<1>5. CASE Visit(v)
  <2>1. /\ \A w \in Window \ {v} : window'[w] = window[w]
        /\ new.pc = "redirect" /\ new.origin = old.origin /\ old.pc = "blank"
    BY <1>1, <1>5, ShowsFields DEF Visit
  <2>2. WindowOK(new)
    BY <1>1, <2>1 DEF WindowOK, Carries
  <2> QED
    BY <2>1, <2>2, OneWindow
<1>6. CASE OpenSplashpage(v)
  <2>1. CASE serve_file(v)
    BY <1>1, <1>2, <2>1, ShowsIdle DEF serve_file
  <2>2. CASE show_templated_page(v, "splash")
    BY <1>1, <1>6, <2>2, TemplateCarries DEF OpenSplashpage
  <2> QED
    BY <1>6, <2>1, <2>2 DEF OpenSplashpage
<1>7. CASE FollowLink(v)
  <2>1. PICK redir : window' = [window EXCEPT ![v].pc = "link", ![v].linked = TRUE,
                                              ![v].redir = redir]
    BY <1>7 DEF FollowLink
  <2>2. /\ \A w \in Window \ {v} : window'[w] = window[w]
        /\ new.pc = "link" /\ new.origin = old.origin /\ new.linked = TRUE
    BY <1>1, <2>1 DEF PagesOK
  <2>3. WindowOK(new)
    BY <1>1, <2>2 DEF WindowOK, Carries
  <2> QED
    BY <2>2, <2>3, OneWindow
<1>8. CASE RequestDenydir(v)
  <2>1. CASE Shows(v, "error", None)
    BY <1>1, <1>2, <2>1, ShowsIdle
  <2>2. CASE window' = [window EXCEPT ![v] = [Nothing EXCEPT !.pc = "redirect"]]
    <3>1. /\ \A w \in Window \ {v} : window'[w] = window[w]
          /\ new.pc = "redirect" /\ new.origin = None
      BY <1>1, <2>2 DEF PagesOK, Nothing
    <3>2. WindowOK(new)
      BY <3>1 DEF WindowOK, Carries
    <3> QED
      BY <3>1, <3>2, OneWindow
  <2> QED
    BY <1>8, <2>1, <2>2 DEF RequestDenydir
<1>9. CASE Close(v)
  <2>1. /\ \A w \in Window \ {v} : window'[w] = window[w]
        /\ new.pc = "blank" /\ new.origin = None
    BY <1>1, <1>9 DEF Close, PagesOK, Nothing
  <2>2. WindowOK(new)
    BY <2>1 DEF WindowOK, Carries
  <2> QED
    BY <2>1, <2>2, OneWindow
<1> QED
  BY <1>3, <1>4, <1>5, <1>6, <1>7, <1>8, <1>9

(* In the beginning nothing is carried. *)
LEMMA OriginInit == Init => OriginInv
<1> SUFFICES ASSUME Init, NEW w \in Window PROVE WindowOK(window[w])
  BY DEF OriginInv
<1>1. window[w].pc = "blank" /\ window[w].origin = None
  BY DEF Init, Nothing
<1> QED
  BY <1>1 DEF WindowOK, Carries

(* The invariant is inductive, together with the one of the tokens. *)
LEMMA OriginStep == TokenInv /\ OriginInv /\ [Next]_vars => OriginInv'
<1> SUFFICES ASSUME TokenInv, OriginInv, [Next]_vars PROVE OriginInv'
  OBVIOUS
<1>1. CASE UNCHANGED window
  BY <1>1 DEF OriginInv
<1>2. UNCHANGED vars \/ SessionEnds \/ NdsctlAuth => UNCHANGED window
  BY DEF vars, SessionEnds, NdsctlAuth
<1> QED
  BY <1>1, <1>2, FormCarries, LinkCarries, ForeignCarries, OtherCarries DEF Next

(* For any windows, urls of any length and buffers of any size: a user who   *)
(* submits the form arrives at the url asked for (encode_and_redirect_to_    *)
(* splashpage, show_templated_page, authenticate_client), through any number *)
(* of rejections.                                                            *)
THEOREM OriginCorrect == SplashSpec => []OriginKept
<1>1. Init => TokenInv /\ OriginInv
  BY TokenInit, OriginInit
<1>2. TokenInv /\ OriginInv /\ [Next]_vars => (TokenInv /\ OriginInv)'
  BY TokenStep, OriginStep
<1>3. OriginInv => OriginKept
  BY DEF OriginInv, WindowOK, Carries, Carried, Target, OriginKept
<1> QED
  BY <1>1, <1>2, <1>3, PTL DEF SplashSpec

(* What uh_urlencode writes, uh_urldecode reads back, and no more is written *)
(* than fits.                                                                *)
THEOREM EncodingCorrect == SplashSpec => []EncodingInverts
  BY EncodingAlways, PTL

(* buffer_path_simplify resolves paths, and leaves no "..". *)
THEOREM PathsCorrect == SplashSpec => []PathsResolved
  BY PathsAlways, PTL

(* tmpl_parse fills the splash page with the values of its variables. *)
THEOREM TemplateCorrect == SplashSpec => []TemplateFilled
  BY TemplateAlways, PTL
============================
