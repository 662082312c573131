--------------------------- MODULE KeyboardProofs ---------------------------
(***************************************************************************)
(* Proofs about the keyboard driver for any keys, any number of bytes on   *)
(* the wire and any order in which keys go down and up.                    *)
(***************************************************************************)
EXTENDS Keyboard, SequenceTheorems, TLAPS

----------------------------------------------------------------------------
(* Codes.                                                                  *)

CodeNames ==
    {"xE0", "x2A", "x36", "x1D", "x38", "x3A", "x0E", "x1C", "x4B", "x4D", "x47",
     "x37", "x5B", "x1E", "x2E", "x26", "x35", "x39"}

Byte == [code : CodeNames, make : BOOLEAN, prefixed : BOOLEAN]

\* A sequence of codes that a key sends: not empty, and no prefix at its end.
Complete(codes) ==
    /\ codes \in Seq(CodeNames)
    /\ codes # <<>>
    /\ codes[Len(codes)] # "xE0"

LEMMA CompleteCodes ==
    ASSUME NEW a \in CodeNames, a # "xE0"
    PROVE  Complete(<<a>>) /\ Complete(<<"xE0", a>>)
<1>0. "xE0" \in CodeNames
  BY DEF CodeNames
<1>1. <<a>> \in Seq(CodeNames) /\ Len(<<a>>) = 1 /\ <<a>>[1] = a /\ <<a>> # <<>>
  OBVIOUS
<1>2. /\ <<"xE0", a>> \in Seq(CodeNames) /\ Len(<<"xE0", a>>) = 2
      /\ <<"xE0", a>>[2] = a /\ <<"xE0", a>> # <<>>
  BY <1>0
<1> QED  BY <1>1, <1>2 DEF Complete

\* PrintScreen, when it goes down and when it goes up.
LEMMA CompleteScreen ==
    /\ Complete(<<"xE0", "x2A", "xE0", "x37">>)
    /\ Complete(<<"xE0", "x37", "xE0", "x2A">>)
<1>0. {"xE0", "x37", "x2A"} \subseteq CodeNames
  BY DEF CodeNames
<1>1. ASSUME NEW a \in CodeNames, NEW b \in CodeNames, b # "xE0"
      PROVE  Complete(<<"xE0", a, "xE0", b>>)
  <2> DEFINE s == <<"xE0", a, "xE0", b>>
  <2>1. s \in Seq(CodeNames) /\ Len(s) = 4 /\ s[4] = b /\ s # <<>>
    BY <1>0
  <2> HIDE DEF s
  <2>2. Complete(s)
    BY <1>1, <2>1 DEF Complete
  <2> QED  BY <2>2 DEF s
<1>2. "x2A" # "xE0" /\ "x37" # "xE0"
  OBVIOUS
<1> QED  BY <1>0, <1>1, <1>2

LEMMA CodesComplete ==
    ASSUME NEW k \in DOMAIN Codes
    PROVE  Complete(Codes[k])
<1>1. \/ k \in {"lshift", "rshift", "lctrl", "lalt", "caps", "backspace", "enter"}
      \/ k \in {"kp_4", "a", "c", "l", "slash", "space"}
      \/ k \in {"rctrl", "ralt", "kp_enter", "left", "right", "home", "lwin", "kp_slash"}
      \/ k = "prtsc"
  BY DEF Codes
<1>2. CASE k \in {"lshift", "rshift", "lctrl", "lalt", "caps", "backspace", "enter"}
  <2>1. \E a \in {"x2A", "x36", "x1D", "x38", "x3A", "x0E", "x1C"} : Codes[k] = <<a>>
    BY <1>2 DEF Codes
  <2>2. /\ "xE0" \notin {"x2A", "x36", "x1D", "x38", "x3A", "x0E", "x1C"}
        /\ {"x2A", "x36", "x1D", "x38", "x3A", "x0E", "x1C"} \subseteq CodeNames
    BY DEF CodeNames
  <2> QED  BY <2>1, <2>2, CompleteCodes
<1>3. CASE k \in {"kp_4", "a", "c", "l", "slash", "space"}
  <2>1. \E a \in {"x4B", "x1E", "x2E", "x26", "x35", "x39"} : Codes[k] = <<a>>
    BY <1>3 DEF Codes
  <2>2. /\ "xE0" \notin {"x4B", "x1E", "x2E", "x26", "x35", "x39"}
        /\ {"x4B", "x1E", "x2E", "x26", "x35", "x39"} \subseteq CodeNames
    BY DEF CodeNames
  <2> QED  BY <2>1, <2>2, CompleteCodes
<1>4. CASE k \in {"rctrl", "ralt", "kp_enter", "left", "right", "home", "lwin", "kp_slash"}
  <2>1. \E a \in {"x1D", "x38", "x1C", "x4B", "x4D", "x47", "x5B", "x35"} :
            Codes[k] = <<"xE0", a>>
    BY <1>4 DEF Codes
  <2>2. /\ "xE0" \notin {"x1D", "x38", "x1C", "x4B", "x4D", "x47", "x5B", "x35"}
        /\ {"x1D", "x38", "x1C", "x4B", "x4D", "x47", "x5B", "x35"} \subseteq CodeNames
    BY DEF CodeNames
  <2> QED  BY <2>1, <2>2, CompleteCodes
<1>5. CASE k = "prtsc"
  <2>1. Codes[k] = <<"xE0", "x2A", "xE0", "x37">>
    BY <1>5 DEF Codes
  <2> QED  BY <2>1, CompleteScreen
<1> QED  BY <1>1, <1>2, <1>3, <1>4, <1>5

----------------------------------------------------------------------------
(* The wire.                                                               *)

\* Bytes of whole events: each byte after a prefix, and no other but perhaps
\* the first, is one that the prefix belongs to.
Stream(w) ==
    /\ w \in Seq(Byte)
    /\ \A i \in 1..(Len(w) - 1) : w[i + 1].prefixed = (w[i].code = "xE0")
    /\ w # <<>> => w[Len(w)].code # "xE0"

LEMMA EmptyStream == Stream(<<>>)
<1>1. <<>> \in Seq(Byte) /\ Len(<<>>) = 0 /\ 1..(0 - 1) = {}
  OBVIOUS
<1> QED  BY <1>1 DEF Stream

LEMMA BytesStream ==
    ASSUME NEW k \in Keys, NEW make \in BOOLEAN
    PROVE  /\ Stream(Bytes(k, make))
           /\ Bytes(k, make) # <<>>
           /\ Bytes(k, make)[1].prefixed = FALSE
<1>1. PICK codes : /\ Complete(codes)
                   /\ Bytes(k, make) =
                        [i \in 1..Len(codes) |->
                            [code |-> codes[i], make |-> make,
                             prefixed |-> i > 1 /\ codes[i - 1] = "xE0"]]
  <2> DEFINE codes == IF k = "prtsc" /\ ~make
                      THEN <<"xE0", "x37", "xE0", "x2A">> ELSE Codes[k]
  <2>1. Complete(codes)
    BY CodesComplete, CompleteScreen, KeyboardAssumption
  <2> QED  BY <2>1 DEF Bytes
<1>2. /\ codes \in Seq(CodeNames) /\ Len(codes) \in Nat /\ Len(codes) > 0
      /\ codes[Len(codes)] # "xE0"
  BY <1>1 DEF Complete
<1> DEFINE n == Len(codes)
           w == [i \in 1..n |-> [code |-> codes[i], make |-> make,
                                 prefixed |-> i > 1 /\ codes[i - 1] = "xE0"]]
<1>3. \A i \in 1..n : w[i] \in Byte
  <2>1. \A i \in 1..n : codes[i] \in CodeNames
    BY <1>2
  <2> QED  BY <2>1 DEF Byte
<1>4. w \in Seq(Byte) /\ Len(w) = n
  <2> HIDE DEF n
  <2>1. n \in Nat
    BY <1>2 DEF n
  <2>2. w \in [1..n -> Byte]
    BY <1>3
  <2> HIDE DEF w
  <2> QED  BY <2>1, <2>2
<1>5. \A i \in 1..(n - 1) : w[i + 1].prefixed = (w[i].code = "xE0")
  <2>1. SUFFICES ASSUME NEW i \in 1..(n - 1)
                 PROVE  w[i + 1].prefixed = (w[i].code = "xE0")
    OBVIOUS
  <2>2. i \in 1..n /\ i + 1 \in 1..n /\ i + 1 > 1 /\ (i + 1) - 1 = i
    BY <1>2
  <2> HIDE DEF n
  <2>3. w[i + 1].prefixed = (i + 1 > 1 /\ codes[(i + 1) - 1] = "xE0")
    BY <2>2
  <2>4. w[i].code = codes[i]
    BY <2>2
  <2> QED  BY <2>2, <2>3, <2>4
<1>6. w # <<>> /\ w[n].code # "xE0" /\ w[1].prefixed = FALSE
  <2>1. n \in 1..n /\ 1 \in 1..n /\ n > 0
    BY <1>2
  <2> HIDE DEF n
  <2>2. w[n].code = codes[n]
    BY <2>1
  <2>3. w[1].prefixed = FALSE
    <3>1. w[1].prefixed = (1 > 1 /\ codes[1 - 1] = "xE0")
      BY <2>1
    <3>2. ~(1 > 1)
      OBVIOUS
    <3> HIDE DEF w
    <3> QED  BY <3>1, <3>2
  <2>4. w # <<>>
    <3> HIDE DEF w
    <3> QED  BY <1>4, <2>1
  <2>5. codes[n] # "xE0"
    BY <1>2 DEF n
  <2> QED  BY <2>2, <2>3, <2>4, <2>5
<1> HIDE DEF w
<1>7. Bytes(k, make) = w
  BY <1>1 DEF w
<1> QED  BY <1>4, <1>5, <1>6, <1>7 DEF Stream

LEMMA StreamConcat ==
    ASSUME NEW w, Stream(w), NEW v, Stream(v), v # <<>>, v[1].prefixed = FALSE
    PROVE  /\ Stream(w \o v) /\ w \o v # <<>>
           /\ (w \o v)[1] = IF w = <<>> THEN v[1] ELSE w[1]
<1> DEFINE s == w \o v
           m == Len(w)
           n == Len(v)
<1>1. w \in Seq(Byte) /\ v \in Seq(Byte) /\ m \in Nat /\ n \in Nat /\ n > 0
      /\ (m > 0 <=> w # <<>>)
  BY DEF Stream
<1>2. /\ s \in Seq(Byte) /\ Len(s) = m + n
      /\ \A i \in 1..m : s[i] = w[i]
      /\ \A i \in 1..n : s[m + i] = v[i]
  BY <1>1, ConcatProperties
<1> HIDE DEF s
<1>3. \A i \in 1..(m + n - 1) : s[i + 1].prefixed = (s[i].code = "xE0")
  <2>1. SUFFICES ASSUME NEW i \in 1..(m + n - 1)
                 PROVE  s[i + 1].prefixed = (s[i].code = "xE0")
    OBVIOUS
  <2>2. CASE i < m
    <3>1. i \in 1..(m - 1) /\ i \in 1..m /\ i + 1 \in 1..m
      BY <1>1, <2>2
    <3>2. s[i] = w[i] /\ s[i + 1] = w[i + 1]
      BY <1>2, <3>1
    <3> QED  BY <3>1, <3>2 DEF Stream
  <2>3. CASE i = m
    <3>1. m \in 1..m /\ 1 \in 1..n /\ w # <<>>
      BY <1>1, <2>3
    <3>2. s[i] = w[m] /\ s[i + 1] = v[1]
      BY <1>2, <2>3, <3>1
    <3> QED  BY <3>1, <3>2 DEF Stream
  <2>4. CASE i > m
    <3> DEFINE j == i - m
    <3>1. j \in 1..(n - 1) /\ j \in 1..n /\ j + 1 \in 1..n /\ i = m + j /\ i + 1 = m + (j + 1)
      BY <1>1, <2>4
    <3> HIDE DEF j
    <3>2. s[i] = v[j] /\ s[i + 1] = v[j + 1]
      BY <1>2, <3>1
    <3> QED  BY <3>1, <3>2 DEF Stream
  <2> QED  BY <1>1, <2>2, <2>3, <2>4
<1>4. s # <<>> /\ s[m + n].code # "xE0"
  <2>1. n \in 1..n
    BY <1>1
  <2> QED  BY <1>1, <1>2, <2>1 DEF Stream
<1>5. s[1] = IF w = <<>> THEN v[1] ELSE w[1]
  <2>1. 1 \in 1..n /\ (w # <<>> => 1 \in 1..m) /\ (w = <<>> => m + 1 = 1)
    BY <1>1
  <2> QED  BY <1>2, <2>1
<1>6. Stream(s)
  BY <1>2, <1>3, <1>4 DEF Stream
<1> QED  BY <1>4, <1>5, <1>6 DEF s

\* After a byte comes one that it is the prefix of, or none.
LEMMA StreamTail ==
    ASSUME NEW w, Stream(w), w # <<>>
    PROVE  /\ Stream(Tail(w))
           /\ IF Tail(w) = <<>> THEN w[1].code # "xE0"
              ELSE Tail(w)[1].prefixed = (w[1].code = "xE0")
<1> DEFINE n == Len(w)
<1>1. /\ w \in Seq(Byte) /\ n \in Nat /\ n > 0
      /\ Tail(w) \in Seq(Byte) /\ Len(Tail(w)) = n - 1
      /\ \A i \in 1..(n - 1) : Tail(w)[i] = w[i + 1]
  BY DEF Stream
<1>2. ASSUME NEW i \in 1..(n - 2)
      PROVE  Tail(w)[i + 1].prefixed = (Tail(w)[i].code = "xE0")
  <2>1. i \in 1..(n - 1) /\ i + 1 \in 1..(n - 1)
    BY <1>1
  <2>2. w[(i + 1) + 1].prefixed = (w[i + 1].code = "xE0")
    BY <2>1 DEF Stream
  <2> QED  BY <1>1, <2>1, <2>2
<1>3. CASE Tail(w) = <<>>
  <2>1. n = 1
    <3> HIDE DEF n
    <3>1. n - 1 = 0
      BY <1>1, <1>3, EmptySeq
    <3> QED  BY <1>1, <3>1
  <2>2. w[1].code # "xE0"
    BY <2>1 DEF Stream
  <2> QED  BY <1>3, <2>2, EmptyStream
<1>4. CASE Tail(w) # <<>>
  <2>1. n - 1 \in 1..(n - 1) /\ 1 \in 1..(n - 1) /\ (n - 1) + 1 = n
    BY <1>1, <1>4
  <2>2. Tail(w)[n - 1] = w[n] /\ Tail(w)[1] = w[1 + 1]
    BY <1>1, <2>1
  <2>3. w[1 + 1].prefixed = (w[1].code = "xE0") /\ w[n].code # "xE0"
    BY <2>1 DEF Stream
  <2>4. (n - 1) - 1 = n - 2
    BY <1>1
  <2> HIDE DEF n
  <2> QED  BY <1>1, <1>2, <1>4, <2>2, <2>3, <2>4 DEF Stream
<1> QED  BY <1>3, <1>4

\* What is left of a stream from its n-th byte on.
LEMMA Suffix ==
    ASSUME NEW v, Stream(v), NEW n \in 1..(Len(v) + 1), NEW s, s = SubSeq(v, n, Len(v))
    PROVE  /\ s \in Seq(Byte) /\ Len(v) \in Nat /\ Len(s) = Len(v) - n + 1
           /\ \A i \in 1..Len(s) : n + i - 1 \in 1..Len(v) /\ s[i] = v[n + i - 1]
<1>1. v \in Seq(Byte) /\ Len(v) \in Nat
  BY DEF Stream
<1>2. \A i \in n..Len(v) : v[i] \in Byte
  BY <1>1
<1>3. s \in Seq(Byte) /\ Len(s) = Len(v) - n + 1
  BY <1>1, <1>2, SubSeqProperties
<1>4. ASSUME NEW i \in 1..Len(s)
      PROVE  n + i - 1 \in 1..Len(v) /\ s[i] = v[n + i - 1]
  BY <1>1, <1>3, SubSeqProperties
<1> QED  BY <1>1, <1>3, <1>4

LEMMA SuffixStream ==
    ASSUME NEW v, Stream(v), NEW n \in 1..(Len(v) + 1)
    PROVE  Stream(SubSeq(v, n, Len(v)))
<1> DEFINE s == SubSeq(v, n, Len(v))
<1>1. /\ s \in Seq(Byte) /\ Len(v) \in Nat /\ Len(s) = Len(v) - n + 1
      /\ \A i \in 1..Len(s) : n + i - 1 \in 1..Len(v) /\ s[i] = v[n + i - 1]
  BY Suffix
<1> HIDE DEF s
<1>2. ASSUME NEW i \in 1..(Len(s) - 1)
      PROVE  s[i + 1].prefixed = (s[i].code = "xE0")
  <2> DEFINE j == n + i - 1
  <2>1. i \in 1..Len(s) /\ i + 1 \in 1..Len(s) /\ n + (i + 1) - 1 = j + 1
        /\ j \in 1..(Len(v) - 1)
    BY <1>1
  <2>2. s[i] = v[j]
    BY <1>1, <2>1
  <2>3. s[i + 1] = v[j + 1]
    <3>1. s[i + 1] = v[n + (i + 1) - 1]
      BY <1>1, <2>1
    <3> QED  BY <2>1, <3>1
  <2> HIDE DEF j
  <2> QED  BY <2>1, <2>2, <2>3 DEF Stream
<1>3. ASSUME s # <<>>
      PROVE  s[Len(s)].code # "xE0"
  <2>1. Len(s) \in 1..Len(s) /\ n + Len(s) - 1 = Len(v) /\ Len(v) > 0
    BY <1>1, <1>3
  <2>2. s[Len(s)] = v[Len(v)] /\ v # <<>>
    BY <1>1, <2>1
  <2> QED  BY <2>2 DEF Stream
<1>4. Stream(s)
  BY <1>1, <1>2, <1>3 DEF Stream
<1> QED  BY <1>4 DEF s

----------------------------------------------------------------------------
(* The prefix.                                                             *)

PrefixInv ==
    /\ Stream(wire)
    /\ cut \in {"no", "prefix", "shift"}
    /\ cut = "prefix" => wire # <<>> /\ wire[1].prefixed = TRUE
    /\ extended_scancode = IF wire = <<>> THEN FALSE ELSE wire[1].prefixed /\ cut # "prefix"

LEMMA PrefixInit == Init => PrefixInv
<1> SUFFICES ASSUME Init PROVE PrefixInv
  OBVIOUS
<1>1. PICK k \in Keys, make \in BOOLEAN :
          \E n \in 1..(Len(Bytes(k, make)) + 1) :
             wire = SubSeq(Bytes(k, make), n, Len(Bytes(k, make)))
  BY DEF Init
<1>2. Stream(wire)
  BY <1>1, BytesStream, SuffixStream
<1>3. /\ extended_scancode = FALSE
      /\ cut = IF wire # <<>> /\ Head(wire).prefixed THEN "prefix" ELSE "no"
  BY DEF Init
<1>4. ASSUME wire # <<>> PROVE Head(wire) = wire[1] /\ wire[1].prefixed \in BOOLEAN
  <2>1. wire \in Seq(Byte) /\ 1 \in 1..Len(wire) /\ Head(wire) = wire[1]
    BY <1>2, <1>4 DEF Stream
  <2>2. wire[1] \in Byte
    BY <2>1
  <2> QED  BY <2>1, <2>2 DEF Byte
<1>5. CASE wire = <<>>
  BY <1>2, <1>3, <1>5 DEF PrefixInv
<1>6. CASE wire # <<>> /\ wire[1].prefixed
  BY <1>2, <1>3, <1>4, <1>6 DEF PrefixInv
<1>7. CASE wire # <<>> /\ ~wire[1].prefixed
  BY <1>2, <1>3, <1>4, <1>7 DEF PrefixInv
<1> QED  BY <1>5, <1>6, <1>7

\* New bytes go behind the old ones, and start with none that has a prefix.
LEMMA PrefixSent ==
    ASSUME PrefixInv, NEW k \in Keys, NEW make \in BOOLEAN,
           wire' = wire \o Bytes(k, make), extended_scancode' = extended_scancode,
           cut' = cut
    PROVE  PrefixInv'
<1>1. Stream(Bytes(k, make)) /\ Bytes(k, make) # <<>> /\ Bytes(k, make)[1].prefixed = FALSE
  BY BytesStream
<1>2. /\ Stream(wire') /\ wire' # <<>>
      /\ wire'[1] = IF wire = <<>> THEN Bytes(k, make)[1] ELSE wire[1]
  BY <1>1, StreamConcat DEF PrefixInv
<1> QED  BY <1>1, <1>2 DEF PrefixInv

LEMMA PrefixStep == PrefixInv /\ [Next]_vars => PrefixInv'
<1> SUFFICES ASSUME PrefixInv, [Next]_vars PROVE PrefixInv'
  OBVIOUS
<1>1. ASSUME NEW k \in Keys, Press(k) PROVE PrefixInv'
  BY <1>1, PrefixSent DEF Press
<1>2. ASSUME NEW k \in Keys, Release(k) PROVE PrefixInv'
  BY <1>2, PrefixSent DEF Release
<1>3. CASE keyboard_handler
  <2>1. /\ wire # <<>> /\ wire' = Tail(wire)
        /\ extended_scancode' = (wire[1].code = "xE0")
        /\ cut' \in {"no", "shift"}
    BY <1>3 DEF keyboard_handler, ExtendedAfter, CutAfter
  <2>2. /\ Stream(wire')
        /\ IF wire' = <<>> THEN wire[1].code # "xE0"
           ELSE wire'[1].prefixed = (wire[1].code = "xE0")
    BY <2>1, StreamTail DEF PrefixInv
  <2> QED  BY <2>1, <2>2 DEF PrefixInv
<1>4. CASE UNCHANGED vars
  BY <1>4 DEF vars, keyVars, PrefixInv
<1> QED  BY <1>1, <1>2, <1>3, <1>4 DEF Next

LEMMA PrefixInvariant == Spec => []PrefixInv
BY PrefixInit, PrefixStep, PTL DEF Spec

\* The flag that carries the prefix from one interrupt to the next is always
\* that of the byte to come, for any keys and any interleaving of events, but
\* for the byte whose prefix init_keyboard has thrown away.
THEOREM KeyboardPrefix == Spec => []PrefixInStep
<1>1. PrefixInv => PrefixInStep
  BY DEF PrefixInv, PrefixInStep, Stream
<1> QED  BY <1>1, PrefixInvariant, PTL

----------------------------------------------------------------------------
(* The modifiers.                                                          *)

\* What a byte is decoded as, when the prefix is in step.
Meaning(byte) ==
    IF byte.code = "xE0" THEN "KEY_UNKNOWN"
    ELSE Entry(IF byte.prefixed THEN extended_scancode_map ELSE scancode_map, byte.code)

\* Once the bytes of w are handled, a flag that is flag now and that keys with
\* the meanings in names set and reset is on only if held.
Settles(flag, w, names, held) ==
    \/ held
    \/ \E i \in 1..Len(w) :
          /\ Meaning(w[i]) \in names /\ w[i].make = FALSE
          /\ \A j \in (i + 1)..Len(w) : Meaning(w[j]) \notin names
    \/ flag = FALSE /\ \A j \in 1..Len(w) : Meaning(w[j]) \notin names

\* Bytes of other keys make no difference.
LEMMA SettlesOther ==
    ASSUME NEW w \in Seq(Byte), NEW v \in Seq(Byte), NEW flag, NEW names, NEW held,
           \A i \in 1..Len(v) : Meaning(v[i]) \notin names,
           Settles(flag, w, names, held)
    PROVE  Settles(flag, w \o v, names, held)
<1> DEFINE s == w \o v
           m == Len(w)
           n == Len(v)
<1>1. /\ Len(s) = m + n /\ m \in Nat /\ n \in Nat
      /\ \A i \in 1..m : s[i] = w[i]
      /\ \A i \in 1..n : s[m + i] = v[i]
  BY ConcatProperties
<1> HIDE DEF s
<1>2. \A j \in (m + 1)..(m + n) : Meaning(s[j]) \notin names
  <2>1. SUFFICES ASSUME NEW j \in (m + 1)..(m + n)
                 PROVE  Meaning(s[j]) \notin names
    OBVIOUS
  <2>2. j - m \in 1..n /\ m + (j - m) = j
    BY <1>1
  <2> QED  BY <1>1, <2>2
<1>3. ASSUME NEW i \in 1..m, Meaning(w[i]) \in names, w[i].make = FALSE,
             \A j \in (i + 1)..m : Meaning(w[j]) \notin names
      PROVE  Settles(flag, s, names, held)
  <2>1. i \in 1..(m + n) /\ s[i] = w[i]
    BY <1>1
  <2>2. \A j \in (i + 1)..(m + n) : Meaning(s[j]) \notin names
    <3>1. SUFFICES ASSUME NEW j \in (i + 1)..(m + n)
                   PROVE  Meaning(s[j]) \notin names
      OBVIOUS
    <3>2. CASE j <= m
      <4>1. j \in 1..m /\ j \in (i + 1)..m
        BY <1>1, <3>2
      <4>2. s[j] = w[j]
        BY <1>1, <4>1
      <4> QED  BY <1>3, <4>1, <4>2
    <3>3. CASE j > m
      <4>1. j \in (m + 1)..(m + n)
        BY <1>1, <3>3
      <4> QED  BY <1>2, <4>1
    <3> QED  BY <1>1, <3>2, <3>3
  <2> QED  BY <1>1, <1>3, <2>1, <2>2 DEF Settles
<1>4. ASSUME flag = FALSE, \A j \in 1..m : Meaning(w[j]) \notin names
      PROVE  Settles(flag, s, names, held)
  <2>1. SUFFICES ASSUME NEW j \in 1..(m + n)
                 PROVE  Meaning(s[j]) \notin names
    BY <1>1, <1>4 DEF Settles
  <2>2. j \in 1..m \/ j \in (m + 1)..(m + n)
    BY <1>1
  <2>3. j \in 1..m => s[j] = w[j]
    BY <1>1
  <2> QED  BY <1>2, <1>4, <2>2, <2>3
<1>5. held => Settles(flag, s, names, held)
  BY DEF Settles
<1>6. Settles(flag, s, names, held)
  BY <1>3, <1>4, <1>5 DEF Settles
<1> QED  BY <1>6 DEF s

\* A key that is let go settles its flag, whatever is before it on the wire.
LEMMA SettlesReleased ==
    ASSUME NEW w \in Seq(Byte), NEW v \in Seq(Byte), v # <<>>, NEW flag, NEW names, NEW held,
           Meaning(v[Len(v)]) \in names, v[Len(v)].make = FALSE
    PROVE  Settles(flag, w \o v, names, held)
<1> DEFINE s == w \o v
           m == Len(w)
           n == Len(v)
<1>1. /\ Len(s) = m + n /\ m \in Nat /\ n \in Nat /\ n > 0
      /\ \A i \in 1..n : s[m + i] = v[i]
  BY ConcatProperties
<1> HIDE DEF s
<1>2. n \in 1..n /\ m + n \in 1..(m + n) /\ (m + n + 1)..(m + n) = {}
  BY <1>1
<1>3. s[m + n] = v[n]
  BY <1>1, <1>2
<1>4. Settles(flag, s, names, held)
  BY <1>1, <1>2, <1>3 DEF Settles
<1> QED  BY <1>4 DEF s

\* The handler does to the flag what the first byte says.
LEMMA SettlesHandled ==
    ASSUME NEW w \in Seq(Byte), w # <<>>, NEW flag, NEW flag1, NEW names, NEW held,
           Settles(flag, w, names, held),
           flag1 = IF Meaning(w[1]) \in names THEN w[1].make ELSE flag
    PROVE  Settles(flag1, Tail(w), names, held)
<1> DEFINE s == Tail(w)
           n == Len(w)
<1>1. /\ n \in Nat /\ n > 0 /\ Len(s) = n - 1
      /\ \A i \in 1..(n - 1) : s[i] = w[i + 1]
  OBVIOUS
<1> HIDE DEF s
<1>2. ASSUME NEW i \in 1..n, Meaning(w[i]) \in names, w[i].make = FALSE,
             \A j \in (i + 1)..n : Meaning(w[j]) \notin names
      PROVE  Settles(flag1, s, names, held)
  <2>1. CASE i = 1
    <3>1. flag1 = FALSE
      BY <1>2, <2>1
    <3>2. ASSUME NEW j \in 1..(n - 1)
          PROVE  Meaning(s[j]) \notin names
      <4>1. j + 1 \in (i + 1)..n
        BY <1>1, <2>1
      <4> QED  BY <1>1, <1>2, <4>1
    <3> QED  BY <1>1, <3>1, <3>2 DEF Settles
  <2>2. CASE i > 1
    <3> DEFINE k == i - 1
    <3>1. k \in 1..(n - 1) /\ k + 1 = i
      BY <1>1, <2>2
    <3> HIDE DEF k
    <3>2. s[k] = w[i]
      BY <1>1, <3>1
    <3>3. ASSUME NEW j \in (k + 1)..(n - 1)
          PROVE  Meaning(s[j]) \notin names
      <4>1. j + 1 \in (i + 1)..n /\ j \in 1..(n - 1)
        BY <1>1, <3>1
      <4> QED  BY <1>1, <1>2, <4>1
    <3> QED  BY <1>1, <1>2, <3>1, <3>2, <3>3 DEF Settles
  <2> QED  BY <2>1, <2>2
<1>3. ASSUME flag = FALSE, \A j \in 1..n : Meaning(w[j]) \notin names
      PROVE  Settles(flag1, s, names, held)
  <2>1. 1 \in 1..n /\ \A j \in 1..(n - 1) : j + 1 \in 1..n
    BY <1>1
  <2>2. flag1 = FALSE
    BY <1>3, <2>1
  <2> QED  BY <1>1, <1>3, <2>1, <2>2 DEF Settles
<1>4. held => Settles(flag1, s, names, held)
  BY DEF Settles
<1>5. Settles(flag1, s, names, held)
  BY <1>2, <1>3, <1>4 DEF Settles
<1> QED  BY <1>5 DEF s

----------------------------------------------------------------------------
(* Which keys are modifiers.                                               *)

ShiftKeys == {"lshift", "rshift"}
CtrlKeys == {"lctrl", "rctrl"}
AltKeys == {"lalt", "ralt"}

CtrlNames == {"KEY_CTRL"}
AltNames == {"KEY_ALT"}

\* The left shift's code means nothing after a prefix; those of Ctrl and Alt
\* mean the same with it and without.
LEMMA ModifierMeaning ==
    ASSUME NEW b \in Byte
    PROVE  /\ Meaning(b) \in ShiftNames <=> b.code \in {"x2A", "x36"} /\ ~b.prefixed
           /\ Meaning(b) \in CtrlNames <=> b.code = "x1D"
           /\ Meaning(b) \in AltNames <=> b.code = "x38"
<1>1. b.code \in CodeNames /\ b.prefixed \in BOOLEAN
  BY DEF Byte
<1>2. CASE b.prefixed
  BY <1>1, <1>2 DEF CodeNames, Meaning, Entry, extended_scancode_map,
                    ShiftNames, CtrlNames, AltNames
<1>3. CASE ~b.prefixed
  <2>1. Meaning(b) = IF b.code = "xE0" THEN "KEY_UNKNOWN" ELSE Entry(scancode_map, b.code)
    BY <1>3 DEF Meaning
  <2>2. /\ scancode_map["x2A"] = "KEY_LSHIFT" /\ scancode_map["x36"] = "KEY_RSHIFT"
        /\ scancode_map["x1D"] = "KEY_CTRL" /\ scancode_map["x38"] = "KEY_ALT"
        /\ scancode_map["x3A"] = "KEY_CAPS" /\ scancode_map["x0E"] = "KEY_BACKSPACE"
        /\ scancode_map["x1C"] = "KEY_ENTER" /\ scancode_map["x4B"] = "KEY_LEFT"
        /\ scancode_map["x4D"] = "KEY_RIGHT" /\ scancode_map["x47"] = "KEY_HOME"
    BY DEF scancode_map
  <2>3. /\ scancode_map["x37"] = "*" /\ scancode_map["x1E"] = "a"
        /\ scancode_map["x2E"] = "c" /\ scancode_map["x26"] = "l"
        /\ scancode_map["x35"] = "/" /\ scancode_map["x39"] = " "
    BY DEF scancode_map
  <2>4. DOMAIN scancode_map = CodeNames \ {"xE0", "x5B"}
    BY DEF scancode_map, CodeNames
  <2>5. Entry(scancode_map, b.code) =
            IF b.code \in CodeNames \ {"xE0", "x5B"} THEN scancode_map[b.code]
            ELSE "KEY_UNKNOWN"
    BY <2>4 DEF Entry
  <2>6. CASE b.code \in {"x2A", "x36", "x1D", "x38"}
    BY <1>3, <2>1, <2>2, <2>5, <2>6 DEF ShiftNames, CtrlNames, AltNames, CodeNames
  <2>7. CASE b.code \in {"x3A", "x0E", "x1C", "x4B", "x4D", "x47"}
    BY <1>3, <2>1, <2>2, <2>5, <2>7 DEF ShiftNames, CtrlNames, AltNames, CodeNames
  <2>8. CASE b.code \in {"x37", "x1E", "x2E", "x26", "x35", "x39"}
    BY <1>3, <2>1, <2>3, <2>5, <2>8 DEF ShiftNames, CtrlNames, AltNames, CodeNames
  <2>9. CASE b.code \in {"xE0", "x5B"}
    BY <1>3, <2>1, <2>5, <2>9 DEF ShiftNames, CtrlNames, AltNames
  <2> QED  BY <1>1, <2>6, <2>7, <2>8, <2>9 DEF CodeNames
<1> QED  BY <1>2, <1>3

\* a belongs to k alone, as far as modifiers go.
Own(k, a) ==
    /\ a \in {"x2A", "x36"} <=> k \in ShiftKeys
    /\ a = "x1D" <=> k \in CtrlKeys
    /\ a = "x38" <=> k \in AltKeys

LEMMA OwnCodes ==
    ASSUME NEW k \in DOMAIN Codes, k # "prtsc"
    PROVE  \E a \in CodeNames \ {"xE0"} :
              /\ Own(k, a)
              /\ Codes[k] = <<a>> \/ (Codes[k] = <<"xE0", a>> /\ k \notin ShiftKeys)
<1>1. \/ k \in {"caps", "backspace", "enter", "kp_4", "a", "c", "l", "slash", "space"}
      \/ k \in {"kp_enter", "left", "right", "home", "lwin", "kp_slash"}
      \/ k \in ShiftKeys \/ k \in CtrlKeys \/ k \in AltKeys
  BY DEF Codes, ShiftKeys, CtrlKeys, AltKeys
<1>2. CASE k \in {"caps", "backspace", "enter", "kp_4", "a", "c", "l", "slash", "space"}
  <2>1. \E a \in {"x3A", "x0E", "x1C", "x4B", "x1E", "x2E", "x26", "x35", "x39"} :
            Codes[k] = <<a>>
    BY <1>2 DEF Codes
  <2>2. \A a \in {"x3A", "x0E", "x1C", "x4B", "x1E", "x2E", "x26", "x35", "x39"} :
            a \in CodeNames \ {"xE0"} /\ Own(k, a)
    BY <1>2 DEF CodeNames, Own, ShiftKeys, CtrlKeys, AltKeys
  <2> QED  BY <2>1, <2>2
<1>3. CASE k \in {"kp_enter", "left", "right", "home", "lwin", "kp_slash"}
  <2>1. \E a \in {"x1C", "x4B", "x4D", "x47", "x5B", "x35"} : Codes[k] = <<"xE0", a>>
    BY <1>3 DEF Codes
  <2>2. \A a \in {"x1C", "x4B", "x4D", "x47", "x5B", "x35"} :
            a \in CodeNames \ {"xE0"} /\ Own(k, a) /\ k \notin ShiftKeys
    BY <1>3 DEF CodeNames, Own, ShiftKeys, CtrlKeys, AltKeys
  <2> QED  BY <2>1, <2>2
<1>4. CASE k \in ShiftKeys
  <2>1. \E a \in {"x2A", "x36"} : Codes[k] = <<a>>
    BY <1>4 DEF Codes, ShiftKeys
  <2>2. \A a \in {"x2A", "x36"} : a \in CodeNames \ {"xE0"} /\ Own(k, a)
    BY <1>4 DEF CodeNames, Own, ShiftKeys, CtrlKeys, AltKeys
  <2> QED  BY <2>1, <2>2
<1>5. CASE k \in CtrlKeys
  <2>1. Codes[k] = <<"x1D">> \/ Codes[k] = <<"xE0", "x1D">>
    BY <1>5 DEF Codes, CtrlKeys
  <2>2. "x1D" \in CodeNames \ {"xE0"} /\ Own(k, "x1D") /\ k \notin ShiftKeys
    BY <1>5 DEF CodeNames, Own, ShiftKeys, CtrlKeys, AltKeys
  <2> QED  BY <2>1, <2>2
<1>6. CASE k \in AltKeys
  <2>1. Codes[k] = <<"x38">> \/ Codes[k] = <<"xE0", "x38">>
    BY <1>6 DEF Codes, AltKeys
  <2>2. "x38" \in CodeNames \ {"xE0"} /\ Own(k, "x38") /\ k \notin ShiftKeys
    BY <1>6 DEF CodeNames, Own, ShiftKeys, CtrlKeys, AltKeys
  <2> QED  BY <2>1, <2>2
<1> QED  BY <1>1, <1>2, <1>3, <1>4, <1>5, <1>6

\* names are what the keys of group mean, and only they.
Group(names, group) ==
    \A k \in Keys, make \in BOOLEAN :
        LET w == Bytes(k, make)
        IN  IF k \in group THEN Meaning(w[Len(w)]) \in names /\ w[Len(w)].make = make
            ELSE \A i \in 1..Len(w) : Meaning(w[i]) \notin names

\* The bytes of an event, one for each code.
LEMMA EventBytes ==
    ASSUME NEW codes \in Seq(CodeNames), NEW make \in BOOLEAN, NEW w,
           w = [i \in 1..Len(codes) |->
                  [code |-> codes[i], make |-> make,
                   prefixed |-> i > 1 /\ codes[i - 1] = "xE0"]]
    PROVE  /\ Len(w) = Len(codes)
           /\ \A i \in 1..Len(codes) :
                 /\ w[i] \in Byte
                 /\ w[i].code = codes[i]
                 /\ w[i].make = make
                 /\ w[i].prefixed = (i > 1 /\ codes[i - 1] = "xE0")
<1> DEFINE n == Len(codes)
<1>1. n \in Nat /\ \A i \in 1..n : codes[i] \in CodeNames
  OBVIOUS
<1> HIDE DEF n
<1>2. w = [i \in 1..n |-> [code |-> codes[i], make |-> make,
                          prefixed |-> i > 1 /\ codes[i - 1] = "xE0"]]
  BY DEF n
<1>3. \A i \in 1..n : /\ w[i] \in Byte
                      /\ w[i].code = codes[i]
                      /\ w[i].make = make
                      /\ w[i].prefixed = (i > 1 /\ codes[i - 1] = "xE0")
  BY <1>1, <1>2 DEF Byte
<1>4. w \in [1..n -> Byte]
  BY <1>2, <1>3
<1>5. Len(w) = n
  <2> QED  BY <1>1, <1>4
<1> QED  BY <1>3, <1>5 DEF n

LEMMA ModifierGroups ==
    Group(ShiftNames, ShiftKeys) /\ Group(CtrlNames, CtrlKeys) /\ Group(AltNames, AltKeys)
<1> DEFINE Fits(i, k, make, w) ==
             /\ i = Len(w) => w[i].make = make
             /\ IF k \in ShiftKeys THEN i = Len(w) => Meaning(w[i]) \in ShiftNames
                ELSE Meaning(w[i]) \notin ShiftNames
             /\ IF k \in CtrlKeys THEN i = Len(w) => Meaning(w[i]) \in CtrlNames
                ELSE Meaning(w[i]) \notin CtrlNames
             /\ IF k \in AltKeys THEN i = Len(w) => Meaning(w[i]) \in AltNames
                ELSE Meaning(w[i]) \notin AltNames
<1>1. SUFFICES
        ASSUME NEW k \in Keys, NEW make \in BOOLEAN, NEW w, w = Bytes(k, make)
        PROVE  \A i \in 1..Len(w) : Fits(i, k, make, w)
  <2>1. ASSUME NEW k \in Keys, NEW make \in BOOLEAN
        PROVE  /\ Len(Bytes(k, make)) \in 1..Len(Bytes(k, make))
               /\ \A i \in 1..Len(Bytes(k, make)) : Fits(i, k, make, Bytes(k, make))
    <3>1. Len(Bytes(k, make)) \in 1..Len(Bytes(k, make))
      <4>1. Bytes(k, make) \in Seq(Byte) /\ Bytes(k, make) # <<>>
        BY BytesStream DEF Stream
      <4> QED  BY <4>1
    <3>2. \A i \in 1..Len(Bytes(k, make)) : Fits(i, k, make, Bytes(k, make))
      BY <1>1
    <3> QED  BY <3>1, <3>2
  <2>2. Group(ShiftNames, ShiftKeys)
    BY <2>1 DEF Group
  <2>3. Group(CtrlNames, CtrlKeys)
    BY <2>1 DEF Group
  <2>4. Group(AltNames, AltKeys)
    BY <2>1 DEF Group
  <2> QED  BY <2>2, <2>3, <2>4
<1>2. k \in DOMAIN Codes
  BY KeyboardAssumption
<1>3. CASE k # "prtsc"
  <2>1. PICK a \in CodeNames \ {"xE0"} :
              /\ Own(k, a)
              /\ Codes[k] = <<a>> \/ (Codes[k] = <<"xE0", a>> /\ k \notin ShiftKeys)
    BY <1>2, <1>3, OwnCodes
  <2>2. Complete(Codes[k])
    BY <1>2, CodesComplete
  <2>3. w = [i \in 1..Len(Codes[k]) |->
               [code |-> Codes[k][i], make |-> make,
                prefixed |-> i > 1 /\ Codes[k][i - 1] = "xE0"]]
    BY <1>1, <1>3 DEF Bytes
  <2>4. /\ Len(w) = Len(Codes[k])
        /\ \A i \in 1..Len(Codes[k]) :
              /\ w[i] \in Byte
              /\ w[i].code = Codes[k][i]
              /\ w[i].make = make
              /\ w[i].prefixed = (i > 1 /\ Codes[k][i - 1] = "xE0")
    BY <2>2, <2>3, EventBytes DEF Complete
  <2>5. CASE Codes[k] = <<a>>
    <3>1. Len(Codes[k]) = 1 /\ Codes[k][1] = a /\ 1..1 = {1} /\ ~(1 > 1)
      BY <2>5
    <3>2. /\ w[1] \in Byte /\ w[1].code = a
          /\ w[1].make = make /\ w[1].prefixed = FALSE
      BY <2>4, <3>1
    <3>3. Fits(1, k, make, w)
      BY <2>1, <3>2, ModifierMeaning DEF Own
    <3> QED  BY <2>4, <3>1, <3>3
  <2>6. CASE Codes[k] = <<"xE0", a>> /\ k \notin ShiftKeys
    <3>1. /\ Len(Codes[k]) = 2 /\ Codes[k][1] = "xE0" /\ Codes[k][2] = a
          /\ 1..2 = {1, 2} /\ 2 > 1 /\ 2 - 1 = 1
      BY <2>6
    <3>2. /\ w[1] \in Byte /\ w[2] \in Byte
          /\ w[1].code = "xE0" /\ w[2].code = a
          /\ w[2].make = make /\ w[2].prefixed = TRUE
      BY <2>4, <3>1
    <3>3. Len(w) = 2
      BY <2>4, <3>1
    <3>4. Fits(1, k, make, w)
      <4>1. Meaning(w[1]) \notin ShiftNames /\ Meaning(w[1]) \notin CtrlNames /\ Meaning(w[1]) \notin AltNames
        BY <3>2, ModifierMeaning
      <4> QED  BY <3>3, <4>1
    <3>5. Fits(2, k, make, w)
      BY <2>1, <2>6, <3>2, ModifierMeaning DEF Own
    <3> QED  BY <3>1, <3>3, <3>4, <3>5
  <2> QED  BY <2>1, <2>5, <2>6
<1>4. CASE k = "prtsc"
  <2>1. PICK a \in {"x2A", "x37"}, b \in {"x2A", "x37"} :
           /\ Complete(<<"xE0", a, "xE0", b>>)
           /\ w = [i \in 1..Len(<<"xE0", a, "xE0", b>>) |->
                     [code |-> <<"xE0", a, "xE0", b>>[i], make |-> make,
                      prefixed |-> i > 1 /\ <<"xE0", a, "xE0", b>>[i - 1] = "xE0"]]
    <3>1. CASE make
      <4>1. w = [i \in 1..Len(<<"xE0", "x2A", "xE0", "x37">>) |->
                   [code |-> <<"xE0", "x2A", "xE0", "x37">>[i], make |-> make,
                    prefixed |-> i > 1 /\ <<"xE0", "x2A", "xE0", "x37">>[i - 1] = "xE0"]]
        BY <1>1, <1>4, <3>1 DEF Bytes, Codes
      <4> QED  BY <4>1, CompleteScreen
    <3>2. CASE ~make
      <4>1. w = [i \in 1..Len(<<"xE0", "x37", "xE0", "x2A">>) |->
                   [code |-> <<"xE0", "x37", "xE0", "x2A">>[i], make |-> make,
                    prefixed |-> i > 1 /\ <<"xE0", "x37", "xE0", "x2A">>[i - 1] = "xE0"]]
        BY <1>1, <1>4, <3>2 DEF Bytes
      <4> QED  BY <4>1, CompleteScreen
    <3> QED  BY <3>1, <3>2
  <2> DEFINE s == <<"xE0", a, "xE0", b>>
  <2>2. /\ Len(s) = 4 /\ s[1] = "xE0" /\ s[2] = a /\ s[3] = "xE0" /\ s[4] = b
        /\ 1..4 = {1, 2, 3, 4} /\ 2 - 1 = 1 /\ 4 - 1 = 3 /\ 2 > 1 /\ 4 > 1
    OBVIOUS
  <2>3. /\ Complete(s)
        /\ w = [i \in 1..Len(s) |-> [code |-> s[i], make |-> make,
                                     prefixed |-> i > 1 /\ s[i - 1] = "xE0"]]
    BY <2>1
  <2> HIDE DEF s
  <2>4. /\ Len(w) = Len(s)
        /\ \A i \in 1..Len(s) :
              /\ w[i] \in Byte /\ w[i].code = s[i] /\ w[i].make = make
              /\ w[i].prefixed = (i > 1 /\ s[i - 1] = "xE0")
    BY <2>3, EventBytes DEF Complete
  <2>5. \A i \in 1..4 : /\ w[i] \in Byte /\ w[i].make = make
                        /\ \/ w[i].code = "xE0"
                           \/ w[i].code \in {"x2A", "x37"} /\ w[i].prefixed = TRUE
    <3>1. \A i \in 1..4 : w[i] \in Byte /\ w[i].make = make
      BY <2>2, <2>4
    <3>2. w[1].code = "xE0" /\ w[3].code = "xE0"
      BY <2>2, <2>4
    <3>3. w[2].code = a /\ w[2].prefixed = TRUE
      BY <2>2, <2>4
    <3>4. w[4].code = b /\ w[4].prefixed = TRUE
      <4>1. 4 \in 1..Len(s)
        BY <2>2
      <4>2. w[4].code = s[4] /\ w[4].prefixed = (4 > 1 /\ s[4 - 1] = "xE0")
        BY <2>4, <4>1
      <4>3. s[4 - 1] = "xE0" /\ 4 > 1
        BY <2>2
      <4> QED  BY <2>2, <4>2, <4>3
    <3> DEFINE P(i) == \/ w[i].code = "xE0"
                       \/ w[i].code \in {"x2A", "x37"} /\ w[i].prefixed = TRUE
    <3>5. P(1) /\ P(2) /\ P(3) /\ P(4)
      BY <3>2, <3>3, <3>4
    <3> HIDE DEF P
    <3>6. \A i \in {1, 2, 3, 4} : P(i)
      BY <3>5
    <3>7. \A i \in 1..4 : P(i)
      BY <2>2, <3>6
    <3> QED  BY <3>1, <3>7 DEF P
  <2>6. k \notin ShiftKeys /\ k \notin CtrlKeys /\ k \notin AltKeys
    BY <1>4 DEF ShiftKeys, CtrlKeys, AltKeys
  <2>7. \A i \in 1..4 : Fits(i, k, make, w)
    BY <2>5, <2>6, ModifierMeaning
  <2> QED  BY <2>2, <2>4, <2>7
<1> QED  BY <1>3, <1>4

----------------------------------------------------------------------------
(* No modifier is stuck.                                                   *)

\* Shift, but for the fake shift that init_keyboard has let through.
TrueShift == IF cut = "shift" THEN FALSE ELSE shift_pressed

ModifierInv ==
    /\ PrefixInv
    /\ Settles(TrueShift, wire, ShiftNames, down \cap ShiftKeys # {})
    /\ Settles(ctrl_pressed, wire, CtrlNames, down \cap CtrlKeys # {})
    /\ Settles(alt_pressed, wire, AltNames, down \cap AltKeys # {})

\* A flag that is off settles too.
LEMMA SettlesOff ==
    ASSUME NEW flag, NEW w, NEW names, NEW held, Settles(flag, w, names, held)
    PROVE  Settles(FALSE, w, names, held)
BY DEF Settles

LEMMA SettlesEmpty ==
    ASSUME NEW names, NEW held
    PROVE  Settles(FALSE, <<>>, names, held)
<1>1. Len(<<>>) = 0 /\ 1..0 = {}
  BY EmptySeq
<1> QED  BY <1>1 DEF Settles

\* With nothing left to handle, a flag that is on is that of a key held.
LEMMA SettlesDone ==
    ASSUME NEW flag, NEW names, NEW held, Settles(flag, <<>>, names, held), flag
    PROVE  held
<1>1. Len(<<>>) = 0 /\ 1..0 = {}
  BY EmptySeq
<1> QED  BY <1>1 DEF Settles

LEMMA SettlesPress ==
    ASSUME NEW k \in Keys, NEW names, NEW group, Group(names, group), PrefixInv, NEW flag,
           Settles(flag, wire, names, down \cap group # {})
    PROVE  Settles(flag, wire \o Bytes(k, TRUE), names, (down \cup {k}) \cap group # {})
<1>1. wire \in Seq(Byte) /\ Bytes(k, TRUE) \in Seq(Byte)
  BY BytesStream DEF PrefixInv, Stream
<1>2. CASE k \in group
  <2>1. (down \cup {k}) \cap group # {}
    BY <1>2
  <2> QED  BY <2>1 DEF Settles
<1>3. CASE k \notin group
  <2>1. \A i \in 1..Len(Bytes(k, TRUE)) : Meaning(Bytes(k, TRUE)[i]) \notin names
    BY <1>3 DEF Group
  <2>2. (down \cup {k}) \cap group = down \cap group
    BY <1>3
  <2>3. Settles(flag, wire \o Bytes(k, TRUE), names, down \cap group # {})
    BY <1>1, <2>1, SettlesOther
  <2> QED  BY <2>2, <2>3
<1> QED  BY <1>2, <1>3

LEMMA SettlesRelease ==
    ASSUME NEW k \in Keys, NEW names, NEW group, Group(names, group), PrefixInv, NEW flag,
           Settles(flag, wire, names, down \cap group # {})
    PROVE  Settles(flag, wire \o Bytes(k, FALSE), names, (down \ {k}) \cap group # {})
<1>1. wire \in Seq(Byte) /\ Bytes(k, FALSE) \in Seq(Byte) /\ Bytes(k, FALSE) # <<>>
  BY BytesStream DEF PrefixInv, Stream
<1> DEFINE v == Bytes(k, FALSE)
<1>2. CASE k \in group
  <2>1. Meaning(v[Len(v)]) \in names /\ v[Len(v)].make = FALSE
    BY <1>2 DEF Group
  <2> QED  BY <1>1, <2>1, SettlesReleased
<1>3. CASE k \notin group
  <2>1. \A i \in 1..Len(v) : Meaning(v[i]) \notin names
    BY <1>3 DEF Group
  <2>2. (down \ {k}) \cap group = down \cap group
    BY <1>3
  <2>3. Settles(flag, wire \o v, names, down \cap group # {})
    BY <1>1, <2>1, SettlesOther
  <2> QED  BY <2>2, <2>3
<1> QED  BY <1>2, <1>3

\* The rest of an event that init_keyboard came into.
LEMMA SettlesCut ==
    ASSUME NEW k \in Keys, NEW make \in BOOLEAN, NEW held,
           NEW names, NEW group, Group(names, group), k \in group /\ make => held,
           NEW n \in 1..(Len(Bytes(k, make)) + 1),
           NEW s, s = SubSeq(Bytes(k, make), n, Len(Bytes(k, make)))
    PROVE  Settles(FALSE, s, names, held)
<1> DEFINE v == Bytes(k, make)
<1>1. Stream(v)
  BY BytesStream
<1>2. IF k \in group THEN Meaning(v[Len(v)]) \in names /\ v[Len(v)].make = make
      ELSE \A i \in 1..Len(v) : Meaning(v[i]) \notin names
  BY DEF Group
<1> HIDE DEF v
<1>3. /\ s \in Seq(Byte) /\ Len(v) \in Nat /\ Len(s) = Len(v) - n + 1
      /\ \A i \in 1..Len(s) : n + i - 1 \in 1..Len(v) /\ s[i] = v[n + i - 1]
  <2>1. n \in 1..(Len(v) + 1) /\ s = SubSeq(v, n, Len(v))
    BY DEF v
  <2> QED  BY <1>1, <2>1, Suffix
<1>4. n \in 1..(Len(v) + 1)
  BY DEF v
<1>5. CASE k \in group /\ make
  BY <1>5 DEF Settles
<1>6. CASE k \in group /\ ~make /\ s # <<>>
  <2>1. /\ Len(s) \in 1..Len(s) /\ n + Len(s) - 1 = Len(v)
        /\ (Len(s) + 1)..Len(s) = {}
    BY <1>3, <1>4, <1>6
  <2>2. s[Len(s)] = v[Len(v)]
    BY <1>3, <2>1
  <2>3. Meaning(s[Len(s)]) \in names /\ s[Len(s)].make = FALSE
    BY <1>2, <1>6, <2>2
  <2> QED  BY <2>1, <2>3 DEF Settles
<1>7. CASE s = <<>>
  BY <1>7, SettlesEmpty
<1>8. CASE k \notin group
  <2>1. \A i \in 1..Len(s) : Meaning(s[i]) \notin names
    BY <1>2, <1>3, <1>8
  <2> QED  BY <2>1 DEF Settles
<1> QED  BY <1>5, <1>6, <1>7, <1>8

LEMMA ModifierInit == Init => ModifierInv
<1> SUFFICES ASSUME Init PROVE ModifierInv
  OBVIOUS
<1>1. PICK k \in Keys, make \in BOOLEAN :
          /\ (k \in down) = make
          /\ \E n \in 1..(Len(Bytes(k, make)) + 1) :
                wire = SubSeq(Bytes(k, make), n, Len(Bytes(k, make)))
  BY DEF Init
<1>2. ASSUME NEW names, NEW group, Group(names, group)
      PROVE  Settles(FALSE, wire, names, down \cap group # {})
  <2>1. k \in group /\ make => down \cap group # {}
    BY <1>1
  <2> QED  BY <1>1, <1>2, <2>1, SettlesCut
<1>3. TrueShift = FALSE /\ ctrl_pressed = FALSE /\ alt_pressed = FALSE
  BY DEF Init, TrueShift
<1> QED  BY <1>2, <1>3, PrefixInit, ModifierGroups DEF ModifierInv

\* A byte that has lost its prefix may turn into a Shift key, but Ctrl and Alt
\* mean the same without it.
LEMMA HandlerMeaning ==
    ASSUME PrefixInv, wire # <<>>, wire[1] \in Byte
    PROVE  /\ Decoded(wire[1]) \in CtrlNames <=> Meaning(wire[1]) \in CtrlNames
           /\ Decoded(wire[1]) \in AltNames <=> Meaning(wire[1]) \in AltNames
           /\ cut # "prefix" => Decoded(wire[1]) = Meaning(wire[1])
           /\ cut = "prefix" => Meaning(wire[1]) \notin ShiftNames
<1> DEFINE b == wire[1]
           plain == [code |-> b.code, make |-> b.make, prefixed |-> FALSE]
<1>1. b \in Byte /\ plain \in Byte /\ plain.code = b.code /\ plain.prefixed = FALSE
  BY DEF Byte
<1> HIDE DEF b, plain
<1>2. CASE cut # "prefix"
  <2>1. extended_scancode = b.prefixed
    <3>1. b.prefixed \in BOOLEAN
      BY <1>1 DEF Byte
    <3> QED  BY <1>2, <3>1 DEF PrefixInv, b
  <2>2. Decoded(b) = Meaning(b)
    BY <2>1 DEF Decoded, Meaning
  <2> QED  BY <1>2, <2>2 DEF b
<1>3. CASE cut = "prefix"
  <2>1. extended_scancode = FALSE /\ b.prefixed = TRUE
    BY <1>3 DEF PrefixInv, b
  <2>2. Decoded(b) = Meaning(plain)
    BY <1>1, <2>1 DEF Decoded, Meaning
  <2>3. /\ Decoded(b) \in CtrlNames <=> Meaning(b) \in CtrlNames
        /\ Decoded(b) \in AltNames <=> Meaning(b) \in AltNames
        /\ Meaning(b) \notin ShiftNames
    BY <1>1, <2>1, <2>2, ModifierMeaning
  <2> QED  BY <1>3, <2>3 DEF b
<1> QED  BY <1>2, <1>3

LEMMA ModifierStep == ModifierInv /\ [Next]_vars => ModifierInv'
<1> SUFFICES ASSUME ModifierInv, [Next]_vars PROVE ModifierInv'
  OBVIOUS
<1>0. PrefixInv /\ PrefixInv'
  BY PrefixStep DEF ModifierInv
<1>1. ASSUME NEW k \in Keys, Press(k) PROVE ModifierInv'
  <2>1. /\ down' = down \cup {k} /\ wire' = wire \o Bytes(k, TRUE)
        /\ TrueShift' = TrueShift /\ ctrl_pressed' = ctrl_pressed
        /\ alt_pressed' = alt_pressed
    BY <1>1 DEF Press, flagVars, TrueShift
  <2>2. Settles(TrueShift', wire', ShiftNames, down' \cap ShiftKeys # {})
    BY <1>0, <2>1, SettlesPress, ModifierGroups DEF ModifierInv
  <2>3. Settles(ctrl_pressed', wire', CtrlNames, down' \cap CtrlKeys # {})
    BY <1>0, <2>1, SettlesPress, ModifierGroups DEF ModifierInv
  <2>4. Settles(alt_pressed', wire', AltNames, down' \cap AltKeys # {})
    BY <1>0, <2>1, SettlesPress, ModifierGroups DEF ModifierInv
  <2> QED  BY <1>0, <2>2, <2>3, <2>4 DEF ModifierInv, Settles
<1>2. ASSUME NEW k \in Keys, Release(k) PROVE ModifierInv'
  <2>1. /\ down' = down \ {k} /\ wire' = wire \o Bytes(k, FALSE)
        /\ TrueShift' = TrueShift /\ ctrl_pressed' = ctrl_pressed
        /\ alt_pressed' = alt_pressed
    BY <1>2 DEF Release, flagVars, TrueShift
  <2>2. Settles(TrueShift', wire', ShiftNames, down' \cap ShiftKeys # {})
    BY <1>0, <2>1, SettlesRelease, ModifierGroups DEF ModifierInv
  <2>3. Settles(ctrl_pressed', wire', CtrlNames, down' \cap CtrlKeys # {})
    BY <1>0, <2>1, SettlesRelease, ModifierGroups DEF ModifierInv
  <2>4. Settles(alt_pressed', wire', AltNames, down' \cap AltKeys # {})
    BY <1>0, <2>1, SettlesRelease, ModifierGroups DEF ModifierInv
  <2> QED  BY <1>0, <2>2, <2>3, <2>4 DEF ModifierInv, Settles
<1>3. CASE keyboard_handler
  <2>1. wire \in Seq(Byte) /\ wire # <<>> /\ wire' = Tail(wire) /\ down' = down
    BY <1>0, <1>3 DEF keyboard_handler, PrefixInv, Stream
  <2>2. /\ Head(wire) = wire[1] /\ wire[1] \in Byte
        /\ wire[1].make \in BOOLEAN /\ wire[1].prefixed \in BOOLEAN
    <3>1. Head(wire) = wire[1] /\ wire[1] \in Byte
      BY <2>1
    <3> QED  BY <3>1 DEF Byte
  <2> DEFINE key == Decoded(wire[1])
             make == wire[1].make
  <2>3. /\ IF key \in Modifiers THEN handle_modifier_key(key, make) ELSE UNCHANGED flagVars
        /\ cut' = CutAfter(key, make)
    BY <1>3, <2>2 DEF keyboard_handler
  <2>4. /\ shift_pressed' = IF key \in ShiftNames THEN make ELSE shift_pressed
        /\ ctrl_pressed' = IF key \in CtrlNames THEN make ELSE ctrl_pressed
        /\ alt_pressed' = IF key \in AltNames THEN make ELSE alt_pressed
    BY <2>3 DEF handle_modifier_key, flagVars, Modifiers, ShiftNames, CtrlNames, AltNames
  <2>5. /\ key \in CtrlNames <=> Meaning(wire[1]) \in CtrlNames
        /\ key \in AltNames <=> Meaning(wire[1]) \in AltNames
        /\ cut # "prefix" => key = Meaning(wire[1])
        /\ cut = "prefix" => Meaning(wire[1]) \notin ShiftNames
    BY <1>0, <2>1, <2>2, HandlerMeaning
  <2> HIDE DEF key, make
  <2>6. Settles(TrueShift', wire', ShiftNames, down' \cap ShiftKeys # {})
    <3>1. CASE cut # "prefix"
      <4>1. TrueShift' = IF key \in ShiftNames THEN make ELSE TrueShift
        BY <1>0, <2>3, <2>4, <3>1 DEF TrueShift, CutAfter, PrefixInv
      <4> QED  BY <2>1, <2>5, <3>1, <4>1, SettlesHandled DEF ModifierInv, make
    <3>2. CASE cut = "prefix" /\ key \in ShiftNames
      <4>1. TrueShift' = FALSE
        <5>1. CASE make
          BY <2>3, <3>2, <5>1 DEF TrueShift, CutAfter
        <5>2. CASE ~make
          <6>1. make = FALSE
            BY <2>2, <5>2 DEF make
          <6> QED  BY <2>4, <3>2, <6>1 DEF TrueShift
        <5> QED  BY <5>1, <5>2
      <4>2. Settles(FALSE, wire, ShiftNames, down \cap ShiftKeys # {})
        BY SettlesOff DEF ModifierInv
      <4> QED  BY <2>1, <2>5, <3>2, <4>1, <4>2, SettlesHandled
    <3>3. CASE cut = "prefix" /\ key \notin ShiftNames
      <4>1. TrueShift' = TrueShift
        BY <2>3, <2>4, <3>3 DEF TrueShift, CutAfter
      <4> QED  BY <2>1, <2>5, <3>3, <4>1, SettlesHandled DEF ModifierInv
    <3> QED  BY <3>1, <3>2, <3>3
  <2>7. Settles(ctrl_pressed', wire', CtrlNames, down' \cap CtrlKeys # {})
    BY <2>1, <2>4, <2>5, SettlesHandled DEF ModifierInv, make
  <2>8. Settles(alt_pressed', wire', AltNames, down' \cap AltKeys # {})
    BY <2>1, <2>4, <2>5, SettlesHandled DEF ModifierInv, make
  <2> QED  BY <1>0, <2>6, <2>7, <2>8 DEF ModifierInv, Settles
<1>4. CASE UNCHANGED vars
  <2>1. /\ wire' = wire /\ down' = down /\ TrueShift' = TrueShift
        /\ ctrl_pressed' = ctrl_pressed /\ alt_pressed' = alt_pressed
    BY <1>4 DEF vars, flagVars, keyVars, TrueShift
  <2> QED  BY <1>0, <2>1 DEF ModifierInv, Settles
<1> QED  BY <1>1, <1>2, <1>3, <1>4 DEF Next

\* Whatever keys are held together, repeat and are let go in whatever order, and
\* however many of their bytes are waiting: once all are handled no modifier is
\* on but those of keys held down, and Shift when init_keyboard has let a fake
\* shift through.
THEOREM KeyboardNoStuckModifier == Spec => []NoStuckModifier
<1>1. ModifierInv => NoStuckModifier
  <2>1. SUFFICES ASSUME ModifierInv, wire = <<>>
                 PROVE  /\ shift_pressed => down \cap ShiftKeys # {} \/ cut = "shift"
                        /\ ctrl_pressed => down \cap CtrlKeys # {}
                        /\ alt_pressed => down \cap AltKeys # {}
    BY DEF NoStuckModifier, ShiftKeys, CtrlKeys, AltKeys
  <2>2. TrueShift => down \cap ShiftKeys # {}
    BY <2>1, SettlesDone DEF ModifierInv
  <2>3. shift_pressed => down \cap ShiftKeys # {} \/ cut = "shift"
    BY <2>2 DEF TrueShift
  <2> QED  BY <2>1, <2>3, SettlesDone DEF ModifierInv
<1>2. Spec => []ModifierInv
  BY ModifierInit, ModifierStep, PTL DEF Spec
<1> QED  BY <1>1, <1>2, PTL

=============================================================================
