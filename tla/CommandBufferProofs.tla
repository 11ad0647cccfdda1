----------------------- MODULE CommandBufferProofs -----------------------
(***************************************************************************)
(* Proofs about CommandBuffer, for any size of the buffer, any bytes but   *)
(* NUL and any remains in the buffer.                                      *)
(***************************************************************************)
EXTENDS CommandBuffer, Induction, SequenceTheorems, TLAPS

\* The network brings what clients send, and len is set when a command is
\* being executed; what recv() and memmove() are asked for depends on both.
Inv ==
  /\ BufferInBounds
  /\ net \in Seq(Bytes)
  /\ len \in Nat

-----------------------------------------------------------------------------

LEMMA InitInv == Init => Inv
  BY BufferAssumption DEF Init, Inv, BufferInBounds

\* recv() is offered what is free, and a full buffer ends the session: if it
\* does not, there is room for another byte.
LEMMA ReadInv == Inv /\ read_cmd => Inv'
<1> SUFFICES ASSUME Inv, read_cmd PROVE Inv'
  OBVIOUS
<1>1. PICK n \in 1..Len(net) :
        /\ n <= line_len - dirty_len
        /\ line' = [i \in 1..line_len |->
                      IF i \in (dirty_len + 1)..(dirty_len + n)
                      THEN net[i - dirty_len] ELSE line[i]]
        /\ dirty_len' = dirty_len + n
        /\ net' = SubSeq(net, n + 1, Len(net))
        /\ pc' = IF dirty_len' >= line_len THEN "too_long" ELSE "read"
  BY DEF read_cmd
<1>2. len' = len
  BY DEF read_cmd
<1>3. line_len \in Nat /\ dirty_len \in Nat /\ n \in Nat
  BY <1>1, BufferAssumption DEF Inv, BufferInBounds
<1>4. line' \in [1..line_len -> Bytes \cup {"NUL"}]
  <2>1. ASSUME NEW i \in 1..line_len, i \in (dirty_len + 1)..(dirty_len + n)
        PROVE  net[i - dirty_len] \in Bytes
    <3>1. i - dirty_len \in 1..Len(net)
      BY <1>1, <1>3, <2>1 DEF Inv
    <3> QED
      BY <3>1 DEF Inv
  <2> QED
    BY <1>1, <2>1 DEF Inv, BufferInBounds
<1>5. dirty_len' \in 0..line_len
  BY <1>1, <1>3
<1>6. pc' = "read" => dirty_len' < line_len
  BY <1>1, <1>3
<1>7. net' \in Seq(Bytes)
  BY <1>1, <1>3 DEF Inv
<1> QED
  BY <1>1, <1>2, <1>4, <1>5, <1>6, <1>7 DEF Inv, BufferInBounds

\* parse_cmd searches the whole buffer, remains included; but read_cmd left
\* a newline in the received bytes, and the first one is not behind it.
LEMMA ParseInv == Inv /\ parse_cmd => Inv'
<1> SUFFICES ASSUME Inv, parse_cmd PROVE Inv'
  OBVIOUS
<1>1. PICK bufend \in 1..line_len, ended \in [1..line_len -> Bytes \cup {"NUL"}] :
        /\ memchr(line_len, bufend)
        /\ len' = bufend
        /\ \/ line' = ended
           \/ \E cmdend : line' = [ended EXCEPT ![cmdend] = "NUL"]
  <2>1. PICK bufend \in 1..line_len :
          LET ended == [i \in 1..line_len |->
                          IF i = bufend \/ (i = bufend - 1 /\ line[i] = "CR")
                          THEN "NUL" ELSE line[i]]
          IN  /\ memchr(line_len, bufend)
              /\ len' = bufend
              /\ \/ line' = ended
                 \/ \E cmdend : line' = [ended EXCEPT ![cmdend] = "NUL"]
    BY DEF parse_cmd
  <2>2. [i \in 1..line_len |->
           IF i = bufend \/ (i = bufend - 1 /\ line[i] = "CR")
           THEN "NUL" ELSE line[i]] \in [1..line_len -> Bytes \cup {"NUL"}]
    BY DEF Inv, BufferInBounds
  <2> QED
    BY <2>1, <2>2
<1>2. line' \in [1..line_len -> Bytes \cup {"NUL"}]
  BY <1>1
<1>3. 0 < len' /\ len' <= dirty_len
  <2>1. PICK i \in 1..dirty_len : line[i] = "NL"
    BY DEF parse_cmd, Complete
  <2>2. ~(i < bufend)
    BY <1>1, <2>1, BufferAssumption DEF memchr, Inv, BufferInBounds
  <2> QED
    BY <1>1, <2>1, <2>2, BufferAssumption DEF Inv, BufferInBounds
<1>4. pc' = "execute" /\ UNCHANGED <<dirty_len, net, sent>>
  BY DEF parse_cmd
<1> QED
  BY <1>1, <1>2, <1>3, <1>4, BufferAssumption DEF Inv, BufferInBounds

\* remove_cmd moves bytes of the buffer only, and leaves room for recv(),
\* since a command has at least its newline.
LEMMA RemoveInv == Inv /\ remove_cmd => Inv'
<1> SUFFICES ASSUME Inv, remove_cmd PROVE Inv'
  OBVIOUS
<1>1. /\ line_len \in Nat /\ dirty_len \in 0..line_len
      /\ len \in Nat /\ 0 < len /\ len <= dirty_len
  BY BufferAssumption DEF Inv, BufferInBounds, remove_cmd
<1>2. /\ dirty_len' = dirty_len - len
      /\ pc' = "read" /\ UNCHANGED <<len, net>>
  BY <1>1 DEF remove_cmd
<1>3. line' \in [1..line_len -> Bytes \cup {"NUL"}]
  BY <1>1 DEF Inv, BufferInBounds, remove_cmd
<1> QED
  BY <1>1, <1>2, <1>3 DEF Inv, BufferInBounds

LEMMA StepInv == Inv /\ [Next]_vars => Inv'
<1> SUFFICES ASSUME Inv, [Next]_vars PROVE Inv'
  OBVIOUS
<1>1. CASE UNCHANGED vars
  BY <1>1 DEF vars, Inv, BufferInBounds
<1>2. CASE read_cmd
  BY <1>2, ReadInv
<1>3. CASE Quit
  BY <1>3 DEF Quit, Inv, BufferInBounds
<1>4. CASE parse_cmd
  BY <1>4, ParseInv
<1>5. CASE remove_cmd
  BY <1>5, RemoveInv
<1>6. CASE Leave
  BY <1>6 DEF Leave, Inv, BufferInBounds
<1>7. ASSUME NEW c \in Bytes, Send(c) PROVE Inv'
  BY <1>7 DEF Send, Inv, BufferInBounds
<1> QED
  BY <1>1, <1>2, <1>3, <1>4, <1>5, <1>6, <1>7 DEF Next

-----------------------------------------------------------------------------

\* read_cmd, parse_cmd and remove_cmd stay inside the buffer, recv() is never
\* asked for zero bytes, and the command that is executed was received, for
\* every buffer size, fragmentation and content.
THEOREM CommandBufferInBounds == Spec => []BufferInBounds
<1>1. Inv => BufferInBounds
  BY DEF Inv
<1> QED
  BY <1>1, InitInv, StepInv, PTL DEF Spec

-----------------------------------------------------------------------------
(***************************************************************************)
(* The buffer is a queue of lines                                          *)
(***************************************************************************)

Chars == Bytes \cup {"NUL"}

\* How much of the buffer belongs to the command that is being executed.
Base == IF pc \in {"execute", "left"} THEN len ELSE 0

\* What was received and not executed has been left alone by parse_cmd.
Intact ==
  /\ Base <= dirty_len
  /\ \A k \in (Base + 1)..dirty_len : line[k] \in Bytes

QInv == Inv /\ Intact

\* The bytes of the buffer l from behind the b-th to the d-th, then n, and
\* what makes sense of that.
Rest(l, b, d, n) ==
  [k \in 1..((d - b) + Len(n)) |-> IF k <= d - b THEN l[b + k] ELSE n[k - (d - b)]]

Sound(l, b, d, n) ==
  /\ d \in Nat /\ b \in 0..d /\ n \in Seq(Bytes)
  /\ \A k \in (b + 1)..d : l[k] \in Bytes

IsRest(r, l, b, d, n) ==
  /\ r \in Seq(Bytes) /\ Len(r) = (d - b) + Len(n)
  /\ \A k \in 1..(d - b) : r[k] = l[b + k]
  /\ \A k \in ((d - b) + 1)..((d - b) + Len(n)) : r[k] = n[k - (d - b)]

LEMMA RestType ==
  ASSUME NEW l, NEW b, NEW d, NEW n, Sound(l, b, d, n)
  PROVE  IsRest(Rest(l, b, d, n), l, b, d, n)
<1>0. /\ d \in Nat /\ b \in 0..d /\ n \in Seq(Bytes)
      /\ \A k \in (b + 1)..d : l[k] \in Bytes
  BY DEF Sound
<1> USE <1>0
<1> DEFINE m == (d - b) + Len(n)
<1>1. m \in Nat /\ d - b \in Nat /\ Len(n) \in Nat
  OBVIOUS
<1>2. ASSUME NEW k \in 1..m
      PROVE  (IF k <= d - b THEN l[b + k] ELSE n[k - (d - b)]) \in Bytes
  <2>1. CASE k <= d - b
    <3>1. b + k \in (b + 1)..d
      BY <2>1
    <3> QED
      BY <2>1, <3>1
  <2>2. CASE ~(k <= d - b)
    <3>1. k - (d - b) \in 1..Len(n)
      BY <1>1, <2>2
    <3> QED
      BY <2>2, <3>1
  <2> QED
    BY <2>1, <2>2
<1>3. Rest(l, b, d, n) \in [1..m -> Bytes]
  BY <1>2, Zenon DEF Rest
<1>4. Rest(l, b, d, n) \in Seq(Bytes) /\ Len(Rest(l, b, d, n)) = m
  <2> HIDE DEF m
  <2> QED
    BY <1>1, <1>3
<1> QED
  BY <1>1, <1>4, SMTT(30) DEF Rest, IsRest

\* One sequence behind another.
LEMMA Behind ==
  ASSUME NEW S, NEW s \in Seq(S), NEW n \in Seq(S), NEW m, m = Len(s)
  PROVE  /\ s \o n \in Seq(S) /\ Len(s \o n) = m + Len(n)
         /\ \A k \in 1..m : (s \o n)[k] = s[k]
         /\ \A k \in (m + 1)..(m + Len(n)) : (s \o n)[k] = n[k - m]
  OBVIOUS

\* The bytes that are not executed, one by one.
LEMMA UnexecutedBytes ==
  ASSUME NEW l \in [1..line_len -> Chars], NEW d \in 0..line_len, NEW b \in 0..d,
         NEW n \in Seq(Bytes), \A k \in (b + 1)..d : l[k] \in Bytes
  PROVE  /\ SubSeq([i \in 1..d |-> l[i]], b + 1, d) \o n = Rest(l, b, d, n)
         /\ b = 0 => [i \in 1..d |-> l[i]] \o n = Rest(l, b, d, n)
<1>1. line_len \in Nat /\ d \in Nat /\ b \in Nat /\ d - b \in Nat
  BY BufferAssumption
<1> DEFINE s == [i \in 1..d |-> l[i]]
           t == SubSeq(s, b + 1, d)
           r == Rest(l, b, d, n)
<1>2. s \in [1..d -> Chars]
  BY <1>1
<1>3. s \in Seq(Chars) /\ Len(s) = d /\ \A k \in 1..d : s[k] = l[k]
  BY <1>1, <1>2
<1> HIDE DEF s
<1>4. t \in Seq(Chars) /\ Len(t) = d - b /\ \A k \in 1..(d - b) : t[k] = l[b + k]
  <2>1. t \in Seq(Chars) /\ Len(t) = d - b /\ \A k \in 1..(d - b) : t[k] = s[b + k]
    BY <1>1, <1>3
  <2>2. ASSUME NEW k \in 1..(d - b) PROVE s[b + k] = l[b + k]
    BY <1>1, <1>3
  <2> HIDE DEF t
  <2> QED
    BY <2>1, <2>2
<1>5. /\ r \in Seq(Bytes) /\ Len(r) = (d - b) + Len(n)
      /\ \A k \in 1..(d - b) : r[k] = l[b + k]
      /\ \A k \in ((d - b) + 1)..((d - b) + Len(n)) : r[k] = n[k - (d - b)]
  <2>1. Sound(l, b, d, n)
    BY <1>1 DEF Sound
  <2>2. IsRest(r, l, b, d, n)
    BY <2>1, RestType
  <2> QED
    BY <2>2 DEF IsRest
<1>6. r \in Seq(Chars) /\ n \in Seq(Chars)
  BY <1>5 DEF Chars
<1> HIDE DEF t, r
<1>7. t \o n = r
  <2> DEFINE m == d - b
  <2>0. m = Len(t) /\ t \in Seq(Chars) /\ n \in Seq(Chars)
    BY <1>4, <1>6
  <2> HIDE DEF m
  <2>a. /\ t \o n \in Seq(Chars) /\ Len(t \o n) = m + Len(n)
        /\ \A k \in 1..m : (t \o n)[k] = t[k]
        /\ \A k \in (m + 1)..(m + Len(n)) : (t \o n)[k] = n[k - m]
    BY <2>0, Behind
  <2>1. /\ t \o n \in Seq(Chars) /\ Len(t \o n) = (d - b) + Len(n)
        /\ \A k \in 1..(d - b) : (t \o n)[k] = t[k]
        /\ \A k \in ((d - b) + 1)..((d - b) + Len(n)) : (t \o n)[k] = n[k - (d - b)]
    BY <2>a DEF m
  <2>2. \A k \in 1..Len(r) : (t \o n)[k] = r[k]
    BY <1>1, <1>4, <1>5, <2>1
  <2> QED
    BY <1>5, <1>6, <2>1, <2>2, SeqEqual
<1>8. b = 0 => s = t
  <2>1. b = 0 => \A k \in 1..d : t[k] = s[k]
    BY <1>1, <1>3, <1>4
  <2> QED
    BY <1>1, <1>3, <1>4, <2>1, SeqEqual
<1> QED
  BY <1>7, <1>8 DEF s, t, r

\* The C string that begins at the i-th byte of b, of which the e-th is the
\* first NUL.
LEMMA CStringIs ==
  ASSUME NEW b, NEW i \in 1..line_len, NEW e \in i..line_len,
         b[e] = "NUL", \A j \in i..(e - 1) : b[j] # "NUL"
  PROVE  CString(b, i) = [k \in 1..(e - i) |-> b[i + k - 1]]
<1>1. line_len \in Nat /\ i \in Nat /\ e \in Nat
  BY BufferAssumption
<1>2. e = CHOOSE k \in i..line_len : b[k] = "NUL" /\ \A j \in i..(k - 1) : b[j] # "NUL"
  <2>1. \A k \in i..line_len :
          (b[k] = "NUL" /\ \A j \in i..(k - 1) : b[j] # "NUL") <=> k = e
    BY <1>1
  <2> QED
    BY <2>1
<1> QED
  BY <1>2 DEF CString

\* parse_cmd on the buffer l, whose e-th byte is the first newline: the line
\* is ended, its first space ends the name, and the first byte behind it that
\* is not blank begins the argument.
Ended(l, e) ==
  [i \in 1..line_len |-> IF i = e \/ (i = e - 1 /\ l[i] = "CR") THEN "NUL" ELSE l[i]]
SpacesOf(t) == {i \in 1..Len(t) : t[i] = "SP"}
SolidOf(t, c) == {i \in (c + 1)..Len(t) : t[i] \notin {"SP", "CR"}}
First(S) == CHOOSE i \in S : \A j \in S : i <= j
ArgumentOf(t, c) == IF SolidOf(t, c) = {} THEN Len(t) + 1 ELSE First(SolidOf(t, c))
Split(l, c) == [l EXCEPT ![c] = "NUL"]

\* How long the line is without its end.
TextLen(l, e) == IF 1 < e /\ l[e - 1] = "CR" THEN e - 2 ELSE e - 1

\* The first n bytes of l.
Front(l, n) == [k \in 1..n |-> l[k]]

LEMMA FirstIs ==
  ASSUME NEW S, S \subseteq Nat, NEW c \in S, \A j \in S : c <= j
  PROVE  First(S) = c
<1>1. \A i \in S : (\A j \in S : i <= j) <=> i = c
  OBVIOUS
<1> QED
  BY <1>1 DEF First

LEMMA FrontType ==
  ASSUME NEW l, NEW n \in Nat, \A k \in 1..n : l[k] \in Bytes
  PROVE  /\ Front(l, n) \in Seq(Bytes) /\ Len(Front(l, n)) = n
         /\ \A k \in 1..n : Front(l, n)[k] = l[k]
<1>1. Front(l, n) \in [1..n -> Bytes]
  BY DEF Front
<1> QED
  BY <1>1 DEF Front

\* Two sequences of the same length and bytes are the same.
LEMMA SameSeq ==
  ASSUME NEW S, NEW s \in Seq(S), NEW t \in Seq(S), Len(s) = Len(t),
         \A k \in 1..Len(s) : s[k] = t[k]
  PROVE  s = t
  BY SeqEqual

\* What parse_cmd makes of the line in the buffer.
LEMMA EndedText ==
  ASSUME NEW l \in [1..line_len -> Chars], NEW e \in 1..line_len,
         \A k \in 1..e : l[k] \in Bytes
  PROVE  /\ TextLen(l, e) \in 0..(e - 1)
         /\ Ended(l, e)[TextLen(l, e) + 1] = "NUL"
         /\ \A k \in 1..TextLen(l, e) : Ended(l, e)[k] = l[k] /\ l[k] # "NUL"
         /\ CString(Ended(l, e), 1) = Front(l, TextLen(l, e))
<1>1. line_len \in Nat /\ e \in Nat /\ "NUL" \notin Bytes
  BY BufferAssumption
<1> DEFINE m == TextLen(l, e)
           b == Ended(l, e)
<1>2. m \in 0..(e - 1) /\ m \in Nat
  BY <1>1 DEF TextLen
<1>3. \A k \in 1..line_len :
        b[k] = IF k = e \/ (k = e - 1 /\ l[k] = "CR") THEN "NUL" ELSE l[k]
  BY DEF Ended
<1>4. b[m + 1] = "NUL"
  BY <1>1, <1>3 DEF TextLen
<1>5. ASSUME NEW k \in 1..m PROVE b[k] = l[k] /\ l[k] # "NUL"
  <2>1. k \in 1..line_len /\ k \in 1..e
    BY <1>1, <1>2
  <2>2. k # e /\ ~(k = e - 1 /\ l[k] = "CR")
    BY <1>1, <1>2 DEF TextLen
  <2> QED
    BY <1>1, <1>3, <2>1, <2>2
<1> HIDE DEF m, b
<1>6. CString(b, 1) = [k \in 1..((m + 1) - 1) |-> b[1 + k - 1]]
  <2>1. 1 \in 1..line_len /\ m + 1 \in 1..line_len
    BY <1>1, <1>2
  <2>2. \A j \in 1..((m + 1) - 1) : b[j] # "NUL"
    BY <1>2, <1>5
  <2> QED
    BY <1>4, <2>1, <2>2, CStringIs
<1>7. [k \in 1..((m + 1) - 1) |-> b[1 + k - 1]] = Front(l, m)
  BY <1>2, <1>5 DEF Front
<1> QED
  BY <1>2, <1>4, <1>5, <1>6, <1>7 DEF m, b

\* The queue of lines drops the same carriage return.
LEMMA TextWithoutCR ==
  ASSUME NEW l, NEW e \in Nat \ {0}, \A k \in 1..e : l[k] \in Bytes
  PROVE  Q!WithoutCR(Front(l, e - 1)) = Front(l, TextLen(l, e))
<1> DEFINE f == Front(l, e - 1)
           m == TextLen(l, e)
<1>1. f \in Seq(Bytes) /\ Len(f) = e - 1 /\ \A k \in 1..(e - 1) : f[k] = l[k]
  BY FrontType
<1>2. m \in 0..(e - 1) /\ m \in Nat
  BY DEF TextLen
<1>3. Front(l, m) \in Seq(Bytes) /\ Len(Front(l, m)) = m /\ \A k \in 1..m : Front(l, m)[k] = l[k]
  BY <1>2, FrontType
<1>4. CASE 1 < e /\ l[e - 1] = "CR"
  <2>1. m = e - 2
    BY <1>4 DEF TextLen
  <2>2. f # <<>> /\ f[Len(f)] = "CR"
    BY <1>1, <1>4
  <2>3. Q!WithoutCR(f) = SubSeq(f, 1, m)
    BY <1>1, <2>1, <2>2 DEF Q!WithoutCR
  <2> HIDE DEF f, m
  <2>4. SubSeq(f, 1, m) \in Seq(Bytes) /\ Len(SubSeq(f, 1, m)) = m
    BY <1>1, <1>2
  <2>5. \A k \in 1..m : SubSeq(f, 1, m)[k] = l[k]
    BY <1>1, <1>2
  <2>6. SubSeq(f, 1, m) = Front(l, m)
    BY <1>2, <1>3, <2>4, <2>5, SameSeq
  <2> QED
    BY <2>3, <2>6 DEF f, m
<1>5. CASE ~(1 < e /\ l[e - 1] = "CR")
  <2>1. m = e - 1
    BY <1>5 DEF TextLen
  <2>2. ~(f # <<>> /\ f[Len(f)] = "CR")
    BY <1>1, <1>5
  <2>3. Q!WithoutCR(f) = f
    BY <2>2 DEF Q!WithoutCR
  <2> QED
    BY <2>1, <2>3
<1> QED
  BY <1>4, <1>5

\* A line without a space is a name.
LEMMA ParsedName ==
  ASSUME NEW s, NEW t \in Seq(Bytes), Q!WithoutCR(s) = t, SpacesOf(t) = {}
  PROVE  Q!Parsed(s) = [name |-> t, arg |-> <<>>]
  BY DEF Q!Parsed, SpacesOf

\* A line with a space is a name and what follows the blanks behind it.
LEMMA ParsedArgument ==
  ASSUME NEW s, NEW t \in Seq(Bytes), Q!WithoutCR(s) = t,
         NEW c \in 1..Len(t), t[c] = "SP", \A j \in 1..(c - 1) : t[j] # "SP"
  PROVE  Q!Parsed(s) = [name |-> SubSeq(t, 1, c - 1),
                        arg |-> Q!Trimmed(SubSeq(t, c + 1, Len(t)))]
<1>1. c = CHOOSE k \in 1..Len(t) :
            k \in 1..Len(t) /\ t[k] = "SP" /\ \A j \in 1..(k - 1) : ~(t[j] = "SP")
  OBVIOUS
<1>2. ~(\A i \in 1..Len(t) : t[i] # "SP")
  OBVIOUS
<1> QED
  BY <1>1, <1>2 DEF Q!Parsed, Q!FirstAt

LEMMA TrimmedBlank ==
  ASSUME NEW u \in Seq(Bytes), \A k \in 1..Len(u) : u[k] \in {"SP", "CR"}
  PROVE  Q!Trimmed(u) = <<>>
  BY DEF Q!Trimmed, Q!IsBlank

LEMMA TrimmedSolid ==
  ASSUME NEW u \in Seq(Bytes), NEW a \in 1..Len(u), u[a] \notin {"SP", "CR"},
         \A k \in 1..(a - 1) : u[k] \in {"SP", "CR"}
  PROVE  Q!Trimmed(u) = SubSeq(u, a, Len(u))
<1>1. a = CHOOSE k \in 1..Len(u) :
            k \in 1..Len(u) /\ ~(u[k] \in {"SP", "CR"})
            /\ \A j \in 1..(k - 1) : ~~(u[j] \in {"SP", "CR"})
  <2>1. \A k \in 1..Len(u) :
          (k \in 1..Len(u) /\ ~(u[k] \in {"SP", "CR"})
           /\ \A j \in 1..(k - 1) : ~~(u[j] \in {"SP", "CR"})) <=> k = a
    OBVIOUS
  <2> QED
    BY <2>1
<1>2. ~(\A k \in 1..Len(u) : u[k] \in {"SP", "CR"})
  OBVIOUS
<1> QED
  BY <1>1, <1>2 DEF Q!Trimmed, Q!IsBlank, Q!FirstAt

\* The part of a sequence between two places.
LEMMA Part ==
  ASSUME NEW S, NEW t \in Seq(S), NEW a \in 1..(Len(t) + 1), NEW b \in (a - 1)..Len(t)
  PROVE  /\ SubSeq(t, a, b) \in Seq(S) /\ Len(SubSeq(t, a, b)) = b - a + 1
         /\ \A k \in 1..(b - a + 1) : SubSeq(t, a, b)[k] = t[a + k - 1]
  OBVIOUS

\* parse_cmd, when the name ends at the c-th byte.
LEMMA ArgumentText ==
  ASSUME NEW l \in [1..line_len -> Chars], NEW e \in 1..line_len,
         \A k \in 1..e : l[k] \in Bytes,
         NEW c \in 1..TextLen(l, e), l[c] = "SP", \A j \in 1..(c - 1) : l[j] # "SP"
  PROVE  LET t == Front(l, TextLen(l, e))
             b == Split(Ended(l, e), c)
         IN  /\ CString(b, 1) = SubSeq(t, 1, c - 1)
             /\ CString(b, ArgumentOf(t, c)) = Q!Trimmed(SubSeq(t, c + 1, Len(t)))
<1> DEFINE m == TextLen(l, e)
           t == Front(l, m)
           d == Ended(l, e)
           b == Split(d, c)
           u == SubSeq(t, c + 1, Len(t))
<1>1. line_len \in Nat /\ e \in Nat /\ "NUL" \notin Bytes
  BY BufferAssumption
<1>2. /\ m \in 0..(e - 1) /\ d[m + 1] = "NUL"
      /\ \A k \in 1..m : d[k] = l[k] /\ l[k] # "NUL"
  BY EndedText
<1>3. m \in Nat /\ c \in Nat /\ c \in 1..m /\ m + 1 \in 1..line_len
  BY <1>1, <1>2
<1>4. t \in Seq(Bytes) /\ Len(t) = m /\ \A k \in 1..m : t[k] = l[k]
  BY <1>1, <1>2, <1>3, FrontType
<1>5. DOMAIN d = 1..line_len
  BY DEF Ended
<1>6. /\ b[c] = "NUL" /\ b[m + 1] = "NUL"
      /\ \A k \in 1..m : k # c => b[k] = l[k] /\ b[k] # "NUL"
  <2> HIDE DEF d, m
  <2>1. \A k \in 1..line_len : b[k] = IF k = c THEN "NUL" ELSE d[k]
    BY <1>5 DEF Split
  <2> HIDE DEF b
  <2>2. \A k \in 1..m : k \in 1..line_len
    BY <1>1, <1>3
  <2> QED
    BY <1>1, <1>2, <1>3, <2>1, <2>2
<1> HIDE DEF b, d, t, m
<1>7. u \in Seq(Bytes) /\ Len(u) = m - c /\ \A k \in 1..(m - c) : u[k] = t[c + k]
  BY <1>3, <1>4
<1>8. \A k \in 1..(m - c) : u[k] = l[c + k]
  <2>1. ASSUME NEW k \in 1..(m - c) PROVE c + k \in 1..m
    BY <1>3
  <2> QED
    BY <1>4, <1>7, <2>1
<1> HIDE DEF u
<1>9. CString(b, 1) = SubSeq(t, 1, c - 1)
  <2>1. CString(b, 1) = [k \in 1..(c - 1) |-> b[1 + k - 1]]
    <3>1. 1 \in 1..line_len /\ c \in 1..line_len
      BY <1>1, <1>3
    <3>2. \A j \in 1..(c - 1) : b[j] # "NUL"
      BY <1>3, <1>6
    <3> QED
      BY <1>6, <3>1, <3>2, CStringIs
  <2>2. [k \in 1..(c - 1) |-> b[1 + k - 1]] = Front(l, c - 1)
    BY <1>3, <1>6 DEF Front
  <2>3. /\ Front(l, c - 1) \in Seq(Bytes) /\ Len(Front(l, c - 1)) = c - 1
        /\ \A k \in 1..(c - 1) : Front(l, c - 1)[k] = l[k]
    BY <1>1, <1>2, <1>3, FrontType
  <2>4. /\ SubSeq(t, 1, c - 1) \in Seq(Bytes) /\ Len(SubSeq(t, 1, c - 1)) = c - 1
        /\ \A k \in 1..(c - 1) : SubSeq(t, 1, c - 1)[k] = l[k]
    BY <1>3, <1>4
  <2> QED
    BY <1>3, <2>1, <2>2, <2>3, <2>4, SameSeq
<1>10. CASE SolidOf(t, c) = {}
  <2>1. CString(b, m + 1) = [k \in 1..((m + 1) - (m + 1)) |-> b[(m + 1) + k - 1]]
    <3>1. m + 1 \in (m + 1)..line_len /\ \A j \in (m + 1)..((m + 1) - 1) : b[j] # "NUL"
      BY <1>1, <1>3
    <3> QED
      BY <1>3, <1>6, <3>1, CStringIs
  <2>2. CString(b, m + 1) = <<>>
    BY <1>3, <2>1
  <2>3. ASSUME NEW k \in 1..Len(u) PROVE u[k] \in {"SP", "CR"}
    <3>1. c + k \in (c + 1)..Len(t) /\ c + k \in 1..m /\ k \in 1..(m - c)
      BY <1>3, <1>4, <1>7
    <3>2. t[c + k] \in {"SP", "CR"}
      BY <1>10, <3>1 DEF SolidOf
    <3> QED
      BY <1>7, <3>1, <3>2
  <2>4. Q!Trimmed(u) = <<>>
    BY <1>7, <2>3, TrimmedBlank
  <2>5. ArgumentOf(t, c) = m + 1
    BY <1>4, <1>10 DEF ArgumentOf
  <2> QED
    BY <1>9, <2>2, <2>4, <2>5 DEF u, t, b, d, m
<1>11. CASE SolidOf(t, c) # {}
  <2>1. SolidOf(t, c) \subseteq Nat
    BY <1>3, <1>4 DEF SolidOf
  <2>2. PICK a \in SolidOf(t, c) : \A j \in SolidOf(t, c) : a <= j
    BY <1>11, <2>1, LeastNatural
  <2>3. ArgumentOf(t, c) = a
    BY <1>11, <2>1, <2>2, FirstIs DEF ArgumentOf
  <2>4. a \in Nat /\ a \in (c + 1)..m /\ t[a] \notin {"SP", "CR"} /\ a \in 1..m
    BY <1>3, <1>4, <2>2 DEF SolidOf
  <2>5. \A j \in (c + 1)..(a - 1) : t[j] \in {"SP", "CR"}
    <3>1. ASSUME NEW j \in (c + 1)..(a - 1) PROVE t[j] \in {"SP", "CR"}
      <4>1. j \in (c + 1)..Len(t) /\ ~(a <= j)
        BY <1>3, <1>4, <2>4
      <4> QED
        BY <2>2, <4>1 DEF SolidOf
    <3> QED
      BY <3>1
  <2>6. Q!Trimmed(u) = SubSeq(u, a - c, Len(u))
    <3>1. a - c \in 1..Len(u) /\ a - c \in 1..(m - c)
      BY <1>3, <1>7, <2>4
    <3>2. u[a - c] \notin {"SP", "CR"}
      <4>1. c + (a - c) = a
        BY <1>3, <2>4
      <4> QED
        BY <1>7, <2>4, <3>1, <4>1
    <3>3. ASSUME NEW k \in 1..((a - c) - 1) PROVE u[k] \in {"SP", "CR"}
      <4>1. k \in 1..(m - c) /\ c + k \in (c + 1)..(a - 1)
        BY <1>3, <2>4
      <4> QED
        BY <1>7, <2>5, <4>1
    <3> QED
      BY <1>7, <3>1, <3>2, <3>3, TrimmedSolid
  <2>7. CString(b, a) = [k \in 1..((m + 1) - a) |-> b[a + k - 1]]
    <3>1. a \in 1..line_len /\ m + 1 \in a..line_len
      BY <1>1, <1>3, <2>4
    <3>2. \A j \in a..((m + 1) - 1) : b[j] # "NUL"
      BY <1>3, <1>6, <2>4
    <3> QED
      BY <1>6, <3>1, <3>2, CStringIs
  <2> DEFINE n == (m + 1) - a
             v == SubSeq(u, a - c, Len(u))
             w == [k \in 1..n |-> b[a + k - 1]]
  <2>8. n \in Nat
    BY <1>3, <2>4
  <2>9. \A k \in 1..n : b[a + k - 1] = l[a + k - 1] /\ l[a + k - 1] \in Bytes
    <3>1. ASSUME NEW k \in 1..n
          PROVE  a + k - 1 \in 1..m /\ a + k - 1 # c /\ a + k - 1 \in 1..e
      BY <1>1, <1>2, <1>3, <2>4
    <3> QED
      BY <1>6, <3>1
  <2> HIDE DEF n
  <2>10. w \in [1..n -> Bytes]
    BY <2>9
  <2>11. w \in Seq(Bytes) /\ Len(w) = n /\ \A k \in 1..n : w[k] = l[a + k - 1]
    BY <2>8, <2>9, <2>10
  <2>12. v \in Seq(Bytes) /\ Len(v) = n /\ \A k \in 1..n : v[k] = l[a + k - 1]
    <3> DEFINE p == a - c
    <3>1. p \in 1..(Len(u) + 1) /\ Len(u) \in (p - 1)..Len(u) /\ Len(u) - p + 1 = n
      BY <1>3, <1>7, <2>4 DEF n
    <3>a. p \in Nat /\ a = c + p
      BY <1>3, <2>4
    <3> HIDE DEF p
    <3>2. /\ SubSeq(u, p, Len(u)) \in Seq(Bytes) /\ Len(SubSeq(u, p, Len(u))) = n
          /\ \A k \in 1..n : SubSeq(u, p, Len(u))[k] = u[p + k - 1]
      BY <1>7, <3>1, Part
    <3>3. ASSUME NEW k \in 1..n PROVE u[p + k - 1] = l[a + k - 1]
      <4>1. p + k - 1 \in 1..(m - c) /\ c + (p + k - 1) = a + k - 1
        BY <1>3, <1>7, <3>1, <3>a
      <4> QED
        BY <1>8, <4>1
    <3>4. SubSeq(u, p, Len(u)) = v
      BY DEF p
    <3> QED
      BY <3>2, <3>3, <3>4
  <2> HIDE DEF v, w
  <2>13. w = v
    BY <2>11, <2>12, SameSeq, SMTT(30)
  <2>14. CString(b, a) = w
    BY <2>7 DEF w, n
  <2>15. Q!Trimmed(u) = v
    BY <2>6 DEF v
  <2> QED
    BY <1>9, <2>3, <2>13, <2>14, <2>15 DEF u, t, b, d, m
<1> QED
  BY <1>10, <1>11

\* A line in the buffer is parsed as the queue of lines parses it.
LEMMA ParsedLine ==
  ASSUME NEW l \in [1..line_len -> Chars], NEW e \in 1..line_len,
         \A k \in 1..e : l[k] \in Bytes
  PROVE  LET t == CString(Ended(l, e), 1)
             c == First(SpacesOf(t))
         IN  /\ SpacesOf(t) = {} =>
                  [name |-> CString(Ended(l, e), 1), arg |-> <<>>] = Q!Parsed(Front(l, e - 1))
             /\ SpacesOf(t) # {} =>
                  /\ c \in 1..(e - 1)
                  /\ [name |-> CString(Split(Ended(l, e), c), 1),
                      arg |-> CString(Split(Ended(l, e), c), ArgumentOf(t, c))]
                     = Q!Parsed(Front(l, e - 1))
<1> DEFINE m == TextLen(l, e)
           t == Front(l, m)
           s == Front(l, e - 1)
<1>1. line_len \in Nat /\ e \in Nat \ {0}
  BY BufferAssumption
<1>2. m \in 0..(e - 1) /\ CString(Ended(l, e), 1) = t
  BY EndedText
<1>3. m \in Nat
  BY <1>1, <1>2
<1>4. t \in Seq(Bytes) /\ Len(t) = m /\ \A k \in 1..m : t[k] = l[k]
  BY <1>1, <1>2, <1>3, FrontType
<1>5. Q!WithoutCR(s) = t
  BY <1>1, TextWithoutCR
<1> HIDE DEF m, t, s
<1>6. CASE SpacesOf(t) = {}
  <2>1. Q!Parsed(s) = [name |-> t, arg |-> <<>>]
    BY <1>4, <1>5, <1>6, ParsedName
  <2> QED
    BY <1>2, <1>6, <2>1 DEF s
<1>7. CASE SpacesOf(t) # {}
  <2>1. SpacesOf(t) \subseteq Nat
    BY <1>4 DEF SpacesOf
  <2>2. PICK c \in SpacesOf(t) : \A j \in SpacesOf(t) : c <= j
    BY <1>7, <2>1, LeastNatural
  <2>3. First(SpacesOf(t)) = c
    BY <2>1, <2>2, FirstIs
  <2>4. c \in 1..m /\ c \in 1..Len(t) /\ t[c] = "SP" /\ l[c] = "SP" /\ c \in Nat
    BY <1>4, <2>2 DEF SpacesOf
  <2>5. \A j \in 1..(c - 1) : t[j] # "SP" /\ l[j] # "SP"
    <3>1. ASSUME NEW j \in 1..(c - 1) PROVE t[j] # "SP" /\ l[j] # "SP"
      <4>1. j \in 1..m /\ j \in 1..Len(t) /\ ~(c <= j)
        BY <1>3, <1>4, <2>4
      <4>2. j \notin SpacesOf(t)
        BY <2>2, <4>1
      <4> QED
        BY <1>4, <4>1, <4>2 DEF SpacesOf
    <3> QED
      BY <3>1
  <2>6. Q!Parsed(s) = [name |-> SubSeq(t, 1, c - 1),
                       arg |-> Q!Trimmed(SubSeq(t, c + 1, Len(t)))]
    BY <1>4, <1>5, <2>4, <2>5, ParsedArgument
  <2>7. /\ CString(Split(Ended(l, e), c), 1) = SubSeq(t, 1, c - 1)
        /\ CString(Split(Ended(l, e), c), ArgumentOf(t, c))
             = Q!Trimmed(SubSeq(t, c + 1, Len(t)))
    <3>1. c \in 1..TextLen(l, e)
      BY <2>4 DEF m
    <3> QED
      BY <2>4, <2>5, <3>1, ArgumentText DEF t, m
  <2>8. c \in 1..(e - 1)
    BY <1>1, <1>2, <1>3, <2>4
  <2> QED
    BY <1>2, <1>7, <2>3, <2>6, <2>7, <2>8 DEF s
<1> QED
  BY <1>6, <1>7

-----------------------------------------------------------------------------

\* parse_cmd, with what it finds named.
LEMMA ParseStep ==
  ASSUME QInv, parse_cmd
  PROVE  \E e \in 1..dirty_len :
           /\ len' = e /\ line[e] = "NL" /\ \A j \in 1..(e - 1) : line[j] # "NL"
           /\ command' = Q!Parsed(Front(line, e - 1))
           /\ \A k \in (e + 1)..dirty_len : line'[k] = line[k]
           /\ pc' = "execute" /\ count' = count + 1 /\ UNCHANGED <<dirty_len, net>>
<1>1. PICK e \in 1..line_len :
        LET t == CString(Ended(line, e), 1)
            c == First(SpacesOf(t))
        IN  /\ memchr(line_len, e)
            /\ len' = e
            /\ line' = IF SpacesOf(t) = {} THEN Ended(line, e) ELSE Split(Ended(line, e), c)
            /\ command' = [name |-> CString(line', 1),
                           arg |-> IF SpacesOf(t) = {} THEN <<>>
                                   ELSE CString(line', ArgumentOf(t, c))]
  BY Zenon DEF parse_cmd, Ended, SpacesOf, SolidOf, First, ArgumentOf, Split
<1>2. pc = "read" /\ pc' = "execute" /\ count' = count + 1 /\ UNCHANGED <<dirty_len, net>>
  BY DEF parse_cmd
<1>3. /\ line_len \in Nat /\ dirty_len \in 0..line_len /\ line \in [1..line_len -> Chars]
      /\ \A k \in 1..dirty_len : line[k] \in Bytes
  BY <1>2, BufferAssumption DEF QInv, Inv, BufferInBounds, Intact, Base, Chars
<1>4. line[e] = "NL" /\ \A j \in 1..(e - 1) : line[j] # "NL"
  BY <1>1 DEF memchr
<1>5. e \in 1..dirty_len /\ e \in Nat
  <2>1. PICK i \in 1..dirty_len : line[i] = "NL"
    BY DEF parse_cmd, Complete
  <2>2. ~(i < e)
    BY <1>3, <1>4, <2>1
  <2> QED
    BY <1>3, <2>1, <2>2
<1>6. \A k \in 1..e : line[k] \in Bytes
  BY <1>3, <1>5
<1> DEFINE t == CString(Ended(line, e), 1)
           c == First(SpacesOf(t))
<1>7. /\ SpacesOf(t) = {} =>
           [name |-> CString(Ended(line, e), 1), arg |-> <<>>] = Q!Parsed(Front(line, e - 1))
      /\ SpacesOf(t) # {} =>
           /\ c \in 1..(e - 1)
           /\ [name |-> CString(Split(Ended(line, e), c), 1),
               arg |-> CString(Split(Ended(line, e), c), ArgumentOf(t, c))]
              = Q!Parsed(Front(line, e - 1))
  BY <1>3, <1>6, ParsedLine
<1>8. command' = Q!Parsed(Front(line, e - 1))
  <2> HIDE DEF t, c
  <2>1. command' = [name |-> CString(line', 1),
                    arg |-> IF SpacesOf(t) = {} THEN <<>>
                            ELSE CString(line', ArgumentOf(t, c))]
    BY <1>1 DEF t, c
  <2>2. line' = IF SpacesOf(t) = {} THEN Ended(line, e) ELSE Split(Ended(line, e), c)
    BY <1>1 DEF t, c
  <2>3. CString(Ended(line, e), 1) = t
    BY DEF t
  <2>4. CASE SpacesOf(t) = {}
    <3>1. line' = Ended(line, e)
      BY <2>2, <2>4
    <3>2. command' = [name |-> CString(Ended(line, e), 1), arg |-> <<>>]
      BY <2>1, <2>4, <3>1
    <3> QED
      BY <1>7, <2>4, <3>2
  <2>5. CASE SpacesOf(t) # {}
    <3>1. line' = Split(Ended(line, e), c)
      BY <2>2, <2>5
    <3>2. command' = [name |-> CString(Split(Ended(line, e), c), 1),
                      arg |-> CString(Split(Ended(line, e), c), ArgumentOf(t, c))]
      BY <2>1, <2>5, <3>1
    <3> QED
      BY <1>7, <2>5, <3>2
  <2> QED
    BY <2>4, <2>5
<1>9. \A k \in (e + 1)..dirty_len : line'[k] = line[k]
  <2>1. ASSUME NEW k \in (e + 1)..dirty_len
        PROVE  k \in 1..line_len /\ k # e /\ k # e - 1
    BY <1>3, <1>5
  <2>2. \A k \in (e + 1)..dirty_len : Ended(line, e)[k] = line[k]
    BY <2>1 DEF Ended
  <2>3. CASE SpacesOf(t) = {}
    BY <1>1, <2>2, <2>3
  <2>4. CASE SpacesOf(t) # {}
    <3>1. \A k \in (e + 1)..dirty_len : k # c
      BY <1>5, <1>7, <2>4
    <3>2. line' = Split(Ended(line, e), c)
      BY <1>1, <2>4
    <3>3. DOMAIN Ended(line, e) = 1..line_len
      BY DEF Ended
    <3> HIDE DEF c, t
    <3>4. \A k \in 1..line_len : k # c => line'[k] = Ended(line, e)[k]
      BY <3>2, <3>3 DEF Split
    <3> QED
      BY <2>1, <2>2, <3>1, <3>4
  <2> QED
    BY <2>3, <2>4
<1>10. len' = e
  BY <1>1
<1> QED
  BY <1>2, <1>4, <1>5, <1>8, <1>9, <1>10

LEMMA InitQInv == Init => QInv
  BY InitInv DEF Init, QInv, Intact, Base

\* What recv() brings is put behind the bytes that are waiting.
LEMMA ReadQInv ==
  ASSUME QInv, read_cmd
  PROVE  /\ QInv'
         /\ \E n \in 1..Len(net) :
              /\ \A k \in 1..dirty_len : line'[k] = line[k]
              /\ \A k \in (dirty_len + 1)..(dirty_len + n) : line'[k] = net[k - dirty_len]
              /\ dirty_len' = dirty_len + n
              /\ net' = SubSeq(net, n + 1, Len(net))
<1>1. PICK n \in 1..Len(net) :
        /\ n <= line_len - dirty_len
        /\ line' = [i \in 1..line_len |->
                      IF i \in (dirty_len + 1)..(dirty_len + n)
                      THEN net[i - dirty_len] ELSE line[i]]
        /\ dirty_len' = dirty_len + n
        /\ net' = SubSeq(net, n + 1, Len(net))
        /\ pc' = IF dirty_len' >= line_len THEN "too_long" ELSE "read"
  BY DEF read_cmd
<1>2. /\ line_len \in Nat /\ dirty_len \in Nat /\ net \in Seq(Bytes)
      /\ \A k \in 1..dirty_len : line[k] \in Bytes
  BY BufferAssumption DEF QInv, Inv, BufferInBounds, Intact, Base, read_cmd
<1>3. n \in Nat /\ Len(net) \in Nat /\ dirty_len + n <= line_len
  BY <1>1, <1>2
<1>4. \A k \in 1..dirty_len : line'[k] = line[k]
  <2>1. ASSUME NEW k \in 1..dirty_len
        PROVE  k \in 1..line_len /\ k \notin (dirty_len + 1)..(dirty_len + n)
    BY <1>2, <1>3
  <2> QED
    BY <1>1, <2>1
<1>5. \A k \in (dirty_len + 1)..(dirty_len + n) : line'[k] = net[k - dirty_len]
  <2>1. ASSUME NEW k \in (dirty_len + 1)..(dirty_len + n) PROVE k \in 1..line_len
    BY <1>2, <1>3
  <2> QED
    BY <1>1, <2>1
<1>6. \A k \in (dirty_len + 1)..(dirty_len + n) : net[k - dirty_len] \in Bytes
  <2>1. ASSUME NEW k \in (dirty_len + 1)..(dirty_len + n) PROVE k - dirty_len \in 1..Len(net)
    BY <1>2, <1>3
  <2> QED
    BY <1>2, <2>1
<1>7. Base' = 0
  BY <1>1 DEF Base
<1>8. dirty_len' = dirty_len + n
  BY <1>1
<1>9. Intact'
  <2>1. ASSUME NEW k \in 1..(dirty_len + n) PROVE line'[k] \in Bytes
    <3>1. k \in 1..dirty_len \/ k \in (dirty_len + 1)..(dirty_len + n)
      BY <1>2, <1>3
    <3> QED
      BY <1>2, <1>4, <1>5, <1>6, <3>1
  <2>2. 0 <= dirty_len + n
    BY <1>2, <1>3
  <2> QED
    BY <1>7, <1>8, <2>1, <2>2 DEF Intact
<1>10. Inv'
  BY ReadInv DEF QInv
<1> QED
  BY <1>1, <1>4, <1>5, <1>9, <1>10 DEF QInv

LEMMA ParseQInv == QInv /\ parse_cmd => QInv'
<1> SUFFICES ASSUME QInv, parse_cmd PROVE QInv'
  OBVIOUS
<1>1. PICK e \in 1..dirty_len :
        /\ len' = e /\ \A k \in (e + 1)..dirty_len : line'[k] = line[k]
        /\ pc' = "execute" /\ UNCHANGED <<dirty_len, net>>
  BY ParseStep
<1>2. dirty_len \in Nat /\ \A k \in 1..dirty_len : line[k] \in Bytes
  <2>1. pc = "read"
    BY DEF parse_cmd
  <2>2. Base = 0
    BY <2>1 DEF Base
  <2>3. dirty_len \in Nat
    BY BufferAssumption DEF QInv, Inv, BufferInBounds
  <2>4. \A k \in (0 + 1)..dirty_len : line[k] \in Bytes
    BY <2>2 DEF QInv, Intact
  <2> QED
    BY <2>3, <2>4
<1>3. Base' = e
  BY <1>1 DEF Base
<1>4. Intact'
  <2>1. ASSUME NEW k \in (e + 1)..dirty_len PROVE line[k] \in Bytes
    BY <1>2
  <2> QED
    BY <1>1, <1>2, <1>3, <2>1 DEF Intact
<1> QED
  BY <1>4, ParseInv DEF QInv

\* What is behind the command moves to the front.
LEMMA RemoveQInv ==
  ASSUME QInv, remove_cmd
  PROVE  /\ QInv'
         /\ len \in 1..dirty_len /\ Base = len /\ Base' = 0
         /\ dirty_len' = dirty_len - len /\ net' = net
         /\ \A k \in 1..(dirty_len - len) : line'[k] = line[len + k]
<1>1. /\ line_len \in Nat /\ dirty_len \in 0..line_len
      /\ len \in Nat /\ 0 < len /\ len <= dirty_len
  BY BufferAssumption DEF QInv, Inv, BufferInBounds, remove_cmd
<1>2. /\ dirty_len' = dirty_len - len
      /\ pc = "execute" /\ pc' = "read" /\ UNCHANGED <<len, net>>
  BY <1>1 DEF remove_cmd
<1>3. Base = len /\ Base' = 0
  BY <1>2 DEF Base
<1>4. \A k \in 1..(dirty_len - len) : line'[k] = line[len + k]
  <2>1. CASE len = dirty_len
    BY <1>1, <2>1
  <2>2. CASE len # dirty_len
    <3>1. line' = [i \in 1..line_len |->
                     IF i + len <= line_len THEN line[i + len] ELSE line[i]]
      BY <2>2 DEF remove_cmd
    <3>2. ASSUME NEW k \in 1..(dirty_len - len)
          PROVE  k \in 1..line_len /\ k + len <= line_len /\ k + len = len + k
      BY <1>1
    <3> QED
      BY <3>1, <3>2
  <2> QED
    BY <2>1, <2>2
<1>5. Intact'
  <2>1. ASSUME NEW k \in 1..(dirty_len - len) PROVE line[len + k] \in Bytes
    <3>1. len + k \in (len + 1)..dirty_len
      BY <1>1
    <3> QED
      BY <1>3, <3>1 DEF QInv, Intact
  <2>2. 0 <= dirty_len - len
    BY <1>1
  <2> QED
    BY <1>2, <1>3, <1>4, <2>1, <2>2 DEF Intact
<1>6. Inv'
  BY RemoveInv DEF QInv
<1>7. len \in 1..dirty_len
  BY <1>1
<1> QED
  BY <1>2, <1>3, <1>4, <1>5, <1>6, <1>7 DEF QInv

LEMMA StepQInv == QInv /\ [Next]_vars => QInv'
<1> SUFFICES ASSUME QInv, [Next]_vars PROVE QInv'
  OBVIOUS
<1>0. Inv'
  BY StepInv DEF QInv
<1>1. CASE UNCHANGED vars
  BY <1>0, <1>1 DEF vars, QInv, Intact, Base
<1>2. CASE read_cmd
  BY <1>2, ReadQInv
<1>3. CASE Quit
  BY <1>0, <1>3 DEF Quit, QInv, Intact, Base
<1>4. CASE parse_cmd
  BY <1>4, ParseQInv
<1>5. CASE remove_cmd
  BY <1>5, RemoveQInv
<1>6. CASE Leave
  BY <1>0, <1>6 DEF Leave, QInv, Intact, Base
<1>7. ASSUME NEW c \in Bytes, Send(c) PROVE QInv'
  BY <1>0, <1>7 DEF Send, QInv, Intact, Base
<1> QED
  BY <1>1, <1>2, <1>3, <1>4, <1>5, <1>6, <1>7 DEF Next

-----------------------------------------------------------------------------

\* The facts of QInv about one state, and the bytes that are not executed.
Waiting ==
  /\ line \in [1..line_len -> Chars] /\ line_len \in Nat
  /\ dirty_len \in 0..line_len /\ Base \in 0..dirty_len
  /\ net \in Seq(Bytes) /\ \A k \in (Base + 1)..dirty_len : line[k] \in Bytes
  /\ Unexecuted = Rest(line, Base, dirty_len, net)

LEMMA WaitingBytes == QInv => Waiting
<1> SUFFICES ASSUME QInv PROVE Waiting
  OBVIOUS
<1>1. /\ line \in [1..line_len -> Chars] /\ line_len \in Nat
      /\ dirty_len \in 0..line_len
      /\ net \in Seq(Bytes) /\ \A k \in (Base + 1)..dirty_len : line[k] \in Bytes
  BY BufferAssumption DEF QInv, Inv, BufferInBounds, Intact, Chars
<1>2. Base \in 0..dirty_len
  BY BufferAssumption DEF QInv, Inv, BufferInBounds, Intact, Base
<1>3. /\ SubSeq([i \in 1..dirty_len |-> line[i]], Base + 1, dirty_len) \o net
           = Rest(line, Base, dirty_len, net)
      /\ Base = 0 => [i \in 1..dirty_len |-> line[i]] \o net = Rest(line, Base, dirty_len, net)
  BY <1>1, <1>2, UnexecutedBytes
<1>4. Unexecuted = Rest(line, Base, dirty_len, net)
  BY <1>3, Zenon DEF Unexecuted, Base
<1> QED
  BY <1>1, <1>2, <1>4 DEF Waiting

LEMMA WaitingBytesNext == QInv' => Waiting'
  BY WaitingBytes, PTL

\* The same, with nothing in front.
LEMMA RestOfAll ==
  ASSUME NEW l, NEW d \in Nat, NEW n \in Seq(Bytes), \A k \in 1..d : l[k] \in Bytes
  PROVE  /\ Rest(l, 0, d, n) \in Seq(Bytes) /\ Len(Rest(l, 0, d, n)) = d + Len(n)
         /\ \A k \in 1..d : Rest(l, 0, d, n)[k] = l[k]
         /\ \A k \in (d + 1)..(d + Len(n)) : Rest(l, 0, d, n)[k] = n[k - d]
<1>1. 0 \in 0..d /\ d - 0 = d /\ (\A k \in 1..d : 0 + k = k) /\ 0 + 1 = 1
  OBVIOUS
<1>2. Sound(l, 0, d, n)
  BY <1>1 DEF Sound
<1>3. IsRest(Rest(l, 0, d, n), l, 0, d, n)
  BY <1>2, RestType
<1> QED
  BY <1>1, <1>3 DEF IsRest

\* recv() moves bytes from the network to the buffer.
LEMMA RestReceived ==
  ASSUME NEW l, NEW l2, NEW d \in Nat, NEW net0 \in Seq(Bytes), NEW n \in 1..Len(net0),
         \A k \in 1..d : l[k] \in Bytes,
         \A k \in 1..d : l2[k] = l[k],
         \A k \in (d + 1)..(d + n) : l2[k] = net0[k - d]
  PROVE  Rest(l2, 0, d + n, SubSeq(net0, n + 1, Len(net0))) = Rest(l, 0, d, net0)
<1> DEFINE q == SubSeq(net0, n + 1, Len(net0))
           r == Rest(l, 0, d, net0)
           s == Rest(l2, 0, d + n, q)
<1>1. n \in Nat /\ Len(net0) \in Nat /\ n <= Len(net0)
  OBVIOUS
<1>2. q \in Seq(Bytes) /\ Len(q) = Len(net0) - n /\ \A k \in 1..(Len(net0) - n) : q[k] = net0[n + k]
  BY <1>1
<1>3. /\ r \in Seq(Bytes) /\ Len(r) = d + Len(net0)
      /\ \A k \in 1..d : r[k] = l[k]
      /\ \A k \in (d + 1)..(d + Len(net0)) : r[k] = net0[k - d]
  BY RestOfAll
<1>4. \A k \in 1..(d + n) : l2[k] \in Bytes
  <2>1. ASSUME NEW k \in (d + 1)..(d + n) PROVE net0[k - d] \in Bytes
    <3>1. k - d \in 1..Len(net0)
      BY <1>1
    <3> QED
      BY <3>1
  <2> QED
    BY <1>1, <2>1
<1> HIDE DEF q
<1>5. /\ s \in Seq(Bytes) /\ Len(s) = (d + n) + Len(q)
      /\ \A k \in 1..(d + n) : s[k] = l2[k]
      /\ \A k \in ((d + n) + 1)..((d + n) + Len(q)) : s[k] = q[k - (d + n)]
  <2> DEFINE m == d + n
  <2>1. m \in Nat
    BY <1>1
  <2>2. \A k \in 1..m : l2[k] \in Bytes
    BY <1>4
  <2> HIDE DEF m
  <2>3. /\ Rest(l2, 0, m, q) \in Seq(Bytes) /\ Len(Rest(l2, 0, m, q)) = m + Len(q)
        /\ \A k \in 1..m : Rest(l2, 0, m, q)[k] = l2[k]
        /\ \A k \in (m + 1)..(m + Len(q)) : Rest(l2, 0, m, q)[k] = q[k - m]
    BY <1>2, <2>1, <2>2, RestOfAll, ZenonT(30)
  <2> QED
    BY <2>3 DEF m
<1> HIDE DEF r, s
<1>6. ASSUME NEW k \in 1..Len(s) PROVE s[k] = r[k]
  <2>1. CASE k <= d
    <3>1. k \in 1..d /\ k \in 1..(d + n)
      BY <1>1, <2>1
    <3> QED
      BY <1>1, <1>3, <1>5, <3>1
  <2>2. CASE d < k /\ k <= d + n
    <3>1. k \in 1..(d + n) /\ k \in (d + 1)..(d + n) /\ k \in (d + 1)..(d + Len(net0))
      BY <1>1, <2>2
    <3> QED
      BY <1>3, <1>5, <3>1
  <2>3. CASE d + n < k
    <3>1. /\ k \in ((d + n) + 1)..((d + n) + Len(q)) /\ k \in (d + 1)..(d + Len(net0))
          /\ k - (d + n) \in 1..(Len(net0) - n) /\ n + (k - (d + n)) = k - d
      BY <1>1, <1>2, <1>5, <2>3
    <3> QED
      BY <1>2, <1>3, <1>5, <3>1, ZenonT(30)
  <2> QED
    BY <1>1, <2>1, <2>2, <2>3
<1>7. Len(s) = Len(r)
  BY <1>1, <1>2, <1>3, <1>5
<1>8. s = r
  BY <1>3, <1>5, <1>6, <1>7, SameSeq
<1> QED
  BY <1>8 DEF s, r, q

\* remove_cmd leaves what is behind the command.
LEMMA RestMoved ==
  ASSUME NEW l, NEW l2, NEW d \in Nat, NEW b \in 0..d, NEW n \in Seq(Bytes),
         \A k \in 1..(d - b) : l2[k] = l[b + k]
  PROVE  Rest(l2, 0, d - b, n) = Rest(l, b, d, n)
<1> DEFINE m == d - b
<1>1. m \in Nat /\ m - 0 = m /\ Len(n) \in Nat
  OBVIOUS
<1>2. \A k \in 1..m : l2[0 + k] = l[b + k]
  BY <1>1
<1>3. \A k \in 1..(m + Len(n)) : k <= m => k \in 1..m
  BY <1>1
<1>4. Rest(l, b, d, n) = [k \in 1..(m + Len(n)) |-> IF k <= m THEN l[b + k] ELSE n[k - m]]
  BY DEF Rest
<1> HIDE DEF m
<1>5. Rest(l2, 0, m, n) = [k \in 1..(m + Len(n)) |-> IF k <= m THEN l[b + k] ELSE n[k - m]]
  BY <1>1, <1>2, <1>3 DEF Rest
<1> QED
  BY <1>4, <1>5 DEF m

\* A byte that is sent comes last.
LEMMA RestSent ==
  ASSUME NEW l, NEW d \in Nat, NEW b \in 0..d, NEW n \in Seq(Bytes), NEW c \in Bytes,
         \A k \in (b + 1)..d : l[k] \in Bytes
  PROVE  Rest(l, b, d, Append(n, c)) = Append(Rest(l, b, d, n), c)
<1> DEFINE q == Append(n, c)
           r == Rest(l, b, d, n)
           s == Rest(l, b, d, q)
           t == Append(r, c)
           m == d - b
<1>0. m \in Nat /\ Len(n) \in Nat
  OBVIOUS
<1>1. q \in Seq(Bytes) /\ Len(q) = Len(n) + 1
      /\ (\A k \in 1..Len(n) : q[k] = n[k]) /\ q[Len(n) + 1] = c
  OBVIOUS
<1>2. /\ r \in Seq(Bytes) /\ Len(r) = m + Len(n)
      /\ \A k \in 1..m : r[k] = l[b + k]
      /\ \A k \in (m + 1)..(m + Len(n)) : r[k] = n[k - m]
  <2>1. b \in Nat /\ Sound(l, b, d, n)
    BY DEF Sound
  <2>2. IsRest(r, l, b, d, n)
    BY <2>1, RestType
  <2> HIDE DEF r, q, s, t
  <2> QED
    BY <2>2 DEF IsRest
<1> HIDE DEF q, r
<1>3. /\ s \in Seq(Bytes) /\ Len(s) = m + Len(q)
      /\ \A k \in 1..m : s[k] = l[b + k]
      /\ \A k \in (m + 1)..(m + Len(q)) : s[k] = q[k - m]
  <2>1. b \in Nat /\ Sound(l, b, d, q)
    BY <1>1 DEF Sound
  <2>2. IsRest(s, l, b, d, q)
    BY <2>1, RestType
  <2> HIDE DEF s, t
  <2> QED
    BY <2>2 DEF IsRest
<1> HIDE DEF s, m
<1>4. t \in Seq(Bytes) /\ Len(t) = Len(r) + 1
      /\ (\A k \in 1..Len(r) : t[k] = r[k]) /\ t[Len(r) + 1] = c
  BY <1>2
<1> HIDE DEF t
<1>5. ASSUME NEW k \in 1..Len(s) PROVE s[k] = t[k]
  <2>1. CASE k <= m
    BY <1>0, <1>2, <1>3, <1>4, <2>1
  <2>2. CASE m < k /\ k <= m + Len(n)
    <3>1. /\ k \in (m + 1)..(m + Len(q)) /\ k \in (m + 1)..(m + Len(n))
          /\ k - m \in 1..Len(n) /\ k \in 1..Len(r)
      BY <1>0, <1>1, <1>2, <2>2
    <3> QED
      BY <1>1, <1>2, <1>3, <1>4, <3>1
  <2>3. CASE k = (m + Len(n)) + 1
    <3>1. k \in (m + 1)..(m + Len(q)) /\ k - m = Len(n) + 1 /\ k = Len(r) + 1
      BY <1>0, <1>1, <1>2, <2>3
    <3> QED
      BY <1>1, <1>3, <1>4, <3>1
  <2>4. k <= m \/ (m < k /\ k <= m + Len(n)) \/ k = (m + Len(n)) + 1
    <3>1. k \in 1..((m + Len(n)) + 1)
      BY <1>0, <1>1, <1>3
    <3> QED
      BY <1>0, <3>1
  <2> QED
    BY <2>1, <2>2, <2>3, <2>4
<1>6. Len(s) = Len(t)
  BY <1>0, <1>1, <1>2, <1>3, <1>4
<1>7. s = t
  BY <1>3, <1>4, <1>5, <1>6, SameSeq
<1> QED
  BY <1>7 DEF s, t, r, q

\* parse_cmd takes the first e bytes of r, which are those of l, and leaves s.
Taken(r, l, e, s) ==
  /\ e \in 1..Len(r) /\ \A k \in 1..e : r[k] = l[k]
  /\ SubSeq(r, 1, e - 1) = Front(l, e - 1)
  /\ s = SubSeq(r, e + 1, Len(r))

LEMMA RestTaken ==
  ASSUME NEW l, NEW l2, NEW d, NEW n, NEW e, e \in 1..d,
         Sound(l, 0, d, n), \A k \in (e + 1)..d : l2[k] = l[k]
  PROVE  Taken(Rest(l, 0, d, n), l, e, Rest(l2, e, d, n))
<1> DEFINE r == Rest(l, 0, d, n)
           s == Rest(l2, e, d, n)
           t == SubSeq(r, e + 1, Len(r))
<1>a. d \in Nat /\ n \in Seq(Bytes) /\ \A k \in 1..d : l[k] \in Bytes
  BY DEF Sound
<1> USE <1>a
<1>0. e \in Nat /\ e <= d /\ Len(n) \in Nat
  OBVIOUS
<1>1. /\ r \in Seq(Bytes) /\ Len(r) = d + Len(n)
      /\ \A k \in 1..d : r[k] = l[k]
      /\ \A k \in (d + 1)..(d + Len(n)) : r[k] = n[k - d]
  BY RestOfAll
<1>2. /\ s \in Seq(Bytes) /\ Len(s) = (d - e) + Len(n)
      /\ \A k \in 1..(d - e) : s[k] = l2[e + k]
      /\ \A k \in ((d - e) + 1)..((d - e) + Len(n)) : s[k] = n[k - (d - e)]
  <2>1. Sound(l2, e, d, n)
    BY <1>0 DEF Sound
  <2>2. IsRest(s, l2, e, d, n)
    BY <2>1, RestType
  <2> HIDE DEF r, s, t
  <2> QED
    BY <2>2 DEF IsRest
<1> HIDE DEF r, s
<1>3. e \in 1..Len(r) /\ \A k \in 1..e : r[k] = l[k]
  BY <1>0, <1>1
<1>4. SubSeq(r, 1, e - 1) = Front(l, e - 1)
  <2>1. /\ SubSeq(r, 1, e - 1) \in Seq(Bytes) /\ Len(SubSeq(r, 1, e - 1)) = e - 1
        /\ \A k \in 1..(e - 1) : SubSeq(r, 1, e - 1)[k] = l[k]
    BY <1>0, <1>1
  <2>2. /\ Front(l, e - 1) \in Seq(Bytes) /\ Len(Front(l, e - 1)) = e - 1
        /\ \A k \in 1..(e - 1) : Front(l, e - 1)[k] = l[k]
    BY <1>0, FrontType
  <2> QED
    BY <2>1, <2>2, SameSeq
<1>5. /\ t \in Seq(Bytes) /\ Len(t) = (d - e) + Len(n)
      /\ \A k \in 1..((d - e) + Len(n)) : t[k] = r[e + k]
  <2>1. e + 1 \in 1..(Len(r) + 1) /\ Len(r) \in ((e + 1) - 1)..Len(r)
        /\ Len(r) - (e + 1) + 1 = (d - e) + Len(n)
        /\ \A k \in 1..((d - e) + Len(n)) : (e + 1) + k - 1 = e + k
    BY <1>0, <1>1
  <2> QED
    BY <1>1, <2>1, Part
<1> HIDE DEF t
<1>6. ASSUME NEW k \in 1..Len(s) PROVE s[k] = t[k]
  <2>1. CASE k <= d - e
    <3>1. k \in 1..(d - e) /\ k \in 1..((d - e) + Len(n)) /\ e + k \in 1..d /\ e + k \in (e + 1)..d
      BY <1>0, <1>2, <2>1
    <3> QED
      BY <1>1, <1>2, <1>5, <3>1
  <2>2. CASE d - e < k
    <3>1. /\ k \in ((d - e) + 1)..((d - e) + Len(n)) /\ k \in 1..((d - e) + Len(n))
          /\ e + k \in (d + 1)..(d + Len(n)) /\ (e + k) - d = k - (d - e)
      BY <1>0, <1>2, <2>2
    <3>2. s[k] = n[k - (d - e)]
      BY <1>2, <3>1
    <3>3. r[e + k] = n[(e + k) - d]
      BY <1>1, <3>1
    <3>4. t[k] = r[e + k]
      BY <1>5, <3>1
    <3> QED
      BY <3>1, <3>2, <3>3, <3>4
  <2> QED
    BY <1>0, <2>1, <2>2
<1>7. s = t
  BY <1>2, <1>5, <1>6, SameSeq
<1> QED
  BY <1>3, <1>4, <1>7 DEF Taken, r, s, t

-----------------------------------------------------------------------------

LEMMA QueueInit == Init => Q!Init
<1> SUFFICES ASSUME Init PROVE Q!Init
  OBVIOUS
<1>1. Unexecuted = <<>>
  <2>1. [i \in 1..0 |-> line[i]] = <<>>
    OBVIOUS
  <2>2. Unexecuted = [i \in 1..0 |-> line[i]] \o <<>>
    BY DEF Init, Unexecuted
  <2> QED
    BY <2>1, <2>2
<1> QED
  BY <1>1 DEF Init, Q!Init

\* Every step of the buffer takes a line, sends a byte or leaves the queue as
\* it is.
LEMMA QueueStep == QInv /\ [Next]_vars => [Q!Next]_<<Unexecuted, command, count>>
<1> SUFFICES ASSUME QInv, [Next]_vars PROVE [Q!Next]_<<Unexecuted, command, count>>
  OBVIOUS
<1>a. QInv'
  BY StepQInv
<1>b. Waiting /\ Waiting'
  BY <1>a, WaitingBytes, WaitingBytesNext
<1>c. dirty_len \in Nat
  BY <1>b DEF Waiting
<1>1. CASE UNCHANGED vars
  BY <1>1 DEF vars, Unexecuted
<1>2. CASE read_cmd
  <2>1. PICK n \in 1..Len(net) :
          /\ \A k \in 1..dirty_len : line'[k] = line[k]
          /\ \A k \in (dirty_len + 1)..(dirty_len + n) : line'[k] = net[k - dirty_len]
          /\ dirty_len' = dirty_len + n
          /\ net' = SubSeq(net, n + 1, Len(net))
    BY <1>2, ReadQInv
  <2>2. Base = 0 /\ Base' = 0 /\ UNCHANGED <<command, count>>
    BY <1>2 DEF read_cmd, Base
  <2>3. net \in Seq(Bytes) /\ \A k \in 1..dirty_len : line[k] \in Bytes
    BY <1>b, <2>2 DEF Waiting
  <2>4. Rest(line', 0, dirty_len + n, SubSeq(net, n + 1, Len(net))) = Rest(line, 0, dirty_len, net)
    BY <1>c, <2>1, <2>3, RestReceived
  <2>5. Unexecuted' = Unexecuted
    BY <1>b, <2>1, <2>2, <2>4 DEF Waiting
  <2> QED
    BY <2>2, <2>5
<1>3. CASE Quit
  BY <1>3 DEF Quit, Unexecuted
<1>4. CASE parse_cmd
  <2>1. PICK e \in 1..dirty_len :
          /\ len' = e /\ line[e] = "NL" /\ \A j \in 1..(e - 1) : line[j] # "NL"
          /\ command' = Q!Parsed(Front(line, e - 1))
          /\ \A k \in (e + 1)..dirty_len : line'[k] = line[k]
          /\ pc' = "execute" /\ count' = count + 1 /\ UNCHANGED <<dirty_len, net>>
    BY <1>4, ParseStep
  <2>2. Base = 0 /\ Base' = e
    BY <1>4, <2>1 DEF parse_cmd, Base
  <2>3. Sound(line, 0, dirty_len, net) /\ e \in Nat /\ net \in Seq(Bytes)
    BY <1>b, <1>c, <2>2 DEF Waiting, Sound
  <2> DEFINE r == Rest(line, 0, dirty_len, net)
  <2>4. /\ e \in 1..Len(r) /\ \A k \in 1..e : r[k] = line[k]
        /\ SubSeq(r, 1, e - 1) = Front(line, e - 1)
        /\ Rest(line', e, dirty_len, net) = SubSeq(r, e + 1, Len(r))
    <3>1. Taken(r, line, e, Rest(line', e, dirty_len, net))
      BY <2>1, <2>3, RestTaken
    <3> HIDE DEF r
    <3> QED
      BY <3>1 DEF Taken
  <2>5. Unexecuted = r /\ Unexecuted' = Rest(line', e, dirty_len, net)
    BY <1>b, <2>1, <2>2 DEF Waiting
  <2> HIDE DEF r
  <2>6. /\ e \in 1..Len(Unexecuted) /\ Unexecuted[e] = "NL"
        /\ \A j \in 1..(e - 1) : Unexecuted[j] # "NL"
    <3>1. e \in 1..e /\ \A j \in 1..(e - 1) : j \in 1..e
      BY <1>c
    <3> QED
      BY <2>1, <2>4, <2>5, <3>1
  <2>7. /\ command' = Q!Parsed(SubSeq(Unexecuted, 1, e - 1))
        /\ Unexecuted' = SubSeq(Unexecuted, e + 1, Len(Unexecuted))
        /\ count' = count + 1
    BY <2>1, <2>4, <2>5
  <2> QED
    BY <2>6, <2>7 DEF Q!Next, Q!Take, Q!FirstAt, Q!Newline
<1>5. CASE remove_cmd
  <2>1. /\ len \in 1..dirty_len /\ Base = len /\ Base' = 0
        /\ dirty_len' = dirty_len - len /\ net' = net
        /\ \A k \in 1..(dirty_len - len) : line'[k] = line[len + k]
    BY <1>5, RemoveQInv
  <2>2. net \in Seq(Bytes) /\ len \in 0..dirty_len
    BY <1>b, <2>1 DEF Waiting
  <2>3. Rest(line', 0, dirty_len - len, net) = Rest(line, len, dirty_len, net)
    BY <1>c, <2>1, <2>2, RestMoved
  <2>4. Unexecuted' = Unexecuted
    BY <1>b, <2>1, <2>3 DEF Waiting
  <2> QED
    BY <1>5, <2>4 DEF remove_cmd
<1>6. CASE Leave
  BY <1>6 DEF Leave, Unexecuted
<1>7. ASSUME NEW c \in Bytes, Send(c) PROVE Q!Next
  <2>1. net' = Append(net, c) /\ UNCHANGED <<pc, line, dirty_len, len, command, count>>
    BY <1>7 DEF Send
  <2>2. Base' = Base
    BY <2>1 DEF Base
  <2>3. /\ net \in Seq(Bytes) /\ Base \in 0..dirty_len
        /\ \A k \in (Base + 1)..dirty_len : line[k] \in Bytes
    BY <1>b DEF Waiting
  <2>4. Rest(line, Base, dirty_len, Append(net, c)) = Append(Rest(line, Base, dirty_len, net), c)
    BY <1>c, <2>3, RestSent
  <2>5. Unexecuted' = Append(Unexecuted, c)
    BY <1>b, <2>1, <2>2, <2>4 DEF Waiting
  <2> QED
    BY <2>1, <2>5 DEF Q!Next, Q!Send
<1> QED
  BY <1>1, <1>2, <1>3, <1>4, <1>5, <1>6, <1>7 DEF Next

\* The commands that read_cmd, parse_cmd and remove_cmd hand to the session
\* are the lines that the client sent, each once and in order: for every size
\* of the buffer, however the bytes arrive, and whatever malloc() and earlier
\* commands left in the buffer.
THEOREM CommandBufferImplementsLineQueue == Spec => ImplementsLineQueue
  BY InitQInv, StepQInv, QueueInit, QueueStep, PTL DEF Spec, ImplementsLineQueue, Q!Spec

=============================================================================
