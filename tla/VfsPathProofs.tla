--------------------------- MODULE VfsPathProofs ---------------------------
(***************************************************************************)
(* Proofs about VfsPath, for every size of the buffer and every bound on   *)
(* the length of names.  The buffer stays in its bounds (first part); what *)
(* it holds at the end of a call is the canonical name of what the         *)
(* client's name means, and vfs_realpath gives up only if some name on the *)
(* way does not fit (the rest).                                            *)
(***************************************************************************)
EXTENDS VfsPath, Induction, SequenceTheorems, TLAPS

\* In front of dst the buffer holds characters of names only: this is what
\* makes dst the length of the C string, and so the new current directory
\* short enough.
NoNul == pc \in {"walk", "done"} => \A i \in 0..(dst - 1) : buf[i] \in Chars

\* The inductive invariant.
Inv == TypeOK /\ InBounds /\ NoNul

-----------------------------------------------------------------------------

\* An offset between the front and dst.
LEMMA Between ==
  ASSUME NEW d \in 1..(FTP_MAX_PATH - 1), NEW p \in 1..d
  PROVE  /\ p \in 1..(FTP_MAX_PATH - 1) /\ p \in 0..FTP_MAX_PATH /\ p \in Offsets
         /\ 0 \in Offsets /\ 0 < p
         /\ \A i \in 0..(p - 1) : i \in 0..(d - 1) /\ i \in Offsets /\ i < p
<1>1. FTP_MAX_PATH \in Nat
  BY PathAssumption
<1> QED
  BY <1>1 DEF Offsets

\* memcpy() of s to offset o keeps the buffer a buffer, puts s where it fits
\* and leaves the rest alone.
LEMMA WriteType ==
  ASSUME NEW b \in [Offsets -> Chars \cup {"NUL"}], NEW o \in Nat,
         NEW s \in Seq(Chars \cup {"NUL"})
  PROVE  /\ Write(b, o, s) \in [Offsets -> Chars \cup {"NUL"}]
         /\ \A i \in Offsets : i < o => Write(b, o, s)[i] = b[i]
         /\ \A i \in 1..Len(s) : o + i - 1 \in Offsets => Write(b, o, s)[o + i - 1] = s[i]
<1>1. \A i \in Offsets : i >= o /\ i < o + Len(s) => s[i - o + 1] \in Chars \cup {"NUL"}
  BY PathAssumption DEF Offsets
<1>2. Write(b, o, s) \in [Offsets -> Chars \cup {"NUL"}]
  BY <1>1 DEF Write
<1>3. \A i \in Offsets : i < o => Write(b, o, s)[i] = b[i]
  BY PathAssumption DEF Write, Offsets
<1>4. ASSUME NEW i \in 1..Len(s), o + i - 1 \in Offsets
      PROVE  Write(b, o, s)[o + i - 1] = s[i]
  <2>1. o + i - 1 >= o /\ o + i - 1 < o + Len(s) /\ (o + i - 1) - o + 1 = i
    OBVIOUS
  <2> QED
    BY <1>4, <2>1 DEF Write
<1> QED
  BY <1>2, <1>3, <1>4

\* A component of a name is a sequence of characters.
LEMMA ComponentType ==
  ASSUME path \in Seq(Chars), NEW b \in 1..(Len(path) + 1), NEW e \in 1..(Len(path) + 1),
         b <= e
  PROVE  /\ SubSeq(path, b, e - 1) \in Seq(Chars)
         /\ Len(SubSeq(path, b, e - 1)) = e - b
<1>1. e - 1 \in Int /\ e - 1 <= Len(path) /\ 1 <= b
  OBVIOUS
<1>2. \A i \in b..(e - 1) : path[i] \in Chars
  BY <1>1
<1> QED
  BY <1>1, <1>2

\* Every name that a client gives is a sequence of characters.
LEMMA NamesType == \A name \in Names : name \in Seq(Chars)
  BY PathAssumption DEF Names

\* The buffer up to offset n.
FrontOf(b, n) == [i \in 1..n |-> b[i - 1]]

\* At the end of a call the C string is what lies in front of dst.
LEMMA CStringIs ==
  ASSUME Inv, pc = "done"
  PROVE  CString = FrontOf(buf, dst)
<1>1. dst \in Offsets /\ buf[dst] = "NUL" /\ dst \in 1..(FTP_MAX_PATH - 1)
  BY PathAssumption DEF Inv, InBounds, Offsets
<1>2. \A i \in 0..(dst - 1) : buf[i] \in Chars /\ buf[i] # "NUL"
  BY PathAssumption DEF Inv, NoNul
<1> DEFINE Stops(n) == buf[n] = "NUL" /\ \A i \in 0..(n - 1) : buf[i] # "NUL"
<1>3. Stops(dst)
  BY <1>1, <1>2
<1>4. \A n \in Offsets : Stops(n) => n = dst
  <2> SUFFICES ASSUME NEW n \in Offsets, Stops(n) PROVE n = dst
    OBVIOUS
  <2>1. CASE n < dst
    BY <2>1, <1>1, <1>2, PathAssumption DEF Offsets
  <2>2. CASE n > dst
    BY <2>2, <1>1, PathAssumption DEF Offsets
  <2> QED
    BY <2>1, <2>2, <1>1, PathAssumption DEF Offsets
<1>5. (CHOOSE n \in Offsets : Stops(n)) = dst
  BY <1>1, <1>3, <1>4
<1> QED
  BY <1>5 DEF CString, FrontOf

\* It is a name as long as dst says, and begins with what the buffer begins with.
LEMMA CStringIsFront ==
  ASSUME Inv, pc = "done"
  PROVE  CString \in Seq(Chars) /\ Len(CString) = dst /\ CString[1] = buf[0]
<1>1. dst \in 1..(FTP_MAX_PATH - 1)
  BY DEF Inv, InBounds
<1>2. \A i \in 0..(dst - 1) : buf[i] \in Chars
  BY DEF Inv, NoNul
<1>3. \A i \in 1..dst : buf[i - 1] \in Chars
  BY <1>1, <1>2, PathAssumption
<1>4. CString = [i \in 1..dst |-> buf[i - 1]]
  BY CStringIs DEF FrontOf
<1> QED
  BY <1>1, <1>3, <1>4, PathAssumption

-----------------------------------------------------------------------------

\* The invariant holds when the session's buffer has been set up.
LEMMA InitInv == Init => Inv
<1> SUFFICES ASSUME Init PROVE Inv
  OBVIOUS
<1>1. 0 \in Offsets
  BY PathAssumption DEF Offsets
<1> QED
  BY <1>1, PathAssumption DEF Init, Inv, TypeOK, InBounds, NoNul

\* A call puts the root, or the current directory, in front of dst.
LEMMA CallInv == ASSUME Inv, NEW name \in Names, Call(name) PROVE Inv'
<1> USE DEF Inv
<1>1. name \in Seq(Chars)
  BY NamesType
<1>2. pc' = "walk" /\ cwd' = cwd /\ path' = name /\ start' = 1
  BY DEF Call
<1>3. CASE name # <<>> /\ name[1] = "/"
  <2>1. buf' = [buf EXCEPT ![0] = "/"] /\ dst' = 1
    BY <1>3 DEF Call
  <2>2. 0 \in Offsets
    BY PathAssumption DEF Offsets
  <2>3. buf' \in [Offsets -> Chars \cup {"NUL"}] /\ buf'[0] = "/"
    BY <2>1, <2>2, PathAssumption DEF TypeOK
  <2> QED
    BY <1>1, <1>2, <2>1, <2>3, PathAssumption DEF TypeOK, InBounds, NoNul
<1>4. CASE ~(name # <<>> /\ name[1] = "/")
  <2> DEFINE s == Append(cwd, "NUL")
  <2>1. buf' = Write(buf, 0, s) /\ dst' = Len(cwd)
    BY <1>4 DEF Call
  <2>2. /\ cwd \in Seq(Chars) /\ Len(cwd) \in 1..(FTP_MAX_PATH - 1)
        /\ buf \in [Offsets -> Chars \cup {"NUL"}]
    BY PathAssumption DEF TypeOK, InBounds
  <2>3. s \in Seq(Chars \cup {"NUL"}) /\ Len(s) = Len(cwd) + 1
    BY <2>2
  <2>4. \A i \in 1..Len(cwd) : s[i] = cwd[i]
    BY <2>2
  <2> HIDE DEF s
  <2>5. /\ buf' \in [Offsets -> Chars \cup {"NUL"}]
        /\ \A i \in 1..Len(s) : 0 + i - 1 \in Offsets => buf'[0 + i - 1] = s[i]
    BY <2>1, <2>2, <2>3, WriteType
  <2>6. \A i \in 0..(Len(cwd) - 1) : buf'[i] = cwd[i + 1]
    <3> SUFFICES ASSUME NEW i \in 0..(Len(cwd) - 1) PROVE buf'[i] = cwd[i + 1]
      OBVIOUS
    <3>1. i + 1 \in 1..Len(s) /\ i + 1 \in 1..Len(cwd) /\ 0 + (i + 1) - 1 = i /\ i \in Offsets
      BY <2>2, <2>3, PathAssumption DEF Offsets
    <3> QED
      BY <2>4, <2>5, <3>1
  <2>7. cwd[1] = "/"
    BY DEF InBounds
  <2>8. buf'[0] = "/"
    BY <2>2, <2>6, <2>7
  <2> QED
    BY <1>1, <1>2, <2>1, <2>2, <2>5, <2>6, <2>8, PathAssumption DEF TypeOK, InBounds, NoNul
<1> QED
  BY <1>3, <1>4

\* A round of the loop keeps dst inside the buffer: it moves back to a
\* separator, or forward over a name for which there is room.
LEMMA WalkInv == ASSUME Inv, Walk PROVE Inv'
<1> USE DEF Inv
<1>0. FTP_MAX_PATH \in Nat /\ FTP_MAX_PATH > 1 /\ dst \in 1..(FTP_MAX_PATH - 1)
  BY PathAssumption DEF Walk, InBounds
<1>1. PICK b, e \in 1..(Len(path) + 1) :
        LET name == SubSeq(path, b, e - 1)
            slash == Separator(dst)
            behind == dst + Len(slash)
        IN  /\ Component(b, e)
            /\ start' = e
            /\ \/ /\ name \in {<<>>, <<".">>}
                  /\ UNCHANGED <<pc, buf, dst>>
               \/ /\ name = <<".", ".">>
                  /\ \E p \in 1..dst : Parent(p) /\ dst' = p
                  /\ UNCHANGED <<pc, buf>>
               \/ /\ name \notin {<<>>, <<".">>, <<".", ".">>}
                  /\ IF Overflows(behind, name)
                     THEN /\ pc' = "toolong"
                          /\ buf' = Write(buf, dst, slash)
                          /\ dst' = behind
                     ELSE /\ buf' = Write(buf, dst, slash \o name \o <<"NUL">>)
                          /\ dst' = behind + Len(name)
                          /\ UNCHANGED pc
  BY DEF Walk
<1> DEFINE name == SubSeq(path, b, e - 1)
           slash == Separator(dst)
           behind == dst + Len(slash)
<1>2. /\ pc = "walk" /\ cwd' = cwd /\ path' = path /\ path \in Seq(Chars)
      /\ dst \in 1..(FTP_MAX_PATH - 1) /\ start' = e
      /\ buf \in [Offsets -> Chars \cup {"NUL"}] /\ buf[0] = "/"
      /\ \A i \in 0..(dst - 1) : buf[i] \in Chars
  BY <1>1 DEF Walk, TypeOK, InBounds, NoNul
<1>3. b <= e
  BY <1>1 DEF Component
<1>4. name \in Seq(Chars) /\ Len(name) \in Nat
  BY <1>2, <1>3, ComponentType
<1>5. slash \in Seq(Chars) /\ Len(slash) \in 0..1
  BY PathAssumption DEF Separator
<1>6. start' \in 1..(Len(path') + 1)
  BY <1>2
<1>7. CASE name \in {<<>>, <<".">>} /\ UNCHANGED <<pc, buf, dst>>
  BY <1>2, <1>6, <1>7 DEF TypeOK, InBounds, NoNul
<1>8. CASE (\E p \in 1..dst : Parent(p) /\ dst' = p) /\ UNCHANGED <<pc, buf>>
  <2>1. dst' \in 1..dst /\ buf' = buf /\ pc' = pc
    BY <1>8
  <2>2. dst' \in 1..(FTP_MAX_PATH - 1) /\ dst' \in 0..FTP_MAX_PATH
    BY <1>0, <2>1, Between
  <2>3. \A i \in 0..(dst' - 1) : buf[i] \in Chars
    BY <1>0, <1>2, <2>1, Between
  <2>4. TypeOK' /\ InBounds'
    BY <1>2, <1>6, <2>1, <2>2 DEF TypeOK, InBounds
  <2> QED
    BY <2>1, <2>3, <2>4 DEF NoNul
<1> HIDE DEF name, slash, behind
<1>9. CASE Overflows(behind, name) /\ pc' = "toolong" /\ buf' = Write(buf, dst, slash)
             /\ dst' = behind
  <2>1. slash \in Seq(Chars \cup {"NUL"}) /\ dst \in Nat
    BY <1>2, <1>5
  <2>2. buf' \in [Offsets -> Chars \cup {"NUL"}] /\ \A i \in Offsets : i < dst => buf'[i] = buf[i]
    BY <1>2, <1>9, <2>1, WriteType
  <2>3. buf'[0] = "/"
    BY <1>2, <2>2, PathAssumption DEF Offsets
  <2>4. dst' \in 0..FTP_MAX_PATH
    <3>1. dst' = dst + Len(slash)
      BY <1>9 DEF behind
    <3>2. Len(slash) = 0 \/ Len(slash) = 1
      BY <1>5
    <3>3. dst' = dst \/ dst' = dst + 1
      <4>1. CASE Len(slash) = 0
        <5>1. dst' = dst + 0
          BY <3>1, <4>1, Zenon
        <5> QED
          BY <1>0, <5>1
      <4>2. CASE Len(slash) = 1
        BY <3>1, <4>2, Zenon
      <4> QED
        BY <3>2, <4>1, <4>2, Zenon
    <3> QED
      BY <1>0, <3>3
  <2> QED
    BY <1>2, <1>6, <1>9, <2>2, <2>3, <2>4 DEF TypeOK, InBounds, NoNul
<1>10. CASE ~Overflows(behind, name) /\ buf' = Write(buf, dst, slash \o name \o <<"NUL">>)
              /\ dst' = behind + Len(name) /\ pc' = pc
  <2> DEFINE s == slash \o name \o <<"NUL">>
  <2>1. s \in Seq(Chars \cup {"NUL"}) /\ Len(s) = Len(slash) + Len(name) + 1
    BY <1>4, <1>5
  <2>2. \A i \in 1..(Len(slash) + Len(name)) : s[i] \in Chars
    <3>1. \A i \in 1..(Len(slash) + Len(name)) :
            s[i] = IF i <= Len(slash) THEN slash[i] ELSE name[i - Len(slash)]
      BY <1>4, <1>5
    <3>2. \A i \in 1..Len(slash) : slash[i] \in Chars
      BY <1>5
    <3>3. \A i \in 1..Len(name) : name[i] \in Chars
      BY <1>4
    <3> HIDE DEF s
    <3> QED
      BY <1>4, <1>5, <3>1, <3>2, <3>3, SMTT(30)
  <2> HIDE DEF s
  <2>3. dst' = dst + Len(slash) + Len(name) /\ dst' < FTP_MAX_PATH /\ dst' >= dst
    BY <1>2, <1>4, <1>5, <1>10, PathAssumption DEF Overflows, behind
  <2>4. buf' = Write(buf, dst, s) /\ dst \in Nat
    BY <1>2, <1>10 DEF s
  <2>5. /\ buf' \in [Offsets -> Chars \cup {"NUL"}]
        /\ \A i \in Offsets : i < dst => buf'[i] = buf[i]
        /\ \A i \in 1..Len(s) : dst + i - 1 \in Offsets => buf'[dst + i - 1] = s[i]
    BY <1>2, <2>1, <2>4, WriteType
  <2>6. buf'[0] = "/"
    BY <1>2, <2>5, PathAssumption DEF Offsets
  <2>7. ASSUME NEW i \in 0..(dst' - 1) PROVE buf'[i] \in Chars
    <3>1. i \in Offsets
      BY <1>2, <1>4, <1>5, <2>3, PathAssumption DEF Offsets
    <3>2. CASE i < dst
      BY <1>2, <2>5, <3>1, <3>2
    <3>3. CASE i >= dst
      <4>1. /\ i - dst + 1 \in 1..(Len(slash) + Len(name)) /\ i - dst + 1 \in 1..Len(s)
            /\ dst + (i - dst + 1) - 1 = i
        BY <1>2, <1>4, <1>5, <2>1, <2>3, <3>3
      <4> QED
        BY <2>2, <2>5, <3>1, <4>1
    <3> QED
      BY <1>2, <3>2, <3>3
  <2>8. dst' \in 1..(FTP_MAX_PATH - 1)
    BY <1>2, <1>4, <1>5, <2>3, PathAssumption
  <2> QED
    BY <1>2, <1>6, <1>10, <2>5, <2>6, <2>7, <2>8, PathAssumption DEF TypeOK, InBounds, NoNul
<1> QED
  BY <1>1, <1>7, <1>8, <1>9, <1>10 DEF name, slash, behind

\* Behind the loop the NUL goes to dst, or to the separator before it.
LEMMA FinishInv == ASSUME Inv, Finish PROVE Inv'
<1> USE DEF Inv
<1>1. /\ pc = "walk" /\ pc' = "done" /\ cwd' = cwd /\ path' = path /\ start' = start
      /\ dst \in 1..(FTP_MAX_PATH - 1) /\ buf \in [Offsets -> Chars \cup {"NUL"}]
      /\ buf[0] = "/" /\ \A i \in 0..(dst - 1) : buf[i] \in Chars
      /\ buf' = [buf EXCEPT ![dst'] = "NUL"]
  BY DEF Finish, TypeOK, InBounds, NoNul
<1>2. dst' \in 1..dst
  BY <1>1 DEF Finish
<1>3. dst' \in Offsets /\ dst' \in 1..(FTP_MAX_PATH - 1)
  BY <1>1, <1>2, PathAssumption DEF Offsets
<1>4. buf' \in [Offsets -> Chars \cup {"NUL"}] /\ buf'[dst'] = "NUL"
  BY <1>1, <1>3
<1>5. \A i \in Offsets : i < dst' => buf'[i] = buf[i]
  BY <1>1, <1>3, PathAssumption DEF Offsets
<1>0. FTP_MAX_PATH \in Nat /\ FTP_MAX_PATH > 1 /\ dst \in 1..(FTP_MAX_PATH - 1)
  BY <1>1, PathAssumption
<1>6. 0 \in Offsets /\ 0 < dst' /\ \A i \in 0..(dst' - 1) :
                                   i \in Offsets /\ i < dst' /\ i \in 0..(dst - 1)
  BY <1>0, <1>2, Between
<1>7. buf'[0] = "/"
  BY <1>1, <1>5, <1>6
<1>8. \A i \in 0..(dst' - 1) : buf'[i] \in Chars
  BY <1>1, <1>5, <1>6
<1>9. TypeOK' /\ InBounds'
  <2>1. dst' \in 0..FTP_MAX_PATH
    BY <1>3, PathAssumption
  <2> QED
    BY <1>1, <1>3, <1>4, <1>7, <2>1 DEF TypeOK, InBounds
<1> QED
  BY <1>1, <1>8, <1>9 DEF NoNul

\* vfs_chdir takes over a name that fits and starts with a separator.
LEMMA ChdirInv == ASSUME Inv, vfs_chdir PROVE Inv'
<1>1. CString \in Seq(Chars) /\ Len(CString) = dst /\ CString[1] = buf[0]
  BY CStringIsFront DEF vfs_chdir
<1>2. /\ pc = "done" /\ pc' = "idle" /\ cwd' = CString /\ path' = <<>> /\ start' = 1
      /\ buf' = buf /\ dst' = dst
  BY DEF vfs_chdir
<1>3. dst \in 1..(FTP_MAX_PATH - 1) /\ buf[0] = "/"
  BY <1>2 DEF Inv, InBounds
<1>4. cwd' \in Seq(Chars) /\ cwd' # <<>> /\ cwd'[1] = "/" /\ Len(cwd') < FTP_MAX_PATH
  BY <1>1, <1>2, <1>3, PathAssumption
<1>5. path' \in Seq(Chars) /\ start' \in 1..(Len(path') + 1)
  BY <1>2
<1> QED
  BY <1>2, <1>3, <1>4, <1>5 DEF Inv, TypeOK, InBounds, NoNul

\* Every step keeps the invariant.
LEMMA StepInv == Inv /\ [Next]_vars => Inv'
<1> SUFFICES ASSUME Inv, [Next]_vars PROVE Inv'
  OBVIOUS
<1>1. CASE UNCHANGED vars
  BY <1>1 DEF vars, Inv, TypeOK, InBounds, NoNul
<1>2. CASE Use
  <2>1. path' \in Seq(Chars) /\ start' \in 1..(Len(path') + 1)
    BY <1>2 DEF Use
  <2> QED
    BY <1>2, <2>1 DEF Use, Inv, TypeOK, InBounds, NoNul
<1> QED
  BY <1>1, <1>2, WalkInv, FinishInv, ChdirInv, CallInv DEF Next

-----------------------------------------------------------------------------

\* The inductive invariant holds in every state.
THEOREM VfsPathInvariant == Spec => []Inv
  BY InitInv, StepInv, PTL DEF Spec

\* Type correctness of the virtual file system's names.
THEOREM VfsPathTypes == Spec => []TypeOK
<1>1. Inv => TypeOK
  BY DEF Inv
<1> QED
  BY <1>1, VfsPathInvariant, PTL

\* Whatever names clients give, and in whichever order, vfs_realpath stays
\* inside its buffer and never searches for a parent beyond its front.
THEOREM VfsPathInBounds == Spec => []InBounds
<1>1. Inv => InBounds
  BY DEF Inv
<1> QED
  BY <1>1, VfsPathInvariant, PTL

-----------------------------------------------------------------------------
(***************************************************************************)
(* Where a name leads to.                                                  *)
(***************************************************************************)

\* Directories, as the names that lead to them from the root.
Dirs == Seq(Seq(Chars))

\* A component leads from a directory to a directory.
LEMMA EnterType ==
  ASSUME NEW d \in Dirs, NEW name \in Seq(Chars)
  PROVE  Enter(d, name) \in Dirs
<1>1. d # <<>> => SubSeq(d, 1, Len(d) - 1) \in Dirs
  BY EmptySeq DEF Dirs
<1>2. Append(d, name) \in Dirs
  BY DEF Dirs
<1> QED
  BY <1>1, <1>2 DEF Enter

\* The b-th character of s begins the component that the i-th one ends.
Begins(s, b, i) ==
  /\ b \in 1..i
  /\ b = 1 \/ s[b - 1] = "/"
  /\ \A j \in b..i : s[j] # "/"

\* A component has one beginning.
LEMMA BeginsOnce ==
  ASSUME NEW s, NEW i \in Nat, NEW b, NEW c, Begins(s, b, i), Begins(s, c, i)
  PROVE  b = c
<1>1. b \in 1..i /\ c \in 1..i
  BY DEF Begins
<1>2. CASE b < c
  <2>1. c - 1 \in b..i /\ c # 1
    BY <1>1, <1>2
  <2> QED
    BY <2>1 DEF Begins
<1>3. CASE c < b
  <2>1. b - 1 \in c..i /\ b # 1
    BY <1>1, <1>3
  <2> QED
    BY <2>1 DEF Begins
<1> QED
  BY <1>1, <1>2, <1>3

\* The component that ends at the i-th character.
LEMMA ComponentToIs ==
  ASSUME NEW s \in Seq(Chars), NEW i \in 1..Len(s), NEW b, Begins(s, b, i)
  PROVE  ComponentTo(s, i) = SubSeq(s, b, i)
<1>1. b \in 1..i /\ i \in Nat
  BY DEF Begins
<1>2. \A k \in 1..i : Begins(s, k, i) => k = b
  BY <1>1, BeginsOnce
<1> DEFINE P(k) == (k = 1 \/ s[k - 1] = "/") /\ \A j \in k..i : s[j] # "/"
<1>3. P(b) /\ \A k \in 1..i : P(k) => k = b
  BY <1>2 DEF Begins
<1>4. (CHOOSE k \in 1..i : P(k)) = b
  <2> HIDE DEF P
  <2> QED
    BY <1>1, <1>3
<1> QED
  BY <1>4 DEF ComponentTo

\* Every character that is not a separator belongs to a component.
LEMMA SomeBegin ==
  ASSUME NEW s \in Seq(Chars), NEW i \in 1..Len(s), s[i] # "/"
  PROVE  \E b \in 1..i : Begins(s, b, i)
<1> DEFINE S == {k \in 1..i : \A j \in k..i : s[j] # "/"}
<1>1. i \in S /\ S \subseteq Nat
  OBVIOUS
<1>2. PICK b \in S : \A k \in S : b <= k
  BY <1>1, LeastNatural
<1>3. b = 1 \/ s[b - 1] = "/"
  <2> SUFFICES ASSUME b # 1, s[b - 1] # "/" PROVE FALSE
    OBVIOUS
  <2>1. b - 1 \in 1..i /\ b \in 1..i
    OBVIOUS
  <2>2. ASSUME NEW j \in (b - 1)..i PROVE s[j] # "/"
    <3>1. j = b - 1 \/ j \in b..i
      BY <2>1
    <3> QED
      BY <3>1
  <2>3. b - 1 \in S
    BY <2>1, <2>2
  <2> QED
    BY <1>2, <2>1, <2>3
<1> QED
  BY <1>3 DEF Begins

\* The i-th character of s ends a component.
Ends(s, i) == s[i] # "/" /\ (i = Len(s) \/ s[i + 1] = "/")

\* The directory behind the i-th character of s.
Turn(s, i, d) == IF Ends(s, i) THEN Enter(d, ComponentTo(s, i)) ELSE d

\* Each character leads from a directory to a directory.
LEMMA TurnType ==
  ASSUME NEW s \in Seq(Chars), NEW i \in 1..Len(s), NEW d \in Dirs
  PROVE  Turn(s, i, d) \in Dirs
<1>1. CASE Ends(s, i)
  <2>1. PICK b \in 1..i : Begins(s, b, i)
    BY <1>1, SomeBegin DEF Ends
  <2>2. ComponentTo(s, i) = SubSeq(s, b, i)
    BY <2>1, ComponentToIs
  <2>3. SubSeq(s, b, i) \in Seq(Chars)
    OBVIOUS
  <2> QED
    BY <1>1, <2>2, <2>3, EnterType DEF Turn
<1>2. CASE ~Ends(s, i)
  BY <1>2 DEF Turn
<1> QED
  BY <1>1, <1>2

\* The recursive definition of Leads has a meaning.
LEMMA LeadsIs ==
  ASSUME NEW base \in Dirs, NEW s \in Seq(Chars)
  PROVE  /\ Leads(base, s) \in [0..Len(s) -> Dirs]
         /\ Leads(base, s)[0] = base
         /\ \A k \in 1..Len(s) : Leads(base, s)[k] = Turn(s, k, Leads(base, s)[k - 1])
<1> DEFINE n == Len(s)
           F(g) == [k \in 0..n |-> IF k = 0 THEN base ELSE Turn(s, k, g[k - 1])]
           step == [k \in 1..n |-> [d \in Dirs |-> Turn(s, k, d)]]
<1>1. n \in Nat
  OBVIOUS
<1>2. \A k \in 1..n, d \in Dirs : Turn(s, k, d) \in Dirs
  BY TurnType
<1>3. step \in [1..n -> [Dirs -> Dirs]]
  BY <1>2
<1>4. Leads(base, s) = CHOOSE h : h = F(h)
  BY DEF Leads, Turn, Ends
<1> HIDE DEF n, step
<1>5. PICK g \in [0..n -> Dirs] : g[0] = base /\ \A k \in 1..n : g[k] = step[k][g[k - 1]]
  <2>1. step \in Steps(n, Dirs)
    BY <1>3 DEF Steps
  <2>2. PICK g : Counted(g, n, Dirs, base, step)
    BY <1>1, <2>1, CountUp
  <2> QED
    BY <2>2 DEF Counted
<1>6. \A k \in 1..n : g[k] = Turn(s, k, g[k - 1])
  <2>1. ASSUME NEW k \in 1..n PROVE k - 1 \in 0..n
    BY <1>1
  <2>2. \A k \in 1..n : g[k - 1] \in Dirs
    BY <2>1
  <2> QED
    BY <1>5, <2>2 DEF step
<1>7. g = F(g)
  <2>1. ASSUME NEW k \in 0..n PROVE g[k] = IF k = 0 THEN base ELSE Turn(s, k, g[k - 1])
    <3>1. k = 0 \/ k \in 1..n
      BY <1>1
    <3> QED
      BY <1>5, <1>6, <3>1
  <2> QED
    BY <2>1
<1> DEFINE h == Leads(base, s)
<1>8. h = F(h)
  <2> HIDE DEF F
  <2> QED
    BY <1>4, <1>7
<1> HIDE DEF h
<1>9. h[0] = base /\ \A k \in 1..n : h[k] = Turn(s, k, h[k - 1])
  <2>1. 0 \in 0..n
    BY <1>1
  <2>2. h[0] = base
    BY <1>8, <2>1
  <2>3. ASSUME NEW k \in 1..n PROVE h[k] = Turn(s, k, h[k - 1])
    <3>1. k \in 0..n /\ k # 0
      BY <1>1
    <3> QED
      BY <1>8, <3>1
  <2> QED
    BY <2>2, <2>3
<1> DEFINE S == {m \in Nat : m \in 0..n => h[m] \in Dirs}
<1>10. 0 \in S
  BY <1>9
<1>11. ASSUME NEW m \in Nat, m \in S PROVE m + 1 \in S
  <2> SUFFICES ASSUME m + 1 \in 0..n PROVE h[m + 1] \in Dirs
    OBVIOUS
  <2>1. m \in 0..n /\ m + 1 \in 1..n /\ (m + 1) - 1 = m
    BY <1>1
  <2>2. h[m] \in Dirs
    BY <1>11, <2>1
  <2> QED
    BY <1>2, <1>9, <2>1, <2>2
<1>12. \A m \in Nat : m \in S
  <2> HIDE DEF S
  <2> QED
    BY <1>10, <1>11, Induct
<1>13. h \in [0..n -> Dirs]
  <2>1. \A m \in 0..n : h[m] \in Dirs
    BY <1>1, <1>12
  <2>2. h = [m \in 0..n |-> h[m]]
    BY <1>8
  <2> QED
    BY <2>1, <2>2
<1> QED
  BY <1>9, <1>13 DEF h, n

\* The walk through s is not inside a component.
AtBreak(s, from) == from = 1 \/ from > Len(s) \/ s[from] = "/"

\* Component, for any name.
ComponentOf(s, from, b, e) ==
  /\ b \in from..(Len(s) + 1) /\ e \in b..(Len(s) + 1)
  /\ \A i \in from..(b - 1) : s[i] = "/"
  /\ \A i \in b..(e - 1) : s[i] # "/"
  /\ b <= Len(s) => s[b] # "/"
  /\ e <= Len(s) => s[e] = "/"

\* As long as no component ends, a name leads to one directory.
LEMMA SameDirectory ==
  ASSUME NEW base \in Dirs, NEW s \in Seq(Chars), NEW from \in 0..Len(s),
         NEW to \in 0..Len(s), \A i \in (from + 1)..to : ~Ends(s, i),
         NEW k \in from..to
  PROVE  Leads(base, s)[k] = Leads(base, s)[from]
<1> DEFINE L == Leads(base, s)
           S == {m \in Nat : from + m <= to => L[from + m] = L[from]}
<1>1. \A i \in 1..Len(s) : L[i] = Turn(s, i, L[i - 1])
  BY LeadsIs
<1> HIDE DEF L
<1>2. 0 \in S
  OBVIOUS
<1>3. ASSUME NEW m \in Nat, m \in S PROVE m + 1 \in S
  <2> SUFFICES ASSUME from + (m + 1) <= to PROVE L[from + (m + 1)] = L[from]
    OBVIOUS
  <2> DEFINE i == from + (m + 1)
  <2>1. /\ i \in 1..Len(s) /\ i \in (from + 1)..to /\ i - 1 = from + m
        /\ from + m <= to
    OBVIOUS
  <2>2. L[from + m] = L[from]
    BY <1>3, <2>1
  <2> HIDE DEF i
  <2>3. L[i] = L[i - 1]
    BY <1>1, <2>1 DEF Turn
  <2> QED
    BY <2>1, <2>2, <2>3 DEF i
<1>4. \A m \in Nat : m \in S
  <2> HIDE DEF S
  <2> QED
    BY <1>2, <1>3, Induct
<1>5. k - from \in Nat /\ from + (k - from) = k /\ k <= to
  OBVIOUS
<1>6. from + (k - from) <= to => L[from + (k - from)] = L[from]
  BY <1>4, <1>5
<1>7. L[k] = L[from]
  BY <1>5, <1>6, Zenon
<1> QED
  BY <1>7 DEF L

\* A component leads from where the one before it led to.
LEMMA OneComponent ==
  ASSUME NEW base \in Dirs, NEW s \in Seq(Chars), NEW from \in 1..(Len(s) + 1),
         AtBreak(s, from), NEW b, NEW e, ComponentOf(s, from, b, e), from <= Len(s)
  PROVE  /\ AtBreak(s, e) /\ e \in (from + 1)..(Len(s) + 1) /\ b \in from..e
         /\ \A i \in (from - 1)..(e - 2) :
              Leads(base, s)[i] = Leads(base, s)[from - 1]
         /\ b = e => Leads(base, s)[e - 1] = Leads(base, s)[from - 1]
         /\ b < e => Leads(base, s)[e - 1]
                       = Enter(Leads(base, s)[from - 1], SubSeq(s, b, e - 1))
<1> DEFINE L == Leads(base, s)
<1>1. /\ b \in from..(Len(s) + 1) /\ e \in b..(Len(s) + 1)
      /\ \A i \in from..(b - 1) : s[i] = "/"
      /\ \A i \in b..(e - 1) : s[i] # "/"
      /\ b <= Len(s) => s[b] # "/"
      /\ e <= Len(s) => s[e] = "/"
      /\ Len(s) \in Nat
  BY DEF ComponentOf
<1>2. b \in Nat /\ e \in Nat /\ from \in Nat /\ from <= b /\ b <= e /\ e <= Len(s) + 1
  BY <1>1
<1>3. from < e
  BY <1>1, <1>2
<1>4. AtBreak(s, e)
  BY <1>1, <1>2 DEF AtBreak
<1>5. CASE b = e
  <2>1. e = Len(s) + 1
    BY <1>1, <1>2, <1>5
  <2>2. \A i \in ((from - 1) + 1)..(e - 1) : ~Ends(s, i)
    BY <1>1, <1>2, <1>5 DEF Ends
  <2>3. from - 1 \in 0..Len(s) /\ e - 1 \in 0..Len(s)
    BY <1>2
  <2>4. \A i \in (from - 1)..(e - 1) : L[i] = L[from - 1]
    BY <2>2, <2>3, SameDirectory
  <2>5. e - 1 \in (from - 1)..(e - 1) /\ \A i \in (from - 1)..(e - 2) : i \in (from - 1)..(e - 1)
    BY <1>2
  <2>6. L[e - 1] = L[from - 1] /\ \A i \in (from - 1)..(e - 2) : L[i] = L[from - 1]
    BY <2>4, <2>5
  <2> QED
    BY <1>2, <1>3, <1>4, <1>5, <2>6
<1>6. CASE b < e
  <2>1. \A i \in ((from - 1) + 1)..(e - 2) : ~Ends(s, i)
    <3> SUFFICES ASSUME NEW i \in from..(e - 2), Ends(s, i) PROVE FALSE
      BY <1>2
    <3>1. s[i] # "/" /\ (i = Len(s) \/ s[i + 1] = "/")
      BY DEF Ends
    <3>2. i >= b
      BY <1>1, <1>2, <3>1
    <3>3. i + 1 \in b..(e - 1) /\ i # Len(s)
      BY <1>2, <3>2
    <3> QED
      BY <1>1, <3>1, <3>3
  <2>2. from - 1 \in 0..Len(s) /\ e - 2 \in 0..Len(s) /\ e - 1 \in 1..Len(s)
    BY <1>2, <1>3, <1>6
  <2>3. \A i \in (from - 1)..(e - 2) : L[i] = L[from - 1]
    BY <2>1, <2>2, SameDirectory
  <2>4. L[e - 2] = L[from - 1]
    <3>1. e - 2 \in (from - 1)..(e - 2)
      BY <1>2, <1>3
    <3> QED
      BY <2>3, <3>1
  <2>5. Ends(s, e - 1)
    <3>1. e - 1 \in b..(e - 1) /\ (e - 1) + 1 = e
      BY <1>2, <1>6
    <3>2. e - 1 = Len(s) \/ s[e] = "/"
      BY <1>1, <1>2
    <3> QED
      BY <1>1, <3>1, <3>2 DEF Ends
  <2>6. Begins(s, b, e - 1)
    <3>1. b \in 1..(e - 1)
      BY <1>2, <1>6
    <3>2. b = 1 \/ s[b - 1] = "/"
      <4>1. CASE b = from
        <5>1. b <= Len(s) /\ s[b] # "/"
          BY <1>1, <1>2, <1>6
        <5> QED
          BY <1>2, <4>1, <5>1 DEF AtBreak
      <4>2. CASE b # from
        <5>1. b - 1 \in from..(b - 1)
          BY <1>2, <4>2
        <5> QED
          BY <1>1, <5>1
      <4> QED
        BY <4>1, <4>2
    <3> QED
      BY <1>1, <3>1, <3>2 DEF Begins
  <2>7. ComponentTo(s, e - 1) = SubSeq(s, b, e - 1)
    BY <2>2, <2>6, ComponentToIs
  <2>8. L[e - 1] = Turn(s, e - 1, L[(e - 1) - 1])
    BY <2>2, LeadsIs
  <2>9. (e - 1) - 1 = e - 2
    BY <1>2
  <2>10. L[e - 1] = Enter(L[from - 1], SubSeq(s, b, e - 1))
    BY <2>4, <2>5, <2>7, <2>8, <2>9 DEF Turn
  <2> QED
    BY <1>2, <1>3, <1>4, <1>6, <2>3, <2>10
<1> QED
  BY <1>2, <1>5, <1>6

-----------------------------------------------------------------------------
(***************************************************************************)
(* Canonical names.                                                        *)
(***************************************************************************)

\* t has the names of the directories on the way to d.
IsText(t, d) ==
  /\ t \in [0..Len(d) -> Seq(Chars)] /\ t[0] = <<>>
  /\ \A k \in 1..Len(d) : t[k] = t[k - 1] \o <<"/">> \o d[k]

\* The recursive definition of Text has a meaning.
LEMMA TextIs ==
  ASSUME NEW d \in Dirs, NEW t, IsText(t, d)
  PROVE  Text(d) = IF d = <<>> THEN <<"/">> ELSE t[Len(d)]
<1> DEFINE n == Len(d)
           F(g) == [i \in 0..n |-> IF i = 0 THEN <<>> ELSE g[i - 1] \o <<"/">> \o d[i]]
           h == CHOOSE g : g = F(g)
<1>1. n \in Nat
  BY DEF Dirs
<1>2. Text(d) = IF d = <<>> THEN <<"/">> ELSE h[n]
  BY DEF Text
<1> HIDE DEF n
<1>3. /\ t \in [0..n -> Seq(Chars)] /\ t[0] = <<>>
      /\ \A k \in 1..n : t[k] = t[k - 1] \o <<"/">> \o d[k]
  BY DEF IsText, n
<1>4. t = F(t)
  <2>1. ASSUME NEW i \in 0..n
        PROVE  t[i] = IF i = 0 THEN <<>> ELSE t[i - 1] \o <<"/">> \o d[i]
    <3>1. i = 0 \/ i \in 1..n
      BY <1>1
    <3> QED
      BY <1>3, <3>1
  <2> QED
    BY <1>3, <2>1
<1>5. h = F(h)
  <2> HIDE DEF F
  <2> QED
    BY <1>4
<1> HIDE DEF h
<1> DEFINE S == {m \in Nat : m \in 0..n => h[m] = t[m]}
<1>6. 0 \in S
  BY <1>1, <1>3, <1>5
<1>7. ASSUME NEW m \in Nat, m \in S PROVE m + 1 \in S
  <2> SUFFICES ASSUME m + 1 \in 0..n PROVE h[m + 1] = t[m + 1]
    OBVIOUS
  <2>1. m \in 0..n /\ m + 1 \in 1..n /\ (m + 1) - 1 = m /\ m + 1 # 0
    BY <1>1
  <2>2. h[m] = t[m]
    BY <1>7, <2>1
  <2>3. h[m + 1] = h[(m + 1) - 1] \o <<"/">> \o d[m + 1]
    BY <1>5, <2>1
  <2>4. t[m + 1] = t[(m + 1) - 1] \o <<"/">> \o d[m + 1]
    BY <1>3, <2>1
  <2> QED
    BY <2>1, <2>2, <2>3, <2>4
<1>8. n \in S
  <2> HIDE DEF S
  <2> QED
    BY <1>1, <1>6, <1>7, Induct
<1>9. h[n] = t[n]
  BY <1>1, <1>8
<1> QED
  BY <1>2, <1>9 DEF n

\* A name that stands for itself.
IsName(name) ==
  /\ name \in Seq(Chars) /\ name \notin {<<>>, <<".">>, <<".", ".">>}
  /\ \A j \in 1..Len(name) : name[j] # "/"

\* All names that lead to d stand for themselves.
Proper(d) == d \in Dirs /\ \A k \in 1..Len(d) : IsName(d[k])

\* front is the canonical name of d, or that with a separator behind it, as
\* what t says is.
Shows(t, d, front) ==
  /\ IsText(t, d)
  /\ (front = t[Len(d)] /\ d # <<>>) \/ front = t[Len(d)] \o <<"/">>

\* A name and its separator behind another name.
LEMMA Joined ==
  ASSUME NEW u \in Seq(Chars), NEW name \in Seq(Chars)
  PROVE  LET w == u \o <<"/">> \o name
         IN  /\ w \in Seq(Chars) /\ Len(w) = Len(u) + 1 + Len(name)
             /\ \A i \in 1..Len(u) : w[i] = u[i]
             /\ w[Len(u) + 1] = "/"
             /\ \A i \in 1..Len(name) : w[Len(u) + 1 + i] = name[i]
  BY PathAssumption

\* A separator behind a name.
LEMMA Ended ==
  ASSUME NEW w \in Seq(Chars), NEW v, v = w \o <<"/">>
  PROVE  /\ v \in Seq(Chars) /\ Len(v) = Len(w) + 1 /\ v[Len(w) + 1] = "/" /\ v # w
         /\ \A i \in 1..Len(w) : v[i] = w[i]
  BY PathAssumption

\* A directory that is not the root: its parent, and its last name.
LEMMA LastName ==
  ASSUME NEW t, NEW d, Proper(d), IsText(t, d), d # <<>>
  PROVE  /\ Len(d) \in Nat /\ Len(d) >= 1
         /\ IsName(d[Len(d)]) /\ Len(d[Len(d)]) >= 1
         /\ t[Len(d)] \in Seq(Chars) /\ t[Len(d) - 1] \in Seq(Chars)
         /\ t[Len(d)] = t[Len(d) - 1] \o <<"/">> \o d[Len(d)]
<1>1. d \in Seq(Seq(Chars)) /\ Len(d) \in Nat /\ Len(d) >= 1
  BY EmptySeq DEF Proper, Dirs
<1>2. Len(d) \in 1..Len(d) /\ Len(d) \in 0..Len(d) /\ Len(d) - 1 \in 0..Len(d)
  BY <1>1
<1>3. IsName(d[Len(d)])
  BY <1>2 DEF Proper
<1>4. Len(d[Len(d)]) >= 1
  BY <1>3, EmptySeq DEF IsName
<1> QED
  BY <1>1, <1>2, <1>3, <1>4 DEF IsText

\* The root.
LEMMA RootText ==
  ASSUME NEW t, NEW d, d = <<>>, IsText(t, d)
  PROVE  t[Len(d)] = <<>> /\ t[Len(d)] \o <<"/">> = <<"/">> /\ Len(<<"/">>) = 1
<1>1. Len(d) = 0
  OBVIOUS
<1>2. t[Len(d)] = <<>>
  BY <1>1 DEF IsText
<1>3. <<>> \o <<"/">> = <<"/">> /\ Len(<<"/">>) = 1
  OBVIOUS
<1> QED
  BY <1>2, <1>3

\* Where front ends in a separator.
LEMMA ShowsLast ==
  ASSUME NEW t, NEW d, NEW front, Proper(d), Shows(t, d, front)
  PROVE  /\ front \in Seq(Chars) /\ Len(front) \in Nat /\ Len(front) >= 1
         /\ front[Len(front)] = "/" <=> front = t[Len(d)] \o <<"/">>
         /\ d # <<>> => Len(front) > 1
         /\ d = <<>> => front = <<"/">> /\ Len(front) = 1
<1>1. CASE d = <<>>
  <2>1. t[Len(d)] \o <<"/">> = <<"/">> /\ front = t[Len(d)] \o <<"/">>
    BY <1>1, RootText DEF Shows
  <2>2. front = <<"/">>
    BY <2>1
  <2>3. front \in Seq(Chars) /\ Len(front) = 1 /\ front[1] = "/"
    BY <2>2, PathAssumption
  <2> QED
    BY <1>1, <2>1, <2>2, <2>3
<1>2. CASE d # <<>>
  <2> DEFINE name == d[Len(d)]
             u == t[Len(d) - 1]
             w == t[Len(d)]
  <2>1. /\ name \in Seq(Chars) /\ Len(name) \in Nat /\ Len(name) >= 1
        /\ \A j \in 1..Len(name) : name[j] # "/"
    <3>1. IsName(name) /\ Len(name) >= 1
      BY <1>2, LastName DEF Shows
    <3> HIDE DEF name
    <3>2. name \in Seq(Chars) /\ \A j \in 1..Len(name) : name[j] # "/"
      BY <3>1 DEF IsName
    <3> QED
      BY <3>1, <3>2
  <2>2. u \in Seq(Chars) /\ w = u \o <<"/">> \o name
    BY <1>2, LastName DEF Shows
  <2> HIDE DEF name, u, w
  <2>3. /\ w \in Seq(Chars) /\ Len(w) = Len(u) + 1 + Len(name) /\ Len(u) \in Nat
        /\ w[Len(u) + 1 + Len(name)] = name[Len(name)]
    <3>1. Len(name) \in 1..Len(name)
      BY <2>1
    <3> QED
      BY <2>1, <2>2, <3>1, Joined
  <2>4. Len(w) > 1 /\ w[Len(w)] # "/"
    <3>1. Len(name) \in 1..Len(name)
      BY <2>1
    <3> QED
      BY <2>1, <2>3, <3>1
  <2>5. CASE front = w
    <3>1. w # w \o <<"/">>
      BY <2>3, Ended
    <3> QED
      BY <1>2, <2>3, <2>4, <2>5, <3>1 DEF w
  <2>6. CASE front = w \o <<"/">>
    <3>1. front \in Seq(Chars) /\ Len(front) = Len(w) + 1 /\ front[Len(w) + 1] = "/"
      BY <2>3, <2>6, Ended
    <3> QED
      BY <1>2, <2>3, <2>4, <2>6, <3>1 DEF w
  <2> QED
    BY <2>5, <2>6 DEF Shows, w
<1> QED
  BY <1>1, <1>2

\* g is front with a name behind it, and a separator between them.
Extends(g, front, name) ==
  g = front \o (IF front[Len(front)] # "/" THEN <<"/">> ELSE <<>>) \o name

\* One more name.
LEMMA Push ==
  ASSUME NEW t, NEW d, NEW front, Proper(d), Shows(t, d, front), NEW name, IsName(name),
         NEW g, Extends(g, front, name)
  PROVE  /\ Proper(Append(d, name))
         /\ \E u : Shows(u, Append(d, name), g)
         /\ Text(Append(d, name)) = g
<1> DEFINE m == Len(d) + 1
           c == Append(d, name)
           w == t[Len(d)]
           u == [k \in 0..m |-> IF k = m THEN w \o <<"/">> \o name ELSE t[k]]
<1>1. d \in Seq(Seq(Chars)) /\ name \in Seq(Chars) /\ Len(d) \in Nat
  BY DEF Proper, Dirs, IsName
<1>2. /\ c \in Seq(Seq(Chars)) /\ Len(c) = m /\ c[m] = name /\ c # <<>>
      /\ \A k \in 1..Len(d) : c[k] = d[k]
  BY <1>1, AppendProperties
<1>3. Proper(c)
  <2>1. ASSUME NEW k \in 1..m PROVE IsName(c[k])
    <3>1. k = m \/ k \in 1..Len(d)
      BY <1>1
    <3> QED
      BY <1>2, <3>1 DEF Proper
  <2> QED
    BY <1>2, <2>1 DEF Proper, Dirs
<1>4. /\ t \in [0..Len(d) -> Seq(Chars)] /\ t[0] = <<>>
      /\ \A k \in 1..Len(d) : t[k] = t[k - 1] \o <<"/">> \o d[k]
  BY DEF Shows, IsText
<1>5. w \in Seq(Chars) /\ w \o <<"/">> \o name \in Seq(Chars)
  BY <1>1, <1>4, Joined
<1> HIDE DEF w
<1>6. u \in [0..m -> Seq(Chars)]
  <2>1. \A k \in 0..m : k # m => k \in 0..Len(d)
    BY <1>1
  <2> QED
    BY <1>4, <1>5, <2>1
<1>7. u[0] = <<>> /\ u[m] = w \o <<"/">> \o name /\ \A k \in 0..Len(d) : u[k] = t[k]
  <2>1. 0 \in 0..m /\ 0 # m /\ m \in 0..m /\ \A k \in 0..Len(d) : k \in 0..m /\ k # m
    BY <1>1
  <2> QED
    BY <1>4, <2>1
<1> HIDE DEF u, c
<1>8. IsText(u, c)
  <2>1. ASSUME NEW k \in 1..m PROVE u[k] = u[k - 1] \o <<"/">> \o c[k]
    <3>1. CASE k = m
      <4>1. k - 1 = Len(d) /\ Len(d) \in 0..Len(d)
        BY <1>1, <3>1
      <4> QED
        BY <1>2, <1>7, <3>1, <4>1 DEF w
    <3>2. CASE k # m
      <4>1. k \in 1..Len(d) /\ k \in 0..Len(d) /\ k - 1 \in 0..Len(d)
        BY <1>1, <3>2
      <4> QED
        BY <1>2, <1>4, <1>7, <4>1
    <3> QED
      BY <3>1, <3>2
  <2> QED
    BY <1>2, <1>6, <1>7, <2>1 DEF IsText
<1>9. g = w \o <<"/">> \o name
  <2>1. /\ front \in Seq(Chars)
        /\ front[Len(front)] = "/" <=> front = w \o <<"/">>
        /\ front = w \/ front = w \o <<"/">>
    BY ShowsLast DEF Shows, w
  <2>2. CASE front[Len(front)] = "/"
    <3>1. front \o <<>> = front
      BY <2>1
    <3> QED
      BY <2>1, <2>2, <3>1 DEF Extends
  <2>3. CASE front[Len(front)] # "/"
    BY <2>1, <2>3 DEF Extends
  <2> QED
    BY <2>2, <2>3
<1>10. Shows(u, c, g)
  BY <1>2, <1>7, <1>8, <1>9 DEF Shows
<1>11. Text(c) = g
  <2>1. c \in Dirs
    BY <1>3 DEF Proper
  <2> QED
    BY <1>2, <1>7, <1>8, <1>9, <2>1, TextIs
<1> QED
  BY <1>3, <1>10, <1>11 DEF c

\* Neither less nor greater.
LEMMA Neither ==
  ASSUME NEW a \in Int, NEW b \in Int, ~(a < b), ~(a > b)
  PROVE  a = b
  OBVIOUS

\* The first n elements of a sequence.
LEMMA Initially ==
  ASSUME NEW T, NEW s \in Seq(T), NEW n \in 0..Len(s), NEW x, x = SubSeq(s, 1, n)
  PROVE  x \in Seq(T) /\ Len(x) = n /\ \A i \in 1..n : x[i] = s[i]
  OBVIOUS

\* The last separator in front, but for one at its end, is at p.
LastSlash(front, p) ==
  /\ p \in 1..(Len(front) - 1) /\ front[p] = "/"
  /\ \A i \in (p + 1)..(Len(front) - 1) : front[i] # "/"

\* It is the one before the last name.
LEMMA LastSeparator ==
  ASSUME NEW u \in Seq(Chars), NEW name, IsName(name),
         NEW w, w = u \o <<"/">> \o name,
         NEW front, front = w \/ front = w \o <<"/">>,
         NEW p, LastSlash(front, p)
  PROVE  p = Len(u) + 1 /\ SubSeq(front, 1, p) = u \o <<"/">>
<1>0. /\ p \in 1..(Len(front) - 1) /\ front[p] = "/"
      /\ \A i \in (p + 1)..(Len(front) - 1) : front[i] # "/"
      /\ name \in Seq(Chars) /\ Len(name) >= 1 /\ \A j \in 1..Len(name) : name[j] # "/"
  BY EmptySeq DEF LastSlash, IsName
<1> USE <1>0
<1>1. /\ w \in Seq(Chars) /\ Len(w) = Len(u) + 1 + Len(name)
      /\ \A i \in 1..Len(u) : w[i] = u[i]
      /\ w[Len(u) + 1] = "/"
      /\ \A i \in 1..Len(name) : w[Len(u) + 1 + i] = name[i]
  BY Joined
<1>2. /\ front \in Seq(Chars) /\ Len(front) \in Len(w)..(Len(w) + 1)
      /\ \A i \in 1..Len(w) : front[i] = w[i]
  <2>1. CASE front = w
    BY <1>1, <2>1
  <2>2. CASE front = w \o <<"/">>
    BY <1>1, <2>2, Ended
  <2> QED
    BY <2>1, <2>2
<1>3. Len(u) \in Nat /\ Len(name) \in Nat /\ Len(w) \in Nat /\ Len(front) \in Nat
  BY <1>1, <1>2
<1>4. ~(p > Len(u) + 1)
  <2> SUFFICES ASSUME p > Len(u) + 1 PROVE FALSE
    OBVIOUS
  <2> DEFINE j == p - (Len(u) + 1)
  <2>1. j \in 1..Len(name) /\ Len(u) + 1 + j = p /\ p \in 1..Len(w)
    BY <1>1, <1>2, <1>3
  <2> HIDE DEF j
  <2> QED
    BY <1>1, <1>2, <2>1
<1>5. ~(p < Len(u) + 1)
  <2> SUFFICES ASSUME p < Len(u) + 1 PROVE FALSE
    OBVIOUS
  <2>1. Len(u) + 1 \in (p + 1)..(Len(front) - 1) /\ Len(u) + 1 \in 1..Len(w)
    BY <1>1, <1>2, <1>3
  <2> QED
    BY <1>1, <1>2, <2>1
<1>6. p = Len(u) + 1
  <2>1. p \in Int /\ Len(u) + 1 \in Int
    BY <1>3
  <2> QED
    BY <1>4, <1>5, <2>1, Neither, Zenon
<1> DEFINE v == u \o <<"/">>
           x == SubSeq(front, 1, p)
<1>7. /\ v \in Seq(Chars) /\ Len(v) = Len(u) + 1 /\ v[Len(u) + 1] = "/"
      /\ \A i \in 1..Len(u) : v[i] = u[i]
  <2>1. v = u \o <<"/">>
    OBVIOUS
  <2> HIDE DEF v
  <2> QED
    BY <2>1, Ended, ZenonT(30)
<1>8. x \in Seq(Chars) /\ Len(x) = p /\ \A i \in 1..p : x[i] = front[i]
  <2>1. p \in 0..Len(front)
    BY <1>3
  <2> QED
    BY <1>2, <2>1, Initially
<1> HIDE DEF v, x
<1>9. ASSUME NEW i \in 1..p PROVE x[i] = v[i]
  <2>1. i \in 1..Len(w) /\ (i \in 1..Len(u) \/ i = Len(u) + 1)
    BY <1>1, <1>3, <1>6
  <2>2. x[i] = w[i]
    BY <1>2, <1>8, <2>1
  <2>3. CASE i \in 1..Len(u)
    <3>1. w[i] = u[i] /\ v[i] = u[i]
      BY <1>1, <1>7, <2>3
    <3> QED
      BY <2>2, <3>1
  <2>4. CASE i = Len(u) + 1
    <3>1. w[i] = "/" /\ v[i] = "/"
      BY <1>1, <1>7, <2>4
    <3> QED
      BY <2>2, <3>1
  <2> QED
    BY <2>1, <2>3, <2>4
<1>10. x = v
  BY <1>6, <1>7, <1>8, <1>9, SeqEqual
<1> QED
  BY <1>6, <1>10 DEF x, v

\* One name less.
LEMMA Pop ==
  ASSUME NEW t, NEW d, NEW front, Proper(d), d # <<>>, Shows(t, d, front),
         NEW p, LastSlash(front, p),
         NEW c, c = SubSeq(d, 1, Len(d) - 1)
  PROVE  /\ Proper(c)
         /\ \E u : Shows(u, c, SubSeq(front, 1, p))
<1> DEFINE m == Len(d) - 1
           u == [k \in 0..m |-> t[k]]
<1>1. d \in Seq(Seq(Chars)) /\ Len(d) \in Nat /\ Len(d) >= 1 /\ IsText(t, d)
  BY EmptySeq DEF Proper, Dirs, Shows
<1>2. c \in Seq(Seq(Chars)) /\ Len(c) = m /\ \A k \in 1..m : c[k] = d[k]
  <2>1. m \in 0..Len(d) /\ c = SubSeq(d, 1, m)
    BY <1>1
  <2> HIDE DEF m
  <2> QED
    BY <1>1, <2>1
<1>3. Proper(c)
  <2>1. ASSUME NEW k \in 1..m PROVE IsName(c[k])
    <3>1. k \in 1..Len(d)
      BY <1>1
    <3> QED
      BY <1>2, <3>1 DEF Proper
  <2> QED
    BY <1>2, <2>1 DEF Proper, Dirs
<1>4. /\ t \in [0..Len(d) -> Seq(Chars)] /\ t[0] = <<>>
      /\ \A k \in 1..Len(d) : t[k] = t[k - 1] \o <<"/">> \o d[k]
  BY <1>1 DEF IsText
<1>5. /\ u \in [0..m -> Seq(Chars)] /\ u[0] = <<>>
      /\ \A k \in 0..m : u[k] = t[k]
  <2>1. 0 \in 0..m /\ \A k \in 0..m : k \in 0..Len(d)
    BY <1>1
  <2> QED
    BY <1>4, <2>1
<1> HIDE DEF u
<1>6. IsText(u, c)
  <2>1. ASSUME NEW k \in 1..m PROVE u[k] = u[k - 1] \o <<"/">> \o c[k]
    <3>1. k \in 1..Len(d) /\ k \in 0..m /\ k - 1 \in 0..m
      BY <1>1
    <3> QED
      BY <1>2, <1>4, <1>5, <3>1
  <2> QED
    BY <1>2, <1>5, <2>1 DEF IsText
<1>7. SubSeq(front, 1, p) = t[m] \o <<"/">>
  <2> DEFINE name == d[Len(d)]
             w == t[Len(d)]
             v == t[m]
  <2>1. IsName(name) /\ Len(name) >= 1 /\ v \in Seq(Chars) /\ w = v \o <<"/">> \o name
    BY <1>1, LastName
  <2>2. front = w \/ front = w \o <<"/">>
    BY DEF Shows
  <2> HIDE DEF name, w, v
  <2> QED
    <3>1. SubSeq(front, 1, p) = v \o <<"/">>
      BY <2>1, <2>2, LastSeparator, ZenonT(30)
    <3> QED
      BY <3>1 DEF v
<1>8. u[Len(c)] = t[m]
  <2>1. m \in 0..m
    BY <1>1
  <2> QED
    BY <1>2, <1>5, <2>1
<1> QED
  BY <1>3, <1>6, <1>7, <1>8 DEF Shows

\* What remains of front without a separator at its end is canonical.
LEMMA Closed ==
  ASSUME NEW t, NEW d, NEW front, Proper(d), Shows(t, d, front)
  PROVE  /\ Text(d) = IF Len(front) > 1 /\ front[Len(front)] = "/"
                      THEN SubSeq(front, 1, Len(front) - 1) ELSE front
         /\ Text(d) \in Seq(Chars) /\ Len(Text(d)) <= Len(front)
<1> DEFINE w == t[Len(d)]
<1>1. Text(d) = IF d = <<>> THEN <<"/">> ELSE w
  BY TextIs DEF Shows, Proper
<1>2. /\ front \in Seq(Chars) /\ Len(front) \in Nat
      /\ front[Len(front)] = "/" <=> front = w \o <<"/">>
      /\ d # <<>> => Len(front) > 1
      /\ d = <<>> => front = <<"/">> /\ Len(front) = 1
  BY ShowsLast
<1>3. (front = w /\ d # <<>>) \/ front = w \o <<"/">>
  BY DEF Shows
<1>4. CASE d = <<>>
  <2>1. Text(d) = front /\ Len(front) = 1
    BY <1>1, <1>2, <1>4
  <2> QED
    BY <1>2, <2>1
<1>5. CASE d # <<>> /\ front = w /\ front[Len(front)] # "/"
  BY <1>1, <1>2, <1>5
<1>6. CASE d # <<>> /\ front = w \o <<"/">>
  <2>1. w \in Seq(Chars)
    BY <1>6, LastName DEF Shows
  <2> HIDE DEF w
  <2>2. Len(front) = Len(w) + 1 /\ \A i \in 1..Len(w) : front[i] = w[i]
    BY <1>6, <2>1, Ended
  <2> DEFINE x == SubSeq(front, 1, Len(front) - 1)
  <2>3. Len(front) - 1 = Len(w) /\ Len(w) \in 0..Len(front)
    BY <2>1, <2>2
  <2>4. x \in Seq(Chars) /\ Len(x) = Len(w) /\ \A i \in 1..Len(w) : x[i] = front[i]
    <3>1. x = SubSeq(front, 1, Len(w))
      BY <2>3, Zenon
    <3> QED
      BY <1>2, <2>3, <3>1
  <2> HIDE DEF x
  <2>5. x = w
    BY <2>1, <2>2, <2>4, SeqEqual
  <2> QED
    <3>1. Text(d) = w /\ Len(front) > 1 /\ front[Len(front)] = "/"
      BY <1>1, <1>2, <1>6
    <3>2. Text(d) = x
      BY <2>5, <3>1
    <3>3. Len(Text(d)) <= Len(front)
      BY <1>2, <2>3, <3>1
    <3> QED
      BY <2>1, <3>1, <3>2, <3>3 DEF x
<1> QED
  BY <1>2, <1>3, <1>4, <1>5, <1>6

\* x is the beginning of s.
Starts(x, s) ==
  x \in Seq(Chars) /\ Len(x) <= Len(s) /\ \A i \in 1..Len(x) : x[i] = s[i]

\* The types of what a canonical name is made of.
LEMMA TextFacts ==
  ASSUME NEW d, Proper(d), NEW t, IsText(t, d)
  PROVE  /\ Len(d) \in Nat /\ t \in [0..Len(d) -> Seq(Chars)]
         /\ \A j \in 1..Len(d) : t[j] = t[j - 1] \o <<"/">> \o d[j]
         /\ \A j \in 1..Len(d) : d[j] \in Seq(Chars)
<1>1. Len(d) \in Nat
  BY DEF Proper, Dirs
<1>2. /\ t \in [0..Len(d) -> Seq(Chars)]
      /\ \A j \in 1..Len(d) : t[j] = t[j - 1] \o <<"/">> \o d[j]
  BY DEF IsText
<1>3. \A j \in 1..Len(d) : d[j] \in Seq(Chars)
  BY DEF Proper, IsName
<1> QED
  BY <1>1, <1>2, <1>3

\* The names on the way to a directory are beginnings of its name.
LEMMA Beginnings ==
  ASSUME NEW d, Proper(d), NEW t, IsText(t, d), NEW k \in 0..Len(d)
  PROVE  Starts(t[k], t[Len(d)])
<1> DEFINE n == Len(d)
           s == t[Len(d)]
           S == {m \in Nat : m <= n => Starts(t[n - m], s)}
<1>1. /\ n \in Nat /\ t \in [0..n -> Seq(Chars)]
      /\ \A j \in 1..n : t[j] = t[j - 1] \o <<"/">> \o d[j]
      /\ \A j \in 1..n : d[j] \in Seq(Chars)
  BY TextFacts
<1>2. s \in Seq(Chars)
  <2>1. n \in 0..n
    BY <1>1
  <2> QED
    BY <1>1, <2>1
<1> HIDE DEF n
<1>3. 0 \in S
  <2>1. n - 0 = n
    BY <1>1
  <2>2. Starts(s, s)
    <3> HIDE DEF s
    <3> QED
      BY <1>2 DEF Starts
  <2> QED
    BY <2>1, <2>2 DEF n
<1> HIDE DEF s
<1>4. ASSUME NEW m \in Nat, m \in S PROVE m + 1 \in S
  <2> SUFFICES ASSUME m + 1 <= n PROVE Starts(t[n - (m + 1)], s)
    OBVIOUS
  <2> DEFINE j == n - m
             x == t[j]
             u == t[j - 1]
             name == d[j]
  <2>1. j \in 1..n /\ j - 1 \in 0..n /\ n - (m + 1) = j - 1 /\ m <= n
    BY <1>1
  <2>2. Starts(x, s)
    BY <1>4, <2>1
  <2>3. x = u \o <<"/">> \o name /\ u \in Seq(Chars) /\ name \in Seq(Chars)
    BY <1>1, <2>1
  <2> HIDE DEF j, x, u, name
  <2>4. Len(x) = Len(u) + 1 + Len(name) /\ \A i \in 1..Len(u) : x[i] = u[i]
    BY <2>3, Joined
  <2>5. Len(u) \in Nat /\ Len(name) \in Nat /\ Len(s) \in Nat /\ Len(x) <= Len(s)
    BY <1>2, <2>2, <2>3 DEF Starts
  <2>6. \A i \in 1..Len(u) : i \in 1..Len(x)
    BY <2>4, <2>5
  <2>7. Len(u) <= Len(s)
    BY <2>4, <2>5
  <2>8. Starts(u, s)
    BY <2>2, <2>3, <2>4, <2>6, <2>7 DEF Starts
  <2> QED
    BY <2>1, <2>8 DEF u
<1>5. \A m \in Nat : m \in S
  <2> HIDE DEF S
  <2> QED
    BY <1>3, <1>4, Induct
<1>6. n - k \in Nat /\ n - k <= n /\ n - (n - k) = k
  BY <1>1 DEF n
<1>7. n - k \in S
  BY <1>5, <1>6
<1>8. Starts(t[n - (n - k)], s)
  BY <1>6, <1>7
<1> QED
  BY <1>6, <1>8 DEF s

\* x is name, in the directory u.
Behind(x, u, name) == x = u \o <<"/">> \o name

\* What follows x in s is a separator.
Continues(x, s) == Len(x) < Len(s) => s[Len(x) + 1] = "/"

\* From the separator at from to the end of x, s has this component.
NameAt(s, from, e, x, name) ==
  /\ from \in 1..Len(s) /\ AtBreak(s, from)
  /\ ComponentOf(s, from, from + 1, e) /\ from + 1 < e /\ e = Len(x) + 1
  /\ SubSeq(s, from + 1, e - 1) = name

\* The component behind the name of a directory.
LEMMA ComponentBehind ==
  ASSUME NEW u \in Seq(Chars), NEW x, NEW name, IsName(name), Behind(x, u, name),
         NEW s \in Seq(Chars), Starts(x, s), Continues(x, s),
         NEW from \in Nat, from = Len(u) + 1, NEW e \in Nat, e = from + 1 + Len(name)
  PROVE  NameAt(s, from, e, x, name)
<1>8. name \in Seq(Chars) /\ Len(name) >= 1 /\ \A j \in 1..Len(name) : name[j] # "/"
  BY EmptySeq DEF IsName
<1>9. /\ Len(x) = Len(u) + 1 + Len(name) /\ x[Len(u) + 1] = "/"
      /\ \A i \in 1..Len(name) : x[Len(u) + 1 + i] = name[i]
  BY <1>8, Joined DEF Behind
<1>10. Len(x) <= Len(s) /\ \A i \in 1..Len(x) : x[i] = s[i]
  BY DEF Starts
<1>11. /\ Len(u) \in Nat /\ Len(name) \in Nat /\ Len(s) \in Nat
       /\ from \in Nat /\ from >= 1 /\ e \in Nat /\ e = Len(x) + 1 /\ e <= Len(s) + 1
  BY <1>8, <1>9, <1>10
<1>12. s[from] = "/"
  <2>1. Len(u) + 1 \in 1..Len(x)
    BY <1>9, <1>11
  <2> QED
    BY <1>9, <1>10, <2>1
<1>13. ASSUME NEW i \in 1..Len(name) PROVE s[from + i] = name[i]
  <2>1. from + i = Len(u) + 1 + i /\ Len(u) + 1 + i \in 1..Len(x)
    BY <1>9, <1>11
  <2> QED
    BY <1>9, <1>10, <2>1
<1>14. ASSUME NEW i \in (from + 1)..(e - 1) PROVE s[i] # "/"
  <2>1. i - from \in 1..Len(name) /\ from + (i - from) = i
    BY <1>11
  <2>2. s[from + (i - from)] = name[i - from]
    BY <1>13, <2>1
  <2> QED
    BY <1>8, <2>1, <2>2
<1>15. e <= Len(s) => s[e] = "/"
  BY <1>11 DEF Continues
<1>16. ComponentOf(s, from, from + 1, e)
  <2>1. from + 1 \in from..(Len(s) + 1) /\ e \in (from + 1)..(Len(s) + 1) /\ from + 1 <= e - 1
    BY <1>8, <1>11
  <2>2. \A i \in from..((from + 1) - 1) : s[i] = "/"
    BY <1>11, <1>12
  <2>3. s[from + 1] # "/"
    <3>1. from + 1 \in (from + 1)..(e - 1)
      BY <1>8, <1>11
    <3> QED
      BY <1>14, <3>1
  <2> QED
    BY <1>14, <1>15, <2>1, <2>2, <2>3 DEF ComponentOf
<1>17. SubSeq(s, from + 1, e - 1) = name
  <2> DEFINE z == SubSeq(s, from + 1, e - 1)
  <2>1. /\ z \in Seq(Chars) /\ Len(z) = Len(name)
        /\ \A i \in 1..Len(name) : z[i] = s[from + i]
    BY <1>8, <1>11
  <2> HIDE DEF z
  <2>2. z = name
    BY <1>8, <1>13, <2>1, SeqEqual
  <2> QED
    BY <2>2 DEF z
<1> QED
  BY <1>8, <1>11, <1>12, <1>16, <1>17 DEF AtBreak, NameAt

\* Behind a directory on the way, a canonical name has a separator.
LEMMA SeparatorBehind ==
  ASSUME NEW d, Proper(d), NEW t, IsText(t, d), NEW k \in 0..Len(d),
         Len(t[k]) < Len(t[Len(d)])
  PROVE  t[Len(d)][Len(t[k]) + 1] = "/"
<1> DEFINE s == t[Len(d)]
           x == t[k]
           y == t[k + 1]
           name == d[k + 1]
<1>1. /\ Len(d) \in Nat /\ t \in [0..Len(d) -> Seq(Chars)]
      /\ \A j \in 1..Len(d) : t[j] = t[j - 1] \o <<"/">> \o d[j]
      /\ \A j \in 1..Len(d) : d[j] \in Seq(Chars)
  BY TextFacts
<1>2. Len(d) \in 0..Len(d) /\ s \in Seq(Chars) /\ x \in Seq(Chars)
  BY <1>1
<1>3. k # Len(d)
  <2>1. Len(s) \in Nat /\ ~(Len(s) < Len(s))
    <3> HIDE DEF s
    <3> QED
      BY <1>2
  <2> QED
    BY <2>1
<1>4. k + 1 \in 1..Len(d) /\ k + 1 \in 0..Len(d) /\ (k + 1) - 1 = k
  BY <1>1, <1>3
<1>5. y = x \o <<"/">> \o name /\ name \in Seq(Chars)
  BY <1>1, <1>4
<1>6. Starts(y, s)
  BY <1>4, Beginnings
<1> HIDE DEF s, x, y, name
<1>7. Len(y) = Len(x) + 1 + Len(name) /\ y[Len(x) + 1] = "/"
  BY <1>2, <1>5, Joined
<1>8. Len(x) + 1 \in 1..Len(y)
  BY <1>2, <1>5, <1>7
<1>9. s[Len(x) + 1] = "/"
  BY <1>6, <1>7, <1>8 DEF Starts
<1> QED
  BY <1>9 DEF s, x

\* Each name of a canonical name leads one directory further.
LEMMA Onward ==
  ASSUME NEW d, Proper(d), NEW t, IsText(t, d), NEW k \in 1..Len(d), d # <<>>,
         NEW L, L = Leads(<<>>, t[Len(d)]), L[Len(t[k - 1])] = SubSeq(d, 1, k - 1)
  PROVE  L[Len(t[k])] = SubSeq(d, 1, k)
<1> DEFINE s == t[Len(d)]
           u == t[k - 1]
           x == t[k]
           name == d[k]
           from == Len(u) + 1
           e == from + 1 + Len(name)
<1>1. /\ Len(d) \in Nat /\ t \in [0..Len(d) -> Seq(Chars)]
      /\ \A j \in 1..Len(d) : t[j] = t[j - 1] \o <<"/">> \o d[j]
  BY TextFacts
<1>2. k \in 0..Len(d) /\ k - 1 \in 0..Len(d) /\ Len(d) \in 0..Len(d)
  BY <1>1
<1>3. s \in Seq(Chars) /\ u \in Seq(Chars) /\ x \in Seq(Chars)
  BY <1>1, <1>2
<1>4. Starts(x, s)
  BY <1>2, Beginnings
<1>5. IsName(name)
  BY DEF Proper
<1>6. Behind(x, u, name)
  BY <1>1 DEF Behind
<1>7. Continues(x, s)
  BY <1>2, SeparatorBehind DEF Continues
<1>8. L = Leads(<<>>, s) /\ L[Len(u)] = SubSeq(d, 1, k - 1)
  OBVIOUS
<1> HIDE DEF s, u, x, name
<1>9. from = Len(u) + 1 /\ e = from + 1 + Len(name) /\ from \in Nat /\ e \in Nat
  BY <1>3, <1>5 DEF IsName
<1> HIDE DEF from, e
<1>10. /\ from \in 1..Len(s) /\ AtBreak(s, from)
       /\ ComponentOf(s, from, from + 1, e) /\ from + 1 < e /\ e = Len(x) + 1
       /\ SubSeq(s, from + 1, e - 1) = name
  <2>1. NameAt(s, from, e, x, name)
    BY <1>3, <1>4, <1>5, <1>6, <1>7, <1>9, ComponentBehind
  <2> QED
    BY <2>1 DEF NameAt
<1>11. <<>> \in Dirs /\ from \in 1..(Len(s) + 1) /\ from <= Len(s)
  BY <1>3, <1>10 DEF Dirs
<1>12. from + 1 < e => L[e - 1] = Enter(L[from - 1], SubSeq(s, from + 1, e - 1))
  BY <1>3, <1>8, <1>10, <1>11, OneComponent, SMTT(30)
<1>13. from - 1 = Len(u) /\ e - 1 = Len(x)
  BY <1>3, <1>9, <1>10
<1>14. L[Len(x)] = Enter(SubSeq(d, 1, k - 1), name)
  BY <1>8, <1>10, <1>12, <1>13
<1>15. Enter(SubSeq(d, 1, k - 1), name) = Append(SubSeq(d, 1, k - 1), name)
  BY <1>5 DEF Enter, IsName
<1>16. Append(SubSeq(d, 1, k - 1), d[k]) = SubSeq(d, 1, k)
  <2>1. d \in Seq(Seq(Chars))
    BY DEF Proper, Dirs
  <2> QED
    BY <2>1
<1> QED
  BY <1>14, <1>15, <1>16 DEF x, name

\* A canonical name leads to the directory that it names.
LEMMA RoundTrip ==
  ASSUME NEW d, Proper(d), NEW t, IsText(t, d)
  PROVE  Leads(<<>>, Text(d))[Len(Text(d))] = d
<1> DEFINE n == Len(d)
           s == t[n]
<1>1. Text(d) = IF d = <<>> THEN <<"/">> ELSE s
  BY TextIs DEF Proper
<1>2. <<>> \in Dirs /\ d \in Seq(Seq(Chars))
  BY DEF Dirs, Proper
<1>3. CASE d = <<>>
  <2> DEFINE r == <<"/">>
             L == Leads(<<>>, r)
  <2>1. r \in Seq(Chars) /\ Len(r) = 1 /\ r[1] = "/" /\ 1 \in 1..Len(r) /\ 1 - 1 = 0
    BY PathAssumption
  <2> HIDE DEF r
  <2>2. L[0] = <<>> /\ \A i \in 1..Len(r) : L[i] = Turn(r, i, L[i - 1])
    BY <1>2, <2>1, LeadsIs
  <2> HIDE DEF L
  <2>3. L[1] = L[0]
    BY <2>1, <2>2 DEF Turn, Ends
  <2>4. L[Len(r)] = d
    BY <1>3, <2>1, <2>2, <2>3
  <2> QED
    BY <1>1, <1>3, <2>4 DEF L, r
<1>4. CASE d # <<>>
  <2> DEFINE L == Leads(<<>>, s)
             S == {m \in Nat : m <= n => L[Len(t[m])] = SubSeq(d, 1, m)}
  <2>1. n \in Nat /\ t[0] = <<>> /\ n \in 0..n
    BY <1>2 DEF IsText
  <2>2. s \in Seq(Chars)
    BY <2>1 DEF IsText
  <2>3. L[0] = <<>>
    BY <1>2, <2>2, LeadsIs
  <2>4. 0 \in S
    <3>1. SubSeq(d, 1, 0) = <<>> /\ Len(<<>>) = 0
      OBVIOUS
    <3> HIDE DEF L
    <3> QED
      BY <2>1, <2>3, <3>1
  <2>5. ASSUME NEW m \in Nat, m \in S PROVE m + 1 \in S
    <3> SUFFICES ASSUME m + 1 <= n PROVE L[Len(t[m + 1])] = SubSeq(d, 1, m + 1)
      OBVIOUS
    <3>1. m + 1 \in 1..n /\ (m + 1) - 1 = m /\ m <= n
      BY <2>1
    <3>2. L[Len(t[m])] = SubSeq(d, 1, m)
      BY <2>5, <3>1
    <3>3. L = Leads(<<>>, t[Len(d)])
      OBVIOUS
    <3> HIDE DEF L
    <3>4. L[Len(t[(m + 1) - 1])] = SubSeq(d, 1, (m + 1) - 1)
      BY <3>1, <3>2
    <3> QED
      BY <1>4, <3>1, <3>3, <3>4, Onward
  <2>6. n \in S
    <3> HIDE DEF S
    <3> QED
      BY <2>1, <2>4, <2>5, Induct
  <2>7. SubSeq(d, 1, n) = d
    BY <1>2
  <2>8. L[Len(s)] = d
    BY <2>1, <2>6, <2>7
  <2> QED
    BY <1>1, <1>4, <2>8
<1> QED
  BY <1>3, <1>4

-----------------------------------------------------------------------------
(***************************************************************************)
(* What vfs_realpath has done when it is in front of a component.          *)
(***************************************************************************)

\* There is no room for the canonical name of d.
Long(d) == Len(Text(d)) >= FTP_MAX_PATH

\* All of the name s in front of the from-th character has been taken in: front
\* shows where that leads to, and everything on the way had room.
Position(L, s, from, front) ==
  /\ AtBreak(s, from)
  /\ Proper(L[from - 1]) /\ \E t : Shows(t, L[from - 1], front)
  /\ \A i \in 0..(from - 1) : ~Long(L[i])

\* The next component of s, behind from, begins at b and ends before e.
Takes(base, s, from, b, e, L, name) ==
  /\ base \in Dirs /\ s \in Seq(Chars) /\ from \in 1..Len(s) /\ L = Leads(base, s)
  /\ ComponentOf(s, from, b, e) /\ name = SubSeq(s, b, e - 1)

\* Where it leads to.
Went(s, from, e, L, name) ==
  /\ from \in Nat /\ from >= 1 /\ e \in Nat /\ from < e /\ e - 1 \in 0..Len(s)
  /\ AtBreak(s, e)
  /\ \A i \in (from - 1)..(e - 2) : L[i] = L[from - 1]
  /\ name = <<>> => L[e - 1] = L[from - 1]
  /\ name # <<>> => L[e - 1] = Enter(L[from - 1], name)
  /\ name \notin {<<>>, <<".">>, <<".", ".">>} => IsName(name)

\* A component leads on as Enter says.
LEMMA Round ==
  ASSUME NEW base, NEW s, NEW from, NEW b, NEW e, NEW L, NEW name,
         Takes(base, s, from, b, e, L, name), AtBreak(s, from)
  PROVE  Went(s, from, e, L, name)
<1>0. /\ base \in Dirs /\ s \in Seq(Chars) /\ from \in 1..Len(s) /\ L = Leads(base, s)
      /\ ComponentOf(s, from, b, e) /\ name = SubSeq(s, b, e - 1)
  BY DEF Takes
<1> USE <1>0
<1>1. Len(s) \in Nat /\ from \in Nat /\ from \in 1..(Len(s) + 1) /\ from <= Len(s)
  OBVIOUS
<1>2. /\ AtBreak(s, e) /\ e \in (from + 1)..(Len(s) + 1) /\ b \in from..e
      /\ \A i \in (from - 1)..(e - 2) : L[i] = L[from - 1]
      /\ b = e => L[e - 1] = L[from - 1]
      /\ b < e => L[e - 1] = Enter(L[from - 1], name)
  BY <1>1, OneComponent
<1>3. \A i \in b..(e - 1) : s[i] # "/"
  BY DEF ComponentOf
<1>4. b \in Nat /\ e \in Nat /\ 1 <= b /\ b <= e /\ e - 1 <= Len(s)
  BY <1>1, <1>2
<1>5. name \in Seq(Chars) /\ Len(name) = e - b
  BY <1>4
<1>6. \A j \in 1..Len(name) : name[j] = s[b + j - 1] /\ b + j - 1 \in b..(e - 1)
  BY <1>4
<1>7. \A j \in 1..Len(name) : name[j] # "/"
  BY <1>3, <1>6
<1>8. (name = <<>> => b = e) /\ (name # <<>> => b < e)
  BY <1>4, <1>5, EmptySeq
<1> QED
  <2>1. from >= 1 /\ from < e /\ e - 1 \in 0..Len(s)
    BY <1>1, <1>2
  <2> HIDE <1>0
  <2> QED
    BY <1>1, <1>2, <1>4, <1>5, <1>7, <1>8, <2>1 DEF IsName, Went

\* The components that are no names differ.
LEMMA Dots == <<".">> # <<>> /\ <<".", ".">> # <<>> /\ <<".", ".">> # <<".">>
  OBVIOUS

\* Behind the component: what the new contents of the buffer have to show.
LEMMA Arrive ==
  ASSUME NEW L, NEW s, NEW from, NEW e, NEW name, Went(s, from, e, L, name),
         NEW front, Position(L, s, from, front),
         NEW d, L[e - 1] = d, Proper(d), NEW t, NEW g, Shows(t, d, g),
         Len(g) < FTP_MAX_PATH
  PROVE  Position(L, s, e, g)
<1>0. /\ from \in Nat /\ from >= 1 /\ e \in Nat /\ from < e
      /\ AtBreak(s, e) /\ \A i \in (from - 1)..(e - 2) : L[i] = L[from - 1]
  BY DEF Went
<1>1. ~Long(d)
  <2>1. Len(Text(d)) <= Len(g) /\ Text(d) \in Seq(Chars)
    BY Closed
  <2>2. Len(g) \in Nat /\ FTP_MAX_PATH \in Nat /\ Len(Text(d)) \in Nat
    <3>1. Len(g) \in Nat
      BY ShowsLast
    <3> QED
      BY <2>1, <3>1, PathAssumption
  <2> QED
    BY <2>1, <2>2 DEF Long
<1>2. ASSUME NEW i \in 0..(e - 1) PROVE ~Long(L[i])
  <2>1. i \in 0..(from - 1) \/ i \in (from - 1)..(e - 2) \/ i = e - 1
    BY <1>0
  <2>2. from - 1 \in 0..(from - 1)
    BY <1>0
  <2> QED
    BY <1>0, <1>1, <2>1, <2>2 DEF Position
<1> QED
  BY <1>0, <1>2 DEF Position

\* An empty component, and ".".
LEMMA Stay ==
  ASSUME NEW base, NEW s, NEW from, NEW b, NEW e, NEW L, NEW name,
         Takes(base, s, from, b, e, L, name),
         NEW front, Position(L, s, from, front), Len(front) < FTP_MAX_PATH,
         name \in {<<>>, <<".">>}
  PROVE  Position(L, s, e, front)
<1> DEFINE d == L[from - 1]
<1>1. AtBreak(s, from) /\ Proper(d) /\ \E t : Shows(t, d, front)
  BY DEF Position
<1>2. Went(s, from, e, L, name)
  BY <1>1, Round
<1>3. L[e - 1] = d
  <2>1. CASE name = <<>>
    BY <1>2, <2>1 DEF Went
  <2>2. CASE name = <<".">>
    BY <1>2, <2>2, Dots DEF Went, Enter
  <2> QED
    BY <2>1, <2>2
<1>4. PICK t : Shows(t, d, front)
  BY <1>1
<1> QED
  BY <1>1, <1>2, <1>3, <1>4, Arrive

\* g is front up to the separator before its last name.
Ascends(g, front) ==
  \E p : /\ Len(front) > 1 => LastSlash(front, p)
         /\ Len(front) = 1 => p = 1
         /\ g = SubSeq(front, 1, p)

\* "..": dst goes back to behind the separator before the last name, if there is one.
LEMMA Up ==
  ASSUME NEW base, NEW s, NEW from, NEW b, NEW e, NEW L, NEW name,
         Takes(base, s, from, b, e, L, name),
         NEW front, Position(L, s, from, front), Len(front) < FTP_MAX_PATH,
         name = <<".", ".">>,
         NEW g, Ascends(g, front)
  PROVE  Position(L, s, e, g)
<1>0. PICK p : /\ Len(front) > 1 => LastSlash(front, p)
               /\ Len(front) = 1 => p = 1
               /\ g = SubSeq(front, 1, p)
  BY DEF Ascends
<1> USE <1>0
<1> DEFINE d == L[from - 1]
<1>1. AtBreak(s, from) /\ Proper(d) /\ \E t : Shows(t, d, front)
  BY DEF Position
<1>2. Went(s, from, e, L, name)
  BY <1>1, Round
<1>3. L[e - 1] = IF d = <<>> THEN d ELSE SubSeq(d, 1, Len(d) - 1)
  BY <1>2, Dots DEF Went, Enter
<1>4. PICK t : Shows(t, d, front)
  BY <1>1
<1>6. /\ front \in Seq(Chars) /\ Len(front) \in Nat /\ Len(front) >= 1
      /\ d # <<>> => Len(front) > 1
      /\ d = <<>> => front = <<"/">> /\ Len(front) = 1
  BY <1>1, <1>4, ShowsLast
<1> HIDE DEF d
<1>7. CASE d = <<>>
  <2>1. p = 1 /\ Len(front) = 1 /\ front \in Seq(Chars)
    BY <1>6, <1>7
  <2>2. g = front
    BY <2>1
  <2>3. L[e - 1] = d
    BY <1>3, <1>7
  <2> QED
    BY <1>1, <1>2, <1>4, <2>2, <2>3, Arrive DEF d
<1>8. CASE d # <<>>
  <2> DEFINE c == SubSeq(d, 1, Len(d) - 1)
  <2>1. LastSlash(front, p) /\ L[e - 1] = c
    BY <1>3, <1>6, <1>8
  <2>2. Proper(c) /\ \E u : Shows(u, c, g)
    BY <1>1, <1>4, <1>8, <2>1, Pop
  <2>3. PICK u : Shows(u, c, g)
    BY <2>2
  <2>4. Len(g) < FTP_MAX_PATH
    <3>1. p \in 1..(Len(front) - 1)
      BY <2>1 DEF LastSlash
    <3>2. p \in Nat /\ p < Len(front) /\ Len(g) = p
      BY <1>6, <3>1
    <3> QED
      BY <1>6, <3>2, PathAssumption
  <2> HIDE DEF c
  <2> QED
    BY <1>1, <1>2, <1>4, <2>1, <2>2, <2>3, <2>4, Arrive DEF d
<1> QED
  BY <1>7, <1>8

\* A name that stands for itself, if there is room for it, and if there is not.
LEMMA Down ==
  ASSUME NEW base, NEW s, NEW from, NEW b, NEW e, NEW L, NEW name,
         Takes(base, s, from, b, e, L, name),
         NEW front, Position(L, s, from, front),
         name \notin {<<>>, <<".">>, <<".", ".">>},
         NEW g, Extends(g, front, name)
  PROVE  /\ e - 1 \in 0..Len(s) /\ Text(L[e - 1]) = g
         /\ Len(g) < FTP_MAX_PATH => Position(L, s, e, g)
<1> DEFINE d == L[from - 1]
           c == Append(d, name)
<1>1. AtBreak(s, from) /\ Proper(d) /\ \E t : Shows(t, d, front)
  BY DEF Position
<1>2. Went(s, from, e, L, name)
  BY <1>1, Round
<1>3. L[e - 1] = c /\ IsName(name)
  BY <1>2 DEF Went, Enter
<1>4. PICK t : Shows(t, d, front)
  BY <1>1
<1>5. e - 1 \in 0..Len(s)
  BY <1>2 DEF Went
<1> HIDE DEF d
<1>6. Proper(c) /\ (\E u : Shows(u, c, g)) /\ Text(c) = g
  BY <1>1, <1>3, <1>4, Push
<1>7. PICK u : Shows(u, c, g)
  BY <1>6
<1> HIDE DEF c
<1>8. ASSUME Len(g) < FTP_MAX_PATH PROVE Position(L, s, e, g)
  BY <1>1, <1>2, <1>3, <1>6, <1>7, <1>8, Arrive DEF d
<1> QED
  BY <1>3, <1>5, <1>6, <1>8

-----------------------------------------------------------------------------
(***************************************************************************)
(* The buffer in front of dst.                                             *)
(***************************************************************************)

\* n characters of names.
Filled(b, n) ==
  /\ b \in [Offsets -> Chars \cup {"NUL"}] /\ n \in 1..(FTP_MAX_PATH - 1)
  /\ \A i \in 0..(n - 1) : b[i] \in Chars

\* A filled buffer has a name in front.
LEMMA FrontType ==
  ASSUME NEW b, NEW n, Filled(b, n)
  PROVE  /\ n \in Nat /\ n >= 1 /\ n < FTP_MAX_PATH
         /\ FrontOf(b, n) \in Seq(Chars) /\ Len(FrontOf(b, n)) = n
         /\ \A i \in 1..n : FrontOf(b, n)[i] = b[i - 1]
<1>1. n \in Nat /\ n >= 1 /\ n < FTP_MAX_PATH /\ \A i \in 0..(n - 1) : b[i] \in Chars
  BY PathAssumption DEF Filled
<1>2. \A i \in 1..n : b[i - 1] \in Chars
  BY <1>1
<1> QED
  BY <1>1, <1>2 DEF FrontOf

\* What a shorter front is.
LEMMA FrontShorter ==
  ASSUME NEW b, NEW n, Filled(b, n), NEW p \in 1..n
  PROVE  FrontOf(b, p) = SubSeq(FrontOf(b, n), 1, p)
<1> DEFINE f == FrontOf(b, n)
           g == FrontOf(b, p)
           x == SubSeq(f, 1, p)
<1>1. n \in Nat /\ f \in Seq(Chars) /\ Len(f) = n /\ \A i \in 1..n : f[i] = b[i - 1]
  BY FrontType
<1>2. Filled(b, p)
  <2>1. /\ b \in [Offsets -> Chars \cup {"NUL"}] /\ n \in 1..(FTP_MAX_PATH - 1)
        /\ \A i \in 0..(n - 1) : b[i] \in Chars
    BY DEF Filled
  <2>2. p \in 1..(FTP_MAX_PATH - 1) /\ \A i \in 0..(p - 1) : i \in 0..(n - 1)
    BY <2>1, Between
  <2> QED
    BY <2>1, <2>2 DEF Filled
<1>3. g \in Seq(Chars) /\ Len(g) = p /\ \A i \in 1..p : g[i] = b[i - 1]
  BY <1>2, FrontType
<1> HIDE DEF f, g
<1>4. x \in Seq(Chars) /\ Len(x) = p /\ \A i \in 1..p : x[i] = f[i] /\ i \in 1..n
  BY <1>1
<1> HIDE DEF x
<1>5. g = x
  BY <1>1, <1>3, <1>4, SeqEqual
<1> QED
  BY <1>5 DEF f, g, x

\* The same characters make the same front.
LEMMA FrontIs ==
  ASSUME NEW b, NEW n, Filled(b, n), NEW s \in Seq(Chars), Len(s) = n,
         \A i \in 0..(n - 1) : b[i] = s[i + 1]
  PROVE  FrontOf(b, n) = s
<1> DEFINE f == FrontOf(b, n)
<1>1. n \in Nat /\ f \in Seq(Chars) /\ Len(f) = n /\ \A i \in 1..n : f[i] = b[i - 1]
  BY FrontType
<1> HIDE DEF f
<1>2. ASSUME NEW i \in 1..n PROVE f[i] = s[i]
  <2>1. i - 1 \in 0..(n - 1) /\ (i - 1) + 1 = i
    BY <1>1
  <2> QED
    BY <1>1, <2>1
<1>3. f = s
  BY <1>1, <1>2, SeqEqual
<1> QED
  BY <1>3 DEF f

\* g is f and, behind it, x.
Joins(g, f, x) ==
  /\ g \in Seq(Chars) /\ Len(g) = Len(f) + Len(x)
  /\ \A i \in 1..Len(f) : g[i] = f[i]
  /\ \A i \in 1..Len(x) : g[Len(f) + i] = x[i]

\* What concatenation does.
LEMMA Concatenated ==
  ASSUME NEW f \in Seq(Chars), NEW x \in Seq(Chars)
  PROVE  Joins(f \o x, f, x)
  BY DEF Joins

\* c is the buffer b with x, and a NUL, written behind the first n characters.
Appends(c, m, b, n, x) ==
  /\ x \in Seq(Chars) /\ m = n + Len(x) /\ n + Len(x) < FTP_MAX_PATH
  /\ c = Write(b, n, x \o <<"NUL">>)

\* What is written behind a front lengthens it.
LEMMA FrontLonger ==
  ASSUME NEW b, NEW n, Filled(b, n), NEW c, NEW m, NEW x, Appends(c, m, b, n, x)
  PROVE  FrontOf(c, m) = FrontOf(b, n) \o x
<1>0. /\ x \in Seq(Chars) /\ m = n + Len(x) /\ n + Len(x) < FTP_MAX_PATH
      /\ c = Write(b, n, x \o <<"NUL">>)
  BY DEF Appends
<1> USE <1>0
<1> DEFINE f == FrontOf(b, n)
           g == f \o x
           z == x \o <<"NUL">>
<1>1. /\ n \in Nat /\ n >= 1 /\ n < FTP_MAX_PATH
      /\ f \in Seq(Chars) /\ Len(f) = n /\ \A i \in 1..n : f[i] = b[i - 1]
  BY FrontType
<1>2. /\ z \in Seq(Chars \cup {"NUL"}) /\ Len(z) = Len(x) + 1 /\ Len(x) \in Nat
      /\ \A i \in 1..Len(x) : z[i] = x[i]
  OBVIOUS
<1>3. c = Write(b, n, z)
  OBVIOUS
<1> HIDE DEF z
<1>4. /\ c \in [Offsets -> Chars \cup {"NUL"}]
      /\ \A i \in Offsets : i < n => c[i] = b[i]
      /\ \A i \in 1..Len(z) : n + i - 1 \in Offsets => c[n + i - 1] = z[i]
  <2>1. b \in [Offsets -> Chars \cup {"NUL"}]
    BY DEF Filled
  <2>2. /\ Write(b, n, z) \in [Offsets -> Chars \cup {"NUL"}]
        /\ \A i \in Offsets : i < n => Write(b, n, z)[i] = b[i]
        /\ \A i \in 1..Len(z) : n + i - 1 \in Offsets => Write(b, n, z)[n + i - 1] = z[i]
    BY <1>1, <1>2, <2>1, WriteType
  <2> QED
    BY <1>3, <2>2
<1> HIDE DEF f
<1>5. /\ g \in Seq(Chars) /\ Len(g) = m
      /\ \A i \in 1..n : g[i] = f[i]
      /\ \A i \in 1..Len(x) : g[n + i] = x[i]
  <2>1. Joins(g, f, x)
    BY <1>1, Concatenated
  <2> HIDE DEF g
  <2>2. Len(f) = n
    BY <1>1
  <2> QED
    BY <2>1, <2>2 DEF Joins
<1> HIDE DEF g
<1>6. ASSUME NEW i \in 0..(m - 1) PROVE c[i] = g[i + 1]
  <2>1. i \in Offsets
    BY <1>1, <1>2, PathAssumption DEF Offsets
  <2>2. CASE i < n
    <3>1. i + 1 \in 1..n /\ (i + 1) - 1 = i
      BY <1>1, <2>2
    <3>2. c[i] = b[i]
      BY <1>4, <2>1, <2>2
    <3>3. g[i + 1] = f[i + 1] /\ f[i + 1] = b[(i + 1) - 1]
      BY <1>1, <1>5, <3>1
    <3> QED
      BY <3>1, <3>2, <3>3
  <2>3. CASE i >= n
    <3> DEFINE j == i - n + 1
    <3>1. j \in 1..Len(x) /\ j \in 1..Len(z) /\ n + j - 1 = i /\ n + j = i + 1
      BY <1>1, <1>2, <2>3
    <3> HIDE DEF j
    <3> QED
      BY <1>2, <1>4, <1>5, <2>1, <3>1
  <2> QED
    BY <1>1, <2>2, <2>3
<1>7. m \in 1..(FTP_MAX_PATH - 1) /\ m \in Nat
  BY <1>1, <1>2, PathAssumption
<1>8. Filled(c, m)
  <2>1. ASSUME NEW i \in 0..(m - 1) PROVE c[i] \in Chars
    <3>1. i + 1 \in 1..m
      BY <1>7
    <3> QED
      BY <1>5, <1>6, <3>1
  <2> QED
    BY <1>4, <1>7, <2>1 DEF Filled
<1>9. FrontOf(c, m) = g
  BY <1>5, <1>6, <1>8, FrontIs
<1> QED
  BY <1>8, <1>9 DEF f, g

-----------------------------------------------------------------------------
(***************************************************************************)
(* The invariant from which the meaning of names follows.                  *)
(***************************************************************************)

\* The directory that the session is in, the one that a name starts from,
\* and the directories that the name leads through.
Home == Leads(<<>>, cwd)[Len(cwd)]
Base == IF path # <<>> /\ path[1] = "/" THEN <<>> ELSE Home
Way == Through(cwd, path)

\* d has a canonical name.
Canonical(d) == Proper(d) /\ \E t : IsText(t, d)

\* The current directory is canonical.
AtHome == Canonical(Home) /\ cwd = Text(Home)

\* In the loop the buffer shows where the walk is.
OnTheWay == pc = "walk" => Position(Way, path, start, FrontOf(buf, dst))

\* There is room for all of the first directories of L.
Fits(L, n) == \A i \in 0..n : ~Long(L[i])

\* Behind it the buffer holds the canonical name of where the name leads to.
Arrived ==
  pc = "done" => /\ Canonical(Way[Len(path)]) /\ Fits(Way, Len(path))
                 /\ FrontOf(buf, dst) = Text(Way[Len(path)])

\* A name is refused if there is no room for a directory on its way.
Refused == pc = "toolong" => ~Fits(Way, Len(path))

\* The invariant, on top of Inv.
Meaning == AtHome /\ OnTheWay /\ Arrived /\ Refused

\* The root has a canonical name.
LEMMA Root ==
  /\ Canonical(<<>>) /\ Text(<<>>) = <<"/">>
  /\ Shows([k \in 0..0 |-> <<>>], <<>>, <<"/">>)
<1> DEFINE t == [k \in 0..0 |-> <<>>]
           d == <<>>
<1>1. Len(d) = 0 /\ d \in Seq(Seq(Chars))
  OBVIOUS
<1>2. Proper(d)
  BY <1>1 DEF Proper, Dirs
<1>3. t \in [0..0 -> Seq(Chars)] /\ t[0] = <<>>
  OBVIOUS
<1> HIDE DEF t
<1>4. IsText(t, d)
  BY <1>1, <1>3 DEF IsText
<1>5. Text(d) = <<"/">>
  BY <1>2, <1>4, TextIs DEF Proper
<1>6. Shows(t, d, <<"/">>)
  BY <1>4, RootText DEF Shows
<1> QED
  BY <1>2, <1>4, <1>5, <1>6 DEF Canonical, t

\* A canonical name shows its directory.
LEMMA TextShows ==
  ASSUME NEW d, Proper(d), NEW t, IsText(t, d)
  PROVE  Shows(t, d, Text(d))
<1>1. Text(d) = IF d = <<>> THEN <<"/">> ELSE t[Len(d)]
  BY TextIs DEF Proper
<1>2. CASE d = <<>>
  <2>1. t[Len(d)] \o <<"/">> = <<"/">>
    BY <1>2, RootText
  <2> QED
    BY <1>1, <1>2, <2>1 DEF Shows
<1>3. CASE d # <<>>
  BY <1>1, <1>3 DEF Shows
<1> QED
  BY <1>2, <1>3

\* Before the first component.
LEMMA Depart ==
  ASSUME NEW base, Proper(base), NEW s \in Seq(Chars), NEW t, NEW front,
         Shows(t, base, front), Len(front) < FTP_MAX_PATH
  PROVE  Position(Leads(base, s), s, 1, front)
<1> DEFINE L == Leads(base, s)
<1>1. L[0] = base
  BY LeadsIs DEF Proper
<1> HIDE DEF L
<1>2. ~Long(base)
  <2>1. Len(Text(base)) <= Len(front) /\ Text(base) \in Seq(Chars)
    BY Closed
  <2>2. Len(front) \in Nat
    BY ShowsLast
  <2>3. Len(Text(base)) \in Nat
    BY <2>1
  <2> QED
    BY <2>1, <2>2, <2>3, PathAssumption DEF Long
<1>3. \A i \in 0..(1 - 1) : i = 0
  OBVIOUS
<1>4. 1 - 1 = 0
  OBVIOUS
<1> QED
  BY <1>1, <1>2, <1>3, <1>4 DEF Position, AtBreak, L

\* g is front without a separator at its end.
Trims(g, front) ==
  g = IF Len(front) > 1 /\ front[Len(front)] = "/"
      THEN SubSeq(front, 1, Len(front) - 1) ELSE front

\* Behind the last component.
LEMMA End ==
  ASSUME NEW L, NEW s \in Seq(Chars), NEW from \in 1..(Len(s) + 1), from > Len(s),
         NEW front, Position(L, s, from, front), NEW g, Trims(g, front)
  PROVE  Canonical(L[Len(s)]) /\ Fits(L, Len(s)) /\ g = Text(L[Len(s)])
<1>1. from - 1 = Len(s)
  OBVIOUS
<1>2. /\ Proper(L[Len(s)]) /\ \E t : Shows(t, L[Len(s)], front)
      /\ \A i \in 0..Len(s) : ~Long(L[i])
  BY <1>1 DEF Position
<1>3. PICK t : Shows(t, L[Len(s)], front)
  BY <1>2
<1>4. g = Text(L[Len(s)])
  BY <1>2, <1>3, Closed DEF Trims
<1> QED
  BY <1>2, <1>3, <1>4 DEF Canonical, Fits, Shows

\* A name leads through directories.
LEMMA WayIs ==
  ASSUME AtHome
  PROVE  Way = Leads(Base, path) /\ Base \in Dirs
<1>1. Home \in Dirs /\ <<>> \in Dirs
  BY DEF AtHome, Canonical, Proper, Dirs
<1> QED
  BY <1>1 DEF Way, Through, Base, Home

\* The buffer is filled up to dst.
LEMMA IsFilled ==
  ASSUME Inv, pc \in {"walk", "done"}
  PROVE  Filled(buf, dst)
  BY DEF Inv, TypeOK, InBounds, NoNul, Filled

-----------------------------------------------------------------------------

\* A new session is at the root.
LEMMA InitMeaning == Init => Meaning
<1> SUFFICES ASSUME Init PROVE Meaning
  OBVIOUS
<1>1. cwd = <<"/">> /\ pc = "idle"
  BY DEF Init
<1>2. PICK t : IsText(t, <<>>)
  BY Root DEF Canonical
<1>3. Leads(<<>>, Text(<<>>))[Len(Text(<<>>))] = <<>>
  BY <1>2, Root, RoundTrip DEF Canonical
<1>4. Home = <<>>
  BY <1>1, <1>3, Root DEF Home
<1> QED
  BY <1>1, <1>4, Root DEF Meaning, AtHome, OnTheWay, Arrived, Refused

\* What a call puts into the buffer.
LEMMA CallFront ==
  ASSUME Inv, NEW name \in Names, Call(name)
  PROVE  FrontOf(buf', dst') = IF name # <<>> /\ name[1] = "/" THEN <<"/">> ELSE cwd
<1>1. pc' = "walk"
  BY DEF Call
<1>2. Filled(buf', dst')
  <2>1. Inv'
    BY CallInv
  <2> QED
    BY <1>1, <2>1 DEF Inv, TypeOK, InBounds, NoNul, Filled
<1>3. CASE name # <<>> /\ name[1] = "/"
  <2>1. dst' = 1 /\ buf'[0] = "/"
    <3>1. 0 \in Offsets
      BY PathAssumption DEF Offsets
    <3> QED
      BY <1>3, <3>1 DEF Call, Inv, TypeOK
  <2>2. <<"/">> \in Seq(Chars) /\ Len(<<"/">>) = 1 /\ <<"/">>[1] = "/"
    BY PathAssumption
  <2>3. \A i \in 0..(1 - 1) : i = 0 /\ i + 1 = 1
    OBVIOUS
  <2>4. FrontOf(buf', dst') = <<"/">>
    BY <1>2, <2>1, <2>2, <2>3, FrontIs, ZenonT(30)
  <2> QED
    BY <1>3, <2>4
<1>4. CASE ~(name # <<>> /\ name[1] = "/")
  <2> DEFINE s == Append(cwd, "NUL")
  <2>1. buf' = Write(buf, 0, s) /\ dst' = Len(cwd)
    BY <1>4 DEF Call
  <2>2. /\ cwd \in Seq(Chars) /\ Len(cwd) \in 1..(FTP_MAX_PATH - 1)
        /\ buf \in [Offsets -> Chars \cup {"NUL"}]
    BY PathAssumption DEF Inv, TypeOK, InBounds
  <2>3. s \in Seq(Chars \cup {"NUL"}) /\ Len(s) = Len(cwd) + 1
    BY <2>2
  <2>4. \A i \in 1..Len(cwd) : s[i] = cwd[i]
    BY <2>2
  <2> HIDE DEF s
  <2>5. \A i \in 1..Len(s) : 0 + i - 1 \in Offsets => buf'[0 + i - 1] = s[i]
    BY <2>1, <2>2, <2>3, WriteType
  <2>6. ASSUME NEW i \in 0..(Len(cwd) - 1) PROVE buf'[i] = cwd[i + 1]
    <3>1. i + 1 \in 1..Len(s) /\ i + 1 \in 1..Len(cwd) /\ 0 + (i + 1) - 1 = i /\ i \in Offsets
      BY <2>2, <2>3, PathAssumption DEF Offsets
    <3> QED
      BY <2>4, <2>5, <3>1
  <2>7. FrontOf(buf', dst') = cwd
    BY <1>2, <2>1, <2>2, <2>6, FrontIs
  <2> QED
    BY <1>4, <2>7
<1> QED
  BY <1>3, <1>4

\* A call starts at the root or where the session is.
LEMMA CallMeaning ==
  ASSUME Inv, Meaning, NEW name \in Names, Call(name) PROVE Meaning'
<1> DEFINE absolute == name # <<>> /\ name[1] = "/"
           front == IF absolute THEN <<"/">> ELSE cwd
           base == IF absolute THEN <<>> ELSE Home
<1>1. pc' = "walk" /\ path' = name /\ start' = 1 /\ cwd' = cwd
  BY DEF Call
<1>2. FrontOf(buf', dst') = front
  BY CallFront
<1>3. AtHome /\ Home' = Home
  BY <1>1 DEF Meaning, Home
<1>4. Proper(base) /\ \E t : Shows(t, base, front)
  <2>1. CASE absolute
    BY <2>1, Root DEF Canonical
  <2>2. CASE ~absolute
    <3>1. PICK t : IsText(t, Home)
      BY <1>3 DEF AtHome, Canonical
    <3>2. Proper(Home) /\ cwd = Text(Home)
      BY <1>3 DEF AtHome, Canonical
    <3>3. Shows(t, Home, cwd)
      BY <3>1, <3>2, TextShows
    <3> QED
      BY <2>2, <3>2, <3>3
  <2> QED
    BY <2>1, <2>2
<1>5. Len(front) < FTP_MAX_PATH
  <2>1. Len(<<"/">>) = 1
    OBVIOUS
  <2> QED
    BY <2>1, PathAssumption DEF Inv, InBounds
<1>6. Way' = Leads(base, name)
  <2>1. Way' = Through(cwd, name)
    BY <1>1 DEF Way
  <2> QED
    BY <2>1 DEF Through, Home
<1> HIDE DEF front, base
<1>7. name \in Seq(Chars)
  BY NamesType
<1>8. PICK t : Shows(t, base, front)
  BY <1>4
<1>9. Position(Leads(base, name), name, 1, front)
  BY <1>4, <1>5, <1>7, <1>8, Depart
<1>10. OnTheWay'
  BY <1>1, <1>2, <1>6, <1>9 DEF OnTheWay
<1>11. AtHome'
  BY <1>1, <1>3 DEF AtHome
<1> QED
  BY <1>1, <1>10, <1>11 DEF Meaning, Arrived, Refused

\* Behind the loop the buffer has the canonical name.
LEMMA FinishMeaning == ASSUME Inv, Meaning, Finish PROVE Meaning'
<1> DEFINE f == FrontOf(buf, dst)
           g == FrontOf(buf', dst')
<1>1. /\ pc = "walk" /\ pc' = "done" /\ cwd' = cwd /\ path' = path /\ start > Len(path)
      /\ dst' = IF dst > 1 /\ buf[dst - 1] = "/" THEN dst - 1 ELSE dst
      /\ buf' = [buf EXCEPT ![dst'] = "NUL"]
  BY DEF Finish
<1>2. Way' = Way /\ Home' = Home /\ AtHome
  BY <1>1 DEF Way, Home, Meaning
<1>3. path \in Seq(Chars) /\ start \in 1..(Len(path) + 1)
  BY DEF Inv, TypeOK
<1>4. Position(Way, path, start, f)
  BY <1>1 DEF Meaning, OnTheWay
<1>5. Filled(buf, dst)
  BY <1>1, IsFilled
<1>6. dst \in Nat /\ dst >= 1 /\ Len(f) = dst /\ f \in Seq(Chars)
      /\ \A i \in 1..dst : f[i] = buf[i - 1]
  BY <1>5, FrontType
<1>7. dst' \in 1..dst /\ \A i \in 1..dst' : buf'[i - 1] = buf[i - 1]
  <2>1. dst' \in 1..dst
    BY <1>1, <1>6
  <2>2. \A i \in 1..dst' : i - 1 # dst' /\ i - 1 \in Offsets
    BY <1>5, <1>6, <2>1, PathAssumption DEF Filled, Offsets
  <2>3. buf \in [Offsets -> Chars \cup {"NUL"}]
    BY <1>5 DEF Filled
  <2> QED
    BY <1>1, <2>1, <2>2, <2>3
<1>8. g = FrontOf(buf, dst')
  BY <1>7 DEF FrontOf
<1>9. g = SubSeq(f, 1, dst')
  BY <1>5, <1>7, <1>8, FrontShorter
<1>10. Trims(g, f)
  <2>1. f[Len(f)] = buf[dst - 1]
    BY <1>6
  <2>2. SubSeq(f, 1, dst) = f
    BY <1>6
  <2> QED
    BY <1>1, <1>6, <1>9, <2>1, <2>2 DEF Trims
<1> HIDE DEF f, g
<1>11. Canonical(Way[Len(path)]) /\ Fits(Way, Len(path)) /\ g = Text(Way[Len(path)])
  BY <1>1, <1>3, <1>4, <1>10, End
<1>12. Arrived'
  BY <1>1, <1>2, <1>11 DEF Arrived, g
<1>13. AtHome'
  BY <1>1, <1>2 DEF AtHome
<1> QED
  BY <1>1, <1>12, <1>13 DEF Meaning, OnTheWay, Refused

\* vfs_chdir goes to the directory that the canonical name names.
LEMMA ChdirMeaning == ASSUME Inv, Meaning, vfs_chdir PROVE Meaning'
<1> DEFINE d == Way[Len(path)]
<1>1. pc = "done" /\ pc' = "idle" /\ cwd' = CString
  BY DEF vfs_chdir
<1>2. Canonical(d) /\ cwd' = Text(d)
  BY <1>1, CStringIs DEF Meaning, Arrived
<1> HIDE DEF d
<1>3. PICK t : IsText(t, d)
  BY <1>2 DEF Canonical
<1>4. Leads(<<>>, Text(d))[Len(Text(d))] = d
  BY <1>2, <1>3, RoundTrip DEF Canonical
<1>5. Home' = d
  BY <1>2, <1>4 DEF Home
<1>6. AtHome'
  BY <1>2, <1>5 DEF AtHome
<1> QED
  BY <1>1, <1>6 DEF Meaning, OnTheWay, Arrived, Refused

\* w consists of x, y and z.
Parts(w, x, y, z) ==
  w \in Seq(Chars) /\ Len(w) = Len(x) + Len(y) + Len(z) /\ w = x \o (y \o z)

\* Concatenation is associative.
LEMMA ThreeParts ==
  ASSUME NEW x \in Seq(Chars), NEW y \in Seq(Chars), NEW z \in Seq(Chars)
  PROVE  Parts(x \o y \o z, x, y, z)
  BY DEF Parts

\* A round of the loop takes in one component, or finds that there is no
\* room for where it leads to.
LEMMA WalkMeaning == ASSUME Inv, Meaning, Walk PROVE Meaning'
<1>1. PICK b, e \in 1..(Len(path) + 1) :
        LET name == SubSeq(path, b, e - 1)
            slash == Separator(dst)
            behind == dst + Len(slash)
        IN  /\ Component(b, e)
            /\ start' = e
            /\ \/ /\ name \in {<<>>, <<".">>}
                  /\ UNCHANGED <<pc, buf, dst>>
               \/ /\ name = <<".", ".">>
                  /\ \E p \in 1..dst : Parent(p) /\ dst' = p
                  /\ UNCHANGED <<pc, buf>>
               \/ /\ name \notin {<<>>, <<".">>, <<".", ".">>}
                  /\ IF Overflows(behind, name)
                     THEN /\ pc' = "toolong"
                          /\ buf' = Write(buf, dst, slash)
                          /\ dst' = behind
                     ELSE /\ buf' = Write(buf, dst, slash \o name \o <<"NUL">>)
                          /\ dst' = behind + Len(name)
                          /\ UNCHANGED pc
  BY DEF Walk
<1> DEFINE name == SubSeq(path, b, e - 1)
           slash == Separator(dst)
           behind == dst + Len(slash)
           f == FrontOf(buf, dst)
<1>2. /\ pc = "walk" /\ start <= Len(path) /\ cwd' = cwd /\ path' = path /\ start' = e
      /\ Component(b, e)
  BY <1>1 DEF Walk
<1>3. Way' = Way /\ Home' = Home /\ AtHome
  BY <1>2 DEF Way, Home, Meaning
<1>4. AtHome'
  BY <1>2, <1>3 DEF AtHome
<1>5. Takes(Base, path, start, b, e, Way, name)
  <2>1. path \in Seq(Chars) /\ start \in 1..Len(path)
    BY <1>2 DEF Inv, TypeOK
  <2>2. ComponentOf(path, start, b, e)
    BY <1>2 DEF Component, ComponentOf
  <2> QED
    BY <1>3, <2>1, <2>2, WayIs DEF Takes
<1>6. Position(Way, path, start, f)
  BY <1>2 DEF Meaning, OnTheWay
<1>7. Filled(buf, dst)
  BY <1>2, IsFilled
<1>8. /\ dst \in Nat /\ dst >= 1 /\ dst < FTP_MAX_PATH /\ f \in Seq(Chars) /\ Len(f) = dst
      /\ \A i \in 1..dst : f[i] = buf[i - 1]
  BY <1>7, FrontType
<1>9. Len(f) < FTP_MAX_PATH
  BY <1>8
<1>10. name \in Seq(Chars) /\ slash = IF f[Len(f)] # "/" THEN <<"/">> ELSE <<>>
  <2>1. b <= e /\ path \in Seq(Chars)
    BY <1>2 DEF Component, Inv, TypeOK
  <2>2. name \in Seq(Chars)
    BY <2>1, ComponentType
  <2>3. f[Len(f)] = buf[dst - 1]
    BY <1>8
  <2> QED
    BY <2>2, <2>3 DEF Separator
<1>11. slash \in Seq(Chars) /\ Len(slash) \in Nat
  BY PathAssumption DEF Separator
<1>12. Len(name) \in Nat
  BY <1>10
<1>13. ASSUME pc' = "walk", Position(Way, path, e, FrontOf(buf', dst')) PROVE Meaning'
  BY <1>2, <1>3, <1>4, <1>13 DEF Meaning, OnTheWay, Arrived, Refused
<1>14. CASE name \in {<<>>, <<".">>} /\ UNCHANGED <<pc, buf, dst>>
  <2> HIDE DEF name
  <2>1. Position(Way, path, e, f)
    <3> HIDE DEF f
    <3> QED
      BY <1>5, <1>6, <1>9, <1>14, Stay
  <2>2. FrontOf(buf', dst') = f
    BY <1>14
  <2> HIDE DEF f
  <2> QED
    BY <1>2, <1>13, <1>14, <2>1, <2>2
<1>15. CASE /\ name = <<".", ".">>
            /\ \E p \in 1..dst : Parent(p) /\ dst' = p
            /\ UNCHANGED <<pc, buf>>
  <2>1. PICK p \in 1..dst : Parent(p) /\ dst' = p
    BY <1>15
  <2> DEFINE g == FrontOf(buf, p)
  <2>2. g = SubSeq(f, 1, p)
    BY <1>7, FrontShorter
  <2>3. FrontOf(buf', dst') = g
    BY <1>15, <2>1
  <2> HIDE DEF name, g
  <2>4. Len(f) > 1 => LastSlash(f, p)
    <3> SUFFICES ASSUME dst > 1 PROVE LastSlash(f, p)
      BY <1>8
    <3>1. p \in 1..(dst - 1) /\ buf[p - 1] = "/" /\ \A i \in p..(dst - 2) : buf[i] # "/"
      BY <2>1 DEF Parent
    <3>2. f[p] = "/"
      BY <1>8, <3>1
    <3>3. ASSUME NEW i \in (p + 1)..(dst - 1) PROVE f[i] # "/"
      <4>1. i - 1 \in p..(dst - 2) /\ i \in 1..dst
        BY <1>8, <3>1
      <4> QED
        BY <1>8, <3>1, <4>1
    <3> HIDE DEF f
    <3> QED
      BY <1>8, <3>1, <3>2, <3>3 DEF LastSlash
  <2>5. Len(f) = 1 => p = 1
    BY <1>8
  <2> HIDE DEF f
  <2>6. Position(Way, path, e, g)
    <3>1. Ascends(g, f)
      BY <2>2, <2>4, <2>5 DEF Ascends
    <3> QED
      BY <1>5, <1>6, <1>9, <1>15, <3>1, Up
  <2> QED
    BY <1>2, <1>13, <1>15, <2>3, <2>6
<1> DEFINE g == f \o slash \o name
<1>16. Extends(g, f, name)
  BY <1>10 DEF Extends
<1>17. g \in Seq(Chars) /\ Len(g) = behind + Len(name) /\ g = f \o (slash \o name)
  <2> HIDE DEF f, slash, name
  <2>1. Len(g) = Len(f) + Len(slash) + Len(name) /\ g \in Seq(Chars) /\ g = f \o (slash \o name)
    <3>1. Parts(g, f, slash, name)
      BY <1>8, <1>10, <1>11, ThreeParts
    <3> HIDE DEF g
    <3> QED
      BY <3>1 DEF Parts
  <2>2. Len(f) = dst
    BY <1>8
  <2> QED
    BY <2>1, <2>2
<1> HIDE DEF g, f, slash, name, behind
<1>18. ASSUME name \notin {<<>>, <<".">>, <<".", ".">>}
       PROVE  /\ e - 1 \in 0..Len(path) /\ Text(Way[e - 1]) = g
              /\ Len(g) < FTP_MAX_PATH => Position(Way, path, e, g)
  BY <1>5, <1>6, <1>16, <1>18, Down
<1>19. CASE /\ name \notin {<<>>, <<".">>, <<".", ".">>}
            /\ Overflows(behind, name) /\ pc' = "toolong"
  <2>1. Long(Way[e - 1]) /\ e - 1 \in 0..Len(path)
    BY <1>17, <1>18, <1>19 DEF Overflows, Long
  <2>3. ~Fits(Way, Len(path))
    BY <2>1 DEF Fits
  <2> QED
    BY <1>2, <1>3, <1>4, <1>19, <2>3 DEF Meaning, OnTheWay, Arrived, Refused
<1>20. CASE /\ name \notin {<<>>, <<".">>, <<".", ".">>}
            /\ ~Overflows(behind, name) /\ buf' = Write(buf, dst, slash \o name \o <<"NUL">>)
            /\ dst' = behind + Len(name) /\ pc' = pc
  <2> DEFINE x == slash \o name
  <2>1. x \in Seq(Chars) /\ Len(x) = Len(slash) + Len(name)
    BY <1>10, <1>11
  <2>2. dst' = dst + Len(x) /\ dst + Len(x) < FTP_MAX_PATH
    <3> HIDE DEF x
    <3> QED
      BY <1>8, <1>11, <1>12, <1>20, <2>1, PathAssumption DEF behind, Overflows
  <2>3. buf' = Write(buf, dst, x \o <<"NUL">>) /\ g = f \o x
    BY <1>17, <1>20
  <2> HIDE DEF x
  <2>4. FrontOf(buf', dst') = FrontOf(buf, dst) \o x
    <3>1. Appends(buf', dst', buf, dst, x)
      BY <2>1, <2>2, <2>3 DEF Appends
    <3> QED
      BY <1>7, <3>1, FrontLonger
  <2>5. FrontOf(buf', dst') = g
    BY <2>3, <2>4 DEF f
  <2>6. Len(g) < FTP_MAX_PATH
    BY <1>17, <1>20, <2>2
  <2>7. Position(Way, path, e, g)
    BY <1>18, <1>20, <2>6
  <2> QED
    BY <1>2, <1>13, <1>20, <2>5, <2>7
<1> QED
  BY <1>1, <1>14, <1>15, <1>19, <1>20 DEF name, slash, behind

\* Every step keeps the meaning of names.
LEMMA StepMeaning == Inv /\ Meaning /\ [Next]_vars => Meaning'
<1> SUFFICES ASSUME Inv, Meaning, [Next]_vars PROVE Meaning'
  OBVIOUS
<1>1. CASE UNCHANGED vars
  BY <1>1 DEF vars, Meaning, AtHome, OnTheWay, Arrived, Refused, Home, Way
<1>2. CASE Use
  <2>1. pc' = "idle" /\ cwd' = cwd
    BY <1>2 DEF Use
  <2>2. AtHome'
    BY <2>1 DEF Meaning, AtHome, Home
  <2> QED
    BY <2>1, <2>2 DEF Meaning, OnTheWay, Arrived, Refused
<1> QED
  BY <1>1, <1>2, WalkMeaning, FinishMeaning, ChdirMeaning, CallMeaning DEF Next

\* What a client's name means is known in every state.
THEOREM VfsPathMeaning == Spec => []Meaning
  BY VfsPathInvariant, InitMeaning, StepMeaning, PTL DEF Spec

\* The session's current directory is always the canonical name of where it
\* is: vfs_chdir never stores a name with ".", ".." or a doubled separator.
THEOREM VfsPathCwdCanonical == Spec => []CwdCanonical
<1>1. Meaning => CwdCanonical
  BY DEF Meaning, AtHome, CwdCanonical, Home
<1> QED
  BY <1>1, VfsPathMeaning, PTL

\* Whatever name a client gives, wherever it is and whatever earlier calls
\* left in the buffer, a call of vfs_realpath that succeeds has built the
\* canonical name of what the client's name means.
THEOREM VfsPathRealpathCorrect == Spec => []RealpathCorrect
<1>1. Inv /\ Meaning => RealpathCorrect
  BY CStringIs DEF Meaning, Arrived, RealpathCorrect, Way
<1> QED
  BY <1>1, VfsPathInvariant, VfsPathMeaning, PTL

\* vfs_realpath fails with ENAMETOOLONG exactly if the name leads through a
\* directory whose canonical name the buffer has no room for.
THEOREM VfsPathTooLongCorrect == Spec => []TooLongCorrect
<1>1. Inv /\ Meaning => TooLongCorrect
  <2> SUFFICES ASSUME Inv, Meaning PROVE TooLongCorrect
    OBVIOUS
  <2>1. pc = "done" => ~\E i \in 0..Len(path) : Long(Way[i])
    BY DEF Meaning, Arrived, Fits
  <2>2. pc = "toolong" => \E i \in 0..Len(path) : Long(Way[i])
    BY DEF Meaning, Refused, Fits
  <2> QED
    BY <2>1, <2>2 DEF TooLongCorrect, Way, Long
<1> QED
  BY <1>1, VfsPathInvariant, VfsPathMeaning, PTL

=============================================================================
