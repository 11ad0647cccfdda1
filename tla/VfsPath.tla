----------------------------- MODULE VfsPath -----------------------------
(***************************************************************************)
(* The virtual file system's names (vfs.c).  vfs_realpath builds, in one   *)
(* buffer that all calls of a session share, the canonical form of a name  *)
(* that a client gave, relative to the session's current directory; the    *)
(* root of the user's real directory stands before the buffer, so that     *)
(* whatever the buffer holds names something below it.  vfs_chdir makes    *)
(* the result the current directory.                                       *)
(*                                                                         *)
(* Names are sequences of characters; what vfs_realpath tells apart is the *)
(* separator, the dot and any other character.  The buffer keeps what      *)
(* earlier calls left in it, behind the terminating NUL.                   *)
(***************************************************************************)
EXTENDS Integers, Sequences

CONSTANTS
  Chars,         \* the characters of names, "/" and "." among them
  FTP_MAX_PATH,  \* size of the buffer
  MaxLen         \* bound on the length of a name that a client gives

ASSUME PathAssumption ==
  /\ {"/", "."} \subseteq Chars /\ "NUL" \notin Chars
  /\ FTP_MAX_PATH \in Nat /\ FTP_MAX_PATH > 1
  /\ MaxLen \in Nat

VARIABLES
  pc,     \* "idle", "walk", "done" or "toolong"
  cwd,    \* session->virt_path
  path,   \* the name that is being looked up
  start,  \* where in path the walk is, from 1
  buf,    \* virt_path of vfs.c: offset -> character
  dst     \* offset in buf of the next character to write

vars == <<pc, cwd, path, start, buf, dst>>

Offsets == 0..(FTP_MAX_PATH - 1)

\* All names that a client can give.
Names == UNION {[1..n -> Chars] : n \in 0..MaxLen}

\* init_vfs_pool, and the current directory that new_session sets.
Init ==
  /\ pc = "idle"
  /\ cwd = <<"/">> /\ path = <<>> /\ start = 1
  /\ buf = [i \in Offsets |-> IF i = 0 THEN "/" ELSE "NUL"]
  /\ dst = 0

\* The contents b of the buffer with s written at offset o.
Write(b, o, s) ==
  [i \in Offsets |-> IF i >= o /\ i < o + Len(s) THEN s[i - o + 1] ELSE b[i]]

-----------------------------------------------------------------------------
(***************************************************************************)
(* vfs_realpath                                                            *)
(***************************************************************************)

\* A call, with a name that the client gives.  An absolute name starts at the
\* root, another one behind the current directory, which fits (InBounds): the
\* refusal of one that does not is never taken.
Call(name) ==
  /\ pc = "idle"
  /\ path' = name /\ start' = 1
  /\ IF name # <<>> /\ name[1] = "/"
     THEN /\ buf' = [buf EXCEPT ![0] = "/"]
          /\ dst' = 1
     ELSE /\ buf' = Write(buf, 0, Append(cwd, "NUL"))
          /\ dst' = Len(cwd)
  /\ pc' = "walk"
  /\ UNCHANGED cwd

\* The component of path at or behind start: its first character is the
\* b-th, and the e-th is the first one behind it.
Component(b, e) ==
  /\ b \in start..(Len(path) + 1) /\ e \in b..(Len(path) + 1)
  /\ \A i \in start..(b - 1) : path[i] = "/"
  /\ \A i \in b..(e - 1) : path[i] # "/"
  /\ b <= Len(path) => path[b] # "/"
  /\ e <= Len(path) => path[e] = "/"

\* Where ".." moves dst to: behind the separator before the last name.
Parent(p) ==
  IF dst > 1
  THEN p \in 1..(dst - 1) /\ buf[p - 1] = "/" /\ \A i \in p..(dst - 2) : buf[i] # "/"
  ELSE p = dst

\* The separator that a name is put behind.
Separator(o) == IF buf[o - 1] # "/" THEN <<"/">> ELSE <<>>

\* Mutants of Overflows: no room is left for the NUL; room for two is.
Overflows_exact(o, name) == o + Len(name) > FTP_MAX_PATH
Overflows_early(o, name) == o + Len(name) + 1 >= FTP_MAX_PATH

\* The test for room: the name and a NUL, at offset o.
Overflows(o, name) == o + Len(name) >= FTP_MAX_PATH

\* One round of the loop.
Walk ==
  /\ pc = "walk" /\ start <= Len(path)
  /\ \E b, e \in 1..(Len(path) + 1) :
       LET name == SubSeq(path, b, e - 1)
           slash == Separator(dst)
           behind == dst + Len(slash)
       IN  /\ Component(b, e)
           /\ start' = e
           /\ \/ /\ name \in {<<>>, <<".">>}
                 /\ UNCHANGED <<pc, buf, dst>>
              \/ /\ name = <<".", ".">>
                 /\ \E p \in 1..dst : Parent(p) /\ dst' = p
                 /\ UNCHANGED <<pc, buf>>
              \/ /\ name \notin {<<>>, <<".">>, <<".", ".">>}
                 /\ IF Overflows(behind, name)
                    THEN /\ pc' = "toolong"
                         /\ buf' = Write(buf, dst, slash)
                         /\ dst' = behind
                    ELSE /\ buf' = Write(buf, dst, slash \o name \o <<"NUL">>)
                         /\ dst' = behind + Len(name)
                         /\ UNCHANGED pc
  /\ UNCHANGED <<cwd, path>>

\* Mutant of Finish: the trailing separator stays.
Finish_slash ==
  /\ pc = "walk" /\ start > Len(path)
  /\ buf' = [buf EXCEPT ![dst] = "NUL"]
  /\ pc' = "done"
  /\ UNCHANGED <<cwd, path, start, dst>>

\* Behind the loop: a trailing separator goes, a NUL comes.
Finish ==
  /\ pc = "walk" /\ start > Len(path)
  /\ dst' = IF dst > 1 /\ buf[dst - 1] = "/" THEN dst - 1 ELSE dst
  /\ buf' = [buf EXCEPT ![dst'] = "NUL"]
  /\ pc' = "done"
  /\ UNCHANGED <<cwd, path, start>>

\* The C string in the buffer.
CString ==
  LET len == CHOOSE n \in Offsets : buf[n] = "NUL" /\ \A i \in 0..(n - 1) : buf[i] # "NUL"
  IN  [i \in 1..len |-> buf[i - 1]]

\* vfs_stat, vfs_open and the others hand the result to the kernel, or give
\* up with ENAMETOOLONG.
Use ==
  /\ pc \in {"done", "toolong"}
  /\ pc' = "idle" /\ path' = <<>> /\ start' = 1
  /\ UNCHANGED <<cwd, buf, dst>>

\* Mutant of vfs_chdir: the name is copied as the client gave it.
vfs_chdir_raw ==
  /\ pc = "done"
  /\ cwd' = path
  /\ pc' = "idle" /\ path' = <<>> /\ start' = 1
  /\ UNCHANGED <<buf, dst>>

\* vfs_chdir copies the result.
vfs_chdir ==
  /\ pc = "done"
  /\ cwd' = CString
  /\ pc' = "idle" /\ path' = <<>> /\ start' = 1
  /\ UNCHANGED <<buf, dst>>

Next == Walk \/ Finish \/ Use \/ vfs_chdir \/ \E name \in Names : Call(name)

Spec == Init /\ [][Next]_vars

-----------------------------------------------------------------------------
(***************************************************************************)
(* What a name means                                                       *)
(***************************************************************************)

\* A directory is the sequence of the names that lead to it from the root.
Enter(dirs, name) ==
  CASE name = <<".">> -> dirs
    [] name = <<".", ".">> -> IF dirs = <<>> THEN dirs ELSE SubSeq(dirs, 1, Len(dirs) - 1)
    [] OTHER -> Append(dirs, name)

\* The component of s whose last character is the i-th.
ComponentTo(s, i) ==
  LET b == CHOOSE k \in 1..i : /\ k = 1 \/ s[k - 1] = "/"
                              /\ \A j \in k..i : s[j] # "/"
  IN  SubSeq(s, b, i)

\* Where the first i characters of s lead to, from the directory base.
Leads(base, s) ==
  LET dirs[i \in 0..Len(s)] ==
        IF i = 0 THEN base
        ELSE IF s[i] # "/" /\ (i = Len(s) \/ s[i + 1] = "/")
             THEN Enter(dirs[i - 1], ComponentTo(s, i))
             ELSE dirs[i - 1]
  IN  dirs

\* The canonical name of a directory.
Text(dirs) ==
  LET text[i \in 0..Len(dirs)] == IF i = 0 THEN <<>> ELSE text[i - 1] \o <<"/">> \o dirs[i]
  IN  IF dirs = <<>> THEN <<"/">> ELSE text[Len(dirs)]

\* The directories that the name s leads through, from the directory d.
Through(d, s) ==
  Leads(IF s # <<>> /\ s[1] = "/" THEN <<>> ELSE Leads(<<>>, d)[Len(d)], s)

-----------------------------------------------------------------------------
(***************************************************************************)
(* Properties                                                              *)
(***************************************************************************)

\* The type invariant.
TypeOK ==
  /\ pc \in {"idle", "walk", "done", "toolong"}
  /\ cwd \in Seq(Chars) /\ path \in Seq(Chars)
  /\ start \in 1..(Len(path) + 1)
  /\ buf \in [Offsets -> Chars \cup {"NUL"}]
  /\ dst \in 0..FTP_MAX_PATH

\* The buffer is never written outside of its bounds, there is always room
\* for the NUL, and the separator at its front, at which the search for the
\* parent ends, is never lost; the current directory fits, and starts with
\* a separator.
InBounds ==
  /\ buf[0] = "/"
  /\ pc = "walk" => dst \in 1..(FTP_MAX_PATH - 1)
  /\ pc = "done" => dst \in 1..(FTP_MAX_PATH - 1) /\ buf[dst] = "NUL"
  /\ cwd # <<>> /\ cwd[1] = "/" /\ Len(cwd) < FTP_MAX_PATH

\* A call succeeds with the canonical name of what the client's name means,
\* whatever earlier calls left in the buffer.
RealpathCorrect == pc = "done" => CString = Text(Through(cwd, path)[Len(path)])

\* A call fails if and only if the name leads through a directory whose
\* canonical name does not fit.
TooLongCorrect ==
  LET TooLong == \E i \in 0..Len(path) : Len(Text(Through(cwd, path)[i])) >= FTP_MAX_PATH
  IN  /\ pc = "done" => ~TooLong
      /\ pc = "toolong" => TooLong

\* The current directory is always a canonical name.
CwdCanonical == cwd = Text(Leads(<<>>, cwd)[Len(cwd)])

=============================================================================
