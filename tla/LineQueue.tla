----------------------------- MODULE LineQueue -----------------------------
(***************************************************************************)
(* What the control connection promises: the commands that are executed    *)
(* are the lines that the client sent, each once and in order, whatever    *)
(* pieces the network delivers them in.                                    *)
(***************************************************************************)
EXTENDS Naturals, Sequences

CONSTANT Bytes     \* what the client sends: "NL", "CR", "SP" and others

VARIABLES
  stream,          \* bytes sent and not yet taken
  taken,           \* the command taken last: [name, arg]
  count            \* how many were taken

Init == stream = <<>> /\ taken = [name |-> <<>>, arg |-> <<>>] /\ count = 0

IsBlank(c) == c \in {"SP", "CR"}

\* The i-th byte is the first for which Test holds.
FirstAt(s, i, Test(_)) == i \in 1..Len(s) /\ Test(s[i]) /\ \A j \in 1..(i - 1) : ~Test(s[j])

WithoutCR(l) == IF l # <<>> /\ l[Len(l)] = "CR" THEN SubSeq(l, 1, Len(l) - 1) ELSE l

\* l without its leading blanks.
Trimmed(l) ==
  LET Solid(c) == ~IsBlank(c)
  IN  IF \A i \in 1..Len(l) : IsBlank(l[i]) THEN <<>>
      ELSE SubSeq(l, CHOOSE i \in 1..Len(l) : FirstAt(l, i, Solid), Len(l))

\* A line is a name, and after the first space an argument.
Parsed(l) ==
  LET t == WithoutCR(l)
      Space(c) == c = "SP"
  IN  IF \A i \in 1..Len(t) : t[i] # "SP" THEN [name |-> t, arg |-> <<>>]
      ELSE LET i == CHOOSE k \in 1..Len(t) : FirstAt(t, k, Space)
           IN  [name |-> SubSeq(t, 1, i - 1), arg |-> Trimmed(SubSeq(t, i + 1, Len(t)))]

Send(c) ==
  /\ stream' = Append(stream, c)
  /\ UNCHANGED <<taken, count>>

Newline(c) == c = "NL"

Take ==
  \E i \in 1..Len(stream) :
    /\ FirstAt(stream, i, Newline)
    /\ taken' = Parsed(SubSeq(stream, 1, i - 1))
    /\ stream' = SubSeq(stream, i + 1, Len(stream))
    /\ count' = count + 1

Next == Take \/ \E c \in Bytes : Send(c)

Spec == Init /\ [][Next]_<<stream, taken, count>>

=============================================================================
