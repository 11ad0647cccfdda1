----------------------------- MODULE PasvPorts -----------------------------
(***************************************************************************)
(* How the session processes share the range of passive ports (dopasv in   *)
(* core.c, pasv_listen in server.c).  Nothing coordinates them: each walks *)
(* the range from its start and takes the first port that bind() does not  *)
(* refuse.  With SO_REUSEADDR, bind() only refuses a port that another     *)
(* socket listens on, so that two sessions may be bound to one port until  *)
(* the first of them calls listen().                                       *)
(*                                                                         *)
(* Every system call of PASV is a step.  pc[s] is                          *)
(*   "idle"         between commands,                                      *)
(*   "bind"         in the loop over the ports, before bind(),             *)
(*   "listen"       bound, before listen(),                                *)
(*   "getsockname"  listening, before getsockname() and the reply,         *)
(*   "gone"         not a process.                                         *)
(***************************************************************************)
EXTENDS Integers, FiniteSets

CONSTANTS
  Sessions,        \* the session processes there can be at a time
  pasv_port_start, \* config.pasv_port_start
  pasv_port_end,   \* config.pasv_port_end
  OtherPorts,      \* ports of the range that other programs use at times
  Faults           \* system calls that may fail, see AllFaults

AllFaults == {"socket", "setsockopt", "bind", "listen", "getsockname"}

\* What check_config accepts, without port 0, for which bind() would choose.
ASSUME PortAssumption ==
  /\ pasv_port_start \in Nat /\ pasv_port_end \in Nat
  /\ 1 <= pasv_port_start /\ pasv_port_start <= pasv_port_end
  /\ pasv_port_end <= 65535
  /\ OtherPorts \subseteq pasv_port_start..pasv_port_end
  /\ Faults \subseteq AllFaults
  /\ IsFiniteSet(Sessions)

Ports == pasv_port_start..pasv_port_end

VARIABLES
  pc,          \* session -> where it is
  listen_port, \* session -> the loop variable of pasv_listen
  pasv_sock,   \* session -> its listening socket, NoSocket for -1
  told,        \* session -> the port in the reply to its last PASV: two bytes,
               \*   NoPort when that failed or is not there yet
  foreign,     \* ports of the range that other programs listen on now
  used         \* ports of the range that they have listened on so far

vars == <<pc, listen_port, pasv_sock, told, foreign, used>>
otherVars == <<foreign, used>>

NoPort == <<>>
NoSocket == [port |-> 0, reuse |-> FALSE, listening |-> FALSE, open |-> FALSE]

Sockets == [port : Ports \cup {0}, reuse : BOOLEAN, listening : BOOLEAN,
            open : BOOLEAN]

Init ==
  /\ pc = [s \in Sessions |-> "gone"]
  /\ listen_port = [s \in Sessions |-> pasv_port_start]
  /\ pasv_sock = [s \in Sessions |-> NoSocket]
  /\ told = [s \in Sessions |-> NoPort]
  /\ foreign \in SUBSET OtherPorts /\ used = foreign

\* The kernel's rule for bind() and, once more, for listen(): session s may
\* share port p with another socket only if both have SO_REUSEADDR and the
\* other does not listen.
InUse(s, p) ==
  \/ p \in foreign
  \/ \E t \in Sessions \ {s} :
       /\ pasv_sock[t].port = p
       /\ \/ pasv_sock[t].listening
          \/ ~pasv_sock[t].reuse
          \/ ~pasv_sock[s].reuse

\* Mutant of BigEndian: host byte order.
BigEndian_little(p) == <<p % 256, (p \div 256) % 256>>

\* A uint16_t in network byte order, as memcpy() finds it in sin_port.
BigEndian(p) == <<(p \div 256) % 256, p % 256>>

\* The port that a client makes of the last two numbers of a 227.
PortOf(bytes) == 256 * bytes[1] + bytes[2]

\* Mutant of Refuse: the socket is left open.
Refuse_open(s) ==
  /\ pc' = [pc EXCEPT ![s] = "idle"]
  /\ UNCHANGED <<pasv_sock, listen_port, told, otherVars>>

\* The end of a PASV that did not work: the socket is closed, 425.
Refuse(s) ==
  /\ pasv_sock' = [pasv_sock EXCEPT ![s] = NoSocket]
  /\ pc' = [pc EXCEPT ![s] = "idle"]
  /\ UNCHANGED <<listen_port, told, otherVars>>

-----------------------------------------------------------------------------

\* The daemon forks a session process; it has no listening socket.
Start(s) ==
  /\ pc[s] = "gone"
  /\ pc' = [pc EXCEPT ![s] = "idle"]
  /\ UNCHANGED <<listen_port, pasv_sock, told, otherVars>>

\* A session process ends, or is killed at any point; the kernel closes its
\* socket.
Exit(s) ==
  /\ pc[s] # "gone"
  /\ pc' = [pc EXCEPT ![s] = "gone"]
  /\ pasv_sock' = [pasv_sock EXCEPT ![s] = NoSocket]
  /\ told' = [told EXCEPT ![s] = NoPort]
  /\ UNCHANGED <<listen_port, otherVars>>

\* dopasv: the old socket is closed, a new one made, its options are set.
\* That setsockopt() fails is only logged.
dopasv(s) ==
  /\ pc[s] = "idle"
  /\ \E reuse \in IF "setsockopt" \in Faults THEN BOOLEAN ELSE {TRUE} :
       pasv_sock' = [pasv_sock EXCEPT ![s] =
                       [port |-> 0, reuse |-> reuse, listening |-> FALSE,
                        open |-> TRUE]]
  /\ told' = [told EXCEPT ![s] = NoPort]
  /\ listen_port' = [listen_port EXCEPT ![s] = pasv_port_start]
  /\ pc' = [pc EXCEPT ![s] = "bind"]
  /\ UNCHANGED otherVars

\* dopasv without a socket: 425, and the -1 it returns ends the session.
SocketFails(s) ==
  /\ pc[s] = "idle" /\ "socket" \in Faults
  /\ pasv_sock' = [pasv_sock EXCEPT ![s] = NoSocket]
  /\ told' = [told EXCEPT ![s] = NoPort]
  /\ pc' = [pc EXCEPT ![s] = "gone"]
  /\ UNCHANGED <<listen_port, otherVars>>

\* Mutant of Bind: htons() is forgotten.
Bind_htons(s) ==
  /\ pc[s] = "bind" /\ listen_port[s] <= pasv_port_end
  /\ ~InUse(s, listen_port[s])
  /\ pasv_sock' = [pasv_sock EXCEPT ![s].port = PortOf(BigEndian_little(listen_port[s]))]
  /\ pc' = [pc EXCEPT ![s] = "listen"]
  /\ UNCHANGED <<listen_port, told, otherVars>>

Bind(s) ==
  /\ pc[s] = "bind" /\ listen_port[s] <= pasv_port_end
  /\ ~InUse(s, listen_port[s])
  /\ pasv_sock' = [pasv_sock EXCEPT ![s].port = listen_port[s]]
  /\ pc' = [pc EXCEPT ![s] = "listen"]
  /\ UNCHANGED <<listen_port, told, otherVars>>

\* Mutants of NextPort: the port is tried again; the last one is left out.
NextPort_same(p) == p
NextPort_short(p) == IF p = pasv_port_end - 1 THEN pasv_port_end + 1 ELSE p + 1

NextPort(p) == p + 1

\* bind() says EADDRINUSE: on to the next port.
PortInUse(s) ==
  /\ pc[s] = "bind" /\ listen_port[s] <= pasv_port_end
  /\ InUse(s, listen_port[s])
  /\ listen_port' = [listen_port EXCEPT ![s] = NextPort(@)]
  /\ UNCHANGED <<pc, pasv_sock, told, otherVars>>

BindFails(s) ==
  /\ pc[s] = "bind" /\ listen_port[s] <= pasv_port_end /\ "bind" \in Faults
  /\ Refuse(s)

NoFreePorts(s) ==
  /\ pc[s] = "bind" /\ listen_port[s] = pasv_port_end + 1
  /\ Refuse(s)

Listen(s) ==
  /\ pc[s] = "listen" /\ ~InUse(s, pasv_sock[s].port)
  /\ pasv_sock' = [pasv_sock EXCEPT ![s].listening = TRUE]
  /\ pc' = [pc EXCEPT ![s] = "getsockname"]
  /\ UNCHANGED <<listen_port, told, otherVars>>

\* Mutant of ListenFails: the return value is not looked at.
ListenFails_ignored(s) ==
  /\ pc[s] = "listen"
  /\ "listen" \in Faults \/ InUse(s, pasv_sock[s].port)
  /\ pc' = [pc EXCEPT ![s] = "getsockname"]
  /\ UNCHANGED <<pasv_sock, listen_port, told, otherVars>>

\* listen() fails, because another session was faster if for no other reason.
\* There is no second attempt.
ListenFails(s) ==
  /\ pc[s] = "listen"
  /\ "listen" \in Faults \/ InUse(s, pasv_sock[s].port)
  /\ Refuse(s)

\* The 227 names the port that getsockname() found.
Getsockname(s) ==
  /\ pc[s] = "getsockname"
  /\ told' = [told EXCEPT ![s] = BigEndian(pasv_sock[s].port)]
  /\ pc' = [pc EXCEPT ![s] = "idle"]
  /\ UNCHANGED <<listen_port, pasv_sock, otherVars>>

GetsocknameFails(s) ==
  /\ pc[s] = "getsockname" /\ "getsockname" \in Faults
  /\ Refuse(s)

-----------------------------------------------------------------------------

\* Another program listens on a port, even one that a session is bound to, or
\* closes it again; this too by the kernel's rule.
OthersListen(p) ==
  /\ p \notin foreign
  /\ \A s \in Sessions :
       pasv_sock[s].port = p => pasv_sock[s].reuse /\ ~pasv_sock[s].listening
  /\ foreign' = foreign \cup {p} /\ used' = used \cup {p}
  /\ UNCHANGED <<pc, listen_port, pasv_sock, told>>

OthersClose(p) ==
  /\ p \in foreign
  /\ foreign' = foreign \ {p}
  /\ UNCHANGED <<pc, listen_port, pasv_sock, told, used>>

-----------------------------------------------------------------------------

\* What the session does of itself once it has begun.
PasvStep(s) ==
  \/ Bind(s) \/ PortInUse(s) \/ NoFreePorts(s)
  \/ Listen(s) \/ ListenFails(s) \/ Getsockname(s)

PasvFault(s) == SocketFails(s) \/ BindFails(s) \/ GetsocknameFails(s)

SessionStep(s) ==
  Start(s) \/ Exit(s) \/ dopasv(s) \/ PasvStep(s) \/ PasvFault(s)

Next ==
  \/ \E s \in Sessions : SessionStep(s)
  \/ \E p \in OtherPorts : OthersListen(p) \/ OthersClose(p)

Spec == Init /\ [][Next]_vars

\* Every session process is scheduled.
FairSpec == Spec /\ \A s \in Sessions : WF_vars(PasvStep(s))

-----------------------------------------------------------------------------
(***************************************************************************)
(* Properties                                                              *)
(***************************************************************************)

\* The type invariant.
TypeOK ==
  /\ pc \in [Sessions -> {"idle", "bind", "listen", "getsockname", "gone"}]
  /\ listen_port \in [Sessions -> pasv_port_start..(pasv_port_end + 1)]
  /\ pasv_sock \in [Sessions -> Sockets]
  /\ told \in [Sessions -> {NoPort} \cup {BigEndian(p) : p \in Ports}]
  /\ foreign \subseteq used /\ used \in SUBSET OtherPorts

\* A client that was sent a 227 reaches the session that sent it, and no
\* other and no other program: the session still listens on the port that the
\* reply spells out in bytes, and no other client was sent the same.
ToldListening ==
  \A s \in Sessions :
    told[s] # NoPort => /\ pasv_sock[s].listening
                        /\ pasv_sock[s].port = PortOf(told[s])
                        /\ PortOf(told[s]) \notin foreign
                        /\ \A t \in Sessions \ {s} : told[t] # told[s]

\* Between commands a session has a socket (conn->pasv_sock # -1, what
\* pre_command asks of a transfer) exactly if its client was told the port.
SocketMeansTold ==
  \A s \in Sessions :
    pc[s] = "idle" => (pasv_sock[s].open <=> told[s] # NoPort)

\* A session finds the whole range taken only if there are more sessions than
\* ports that no other program has used so far, although ports change hands
\* while it walks the range, those of other programs too.
NoFalseExhaustion ==
  \A s \in Sessions :
    pc[s] = "bind" /\ listen_port[s] > pasv_port_end =>
      Cardinality(Ports \ used) < Cardinality(Sessions)

\* Every PASV is answered, whatever the other sessions and programs do.
PasvAnswered ==
  \A s \in Sessions : (pc[s] = "bind") ~> (pc[s] \in {"idle", "gone"})

=============================================================================
